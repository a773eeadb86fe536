------------------------ MODULE ResolvedPolicyCache -------------------------
(***************************************************************************)
(* The cache of resolved policies of the in-memory data lake               *)
(* (internal/datalakes/inmemory/resolved_policy_cache.go): at most         *)
(* SizeLimit bytes (0: any number), entries expire TTL after they were     *)
(* made, and the one that was not used for longest is evicted first.       *)
(*                                                                         *)
(* Several callers use the cache; Get and Set hold its mutex.  Set makes   *)
(* its entry before it takes the mutex, and the loop of freeSpace reads    *)
(* the clock anew in every round, so the clock can advance between those   *)
(* steps.  A round of the loop is one step: Go does not say in which order *)
(* it ranges over the map, so of two entries used at the same time either  *)
(* one is the oldest.                                                      *)
(***************************************************************************)
EXTENDS Integers, FiniteSets, FiniteSetsExt, Functions

CONSTANTS
  Callers, Keys,
  Sizes,       \* the sizes of resolved policies
  SizeLimit,   \* sizeLimit
  TTL,         \* ResolvedPolicyCacheTTL
  MaxTime      \* bound: the clock stops here

CacheAssumption ==
  /\ Sizes \subseteq Nat /\ SizeLimit \in Nat /\ TTL \in Nat /\ MaxTime \in Nat
  /\ "free" \notin Callers

VARIABLES
  now, data, totalSize,
  holder,      \* the caller that holds mu, or "free"
  call         \* caller -> [pc, key, entry, reply]

vars == <<now, data, totalSize, holder, call>>

Entry(t, size) == [createdOn |-> t, lastAccessedOn |-> t, size |-> size]
Idle == [pc |-> "idle"]

Init ==
  /\ now = 0
  /\ data = << >>
  /\ totalSize = 0
  /\ holder = "free"
  /\ call = [c \in Callers |-> Idle]

Expired(e) == now - e.createdOn > TTL

\* hasSpace: true when there is no space
hasSpace(size) == SizeLimit > 0 /\ totalSize + size > SizeLimit

Without(f, keys) == Restrict(f, DOMAIN f \ keys)
SizeOf(keys) == MapThenSumSet(LAMBDA k : data[k].size, keys)

Returns(c, reply) == call' = [call EXCEPT ![c] = [pc |-> "done", reply |-> reply]]

\* Faulty variant: reading an entry makes it fresh
GetRenews(c, key) ==
  /\ call[c].pc = "idle"
  /\ holder = "free"
  /\ key \in DOMAIN data
  /\ data' = [data EXCEPT ![key].lastAccessedOn = now]
  /\ Returns(c, [op |-> "get", ok |-> TRUE, age |-> now - data[key].createdOn])
  /\ UNCHANGED <<now, totalSize, holder>>

\* Get: an expired entry is removed and not returned
Get(c, key) ==
  /\ call[c].pc = "idle"
  /\ holder = "free"
  /\ IF key \notin DOMAIN data
       THEN Returns(c, [op |-> "get", ok |-> FALSE]) /\ UNCHANGED <<data, totalSize>>
     ELSE IF Expired(data[key])
       THEN /\ data' = Without(data, {key})
            /\ totalSize' = totalSize - data[key].size
            /\ Returns(c, [op |-> "get", ok |-> FALSE])
     ELSE /\ data' = [data EXCEPT ![key].lastAccessedOn = now]
          /\ Returns(c, [op |-> "get", ok |-> TRUE, age |-> now - data[key].createdOn])
          /\ UNCHANGED totalSize
  /\ UNCHANGED <<now, holder>>

\* Set makes its entry
Set(c, key, size) ==
  /\ call[c].pc = "idle"
  /\ call' = [call EXCEPT ![c] = [pc |-> "lock", key |-> key, entry |-> Entry(now, size)]]
  /\ UNCHANGED <<now, data, totalSize, holder>>

\* Faulty variant: Set does not wait for the mutex
LockAlways(c) ==
  /\ call[c].pc = "lock"
  /\ holder' = c
  /\ call' = [call EXCEPT ![c].pc = IF DOMAIN data = {} THEN "store" ELSE "free"]
  /\ UNCHANGED <<now, data, totalSize>>

\* Set takes the mutex; freeSpace has nothing to do in an empty cache
Lock(c) ==
  /\ call[c].pc = "lock"
  /\ holder = "free"
  /\ holder' = c
  /\ call' = [call EXCEPT ![c].pc = IF DOMAIN data = {} THEN "store" ELSE "free"]
  /\ UNCHANGED <<now, data, totalSize>>

\* the entries freeSpace finds oldest: used before now plus a minute
Oldest(keys) == {k \in keys : \A j \in keys : data[k].lastAccessedOn <= data[j].lastAccessedOn}

\* Faulty variant: one entry is evicted, which may not be enough
FreeSpaceOnce(c) ==
  /\ call[c].pc = "free"
  /\ hasSpace(call[c].entry.size)
  /\ \E k \in Oldest(DOMAIN data) :
       /\ data' = Without(data, {k})
       /\ totalSize' = totalSize - data[k].size
  /\ call' = [call EXCEPT ![c].pc = "store"]
  /\ UNCHANGED <<now, holder>>

\* Faulty variant: with nothing to evict the loop goes on
FreeSpaceForever(c) ==
  /\ call[c].pc = "free"
  /\ hasSpace(call[c].entry.size)
  /\ \/ \E k \in Oldest(DOMAIN data) : data' = Without(data, {k}) /\ totalSize' = totalSize - data[k].size
     \/ DOMAIN data = {} /\ UNCHANGED <<data, totalSize>>
  /\ UNCHANGED <<now, holder, call>>

\* a round of freeSpace: the expired entries go, then, if that is not enough,
\* the oldest one; with nothing to evict the loop ends
FreeSpace(c) ==
  LET expired == {k \in DOMAIN data : Expired(data[k])}
      kept    == DOMAIN data \ expired
      size    == call[c].entry.size
      enough  == ~(totalSize - SizeOf(expired) + size > SizeLimit)
  IN  /\ call[c].pc = "free"
      /\ hasSpace(size)
      /\ \/ /\ enough \/ kept = {}
            /\ data' = Without(data, expired)
            /\ totalSize' = totalSize - SizeOf(expired)
            /\ call' = [call EXCEPT ![c].pc = IF enough THEN "free" ELSE "store"]
         \/ /\ ~enough
            /\ \E k \in Oldest(kept) :
                 /\ data' = Without(data, expired \cup {k})
                 /\ totalSize' = totalSize - SizeOf(expired \cup {k})
            /\ UNCHANGED call
      /\ UNCHANGED <<now, holder>>

\* the loop of freeSpace ends
SpaceFreed(c) ==
  /\ call[c].pc = "free"
  /\ ~hasSpace(call[c].entry.size)
  /\ call' = [call EXCEPT ![c].pc = "store"]
  /\ UNCHANGED <<now, data, totalSize, holder>>

\* Faulty variant: the size of the entry that is replaced stays in the total
StoreAdds(c) ==
  /\ call[c].pc = "store"
  /\ ~hasSpace(call[c].entry.size)
  /\ data' = [k \in DOMAIN data \cup {call[c].key} |-> IF k = call[c].key THEN call[c].entry ELSE data[k]]
  /\ totalSize' = totalSize + call[c].entry.size
  /\ Returns(c, [op |-> "set", ok |-> TRUE, size |-> call[c].entry.size])
  /\ holder' = "free"
  /\ UNCHANGED now

\* Set puts its entry in, in place of the one with the same key
Store(c) ==
  /\ call[c].pc = "store"
  /\ ~hasSpace(call[c].entry.size)
  /\ data' = [k \in DOMAIN data \cup {call[c].key} |-> IF k = call[c].key THEN call[c].entry ELSE data[k]]
  /\ totalSize' = totalSize - SizeOf({call[c].key} \cap DOMAIN data) + call[c].entry.size
  /\ Returns(c, [op |-> "set", ok |-> TRUE, size |-> call[c].entry.size])
  /\ holder' = "free"
  /\ UNCHANGED now

\* Set fails
NoSpace(c) ==
  /\ call[c].pc = "store"
  /\ hasSpace(call[c].entry.size)
  /\ Returns(c, [op |-> "set", ok |-> FALSE, size |-> call[c].entry.size])
  /\ holder' = "free"
  /\ UNCHANGED <<now, data, totalSize>>

\* the caller uses the reply and can call again
Again(c) ==
  /\ call[c].pc = "done"
  /\ call' = [call EXCEPT ![c] = Idle]
  /\ UNCHANGED <<now, data, totalSize, holder>>

Tick ==
  /\ now < MaxTime
  /\ now' = now + 1
  /\ UNCHANGED <<data, totalSize, holder, call>>

Locked(c) == Lock(c) \/ FreeSpace(c) \/ SpaceFreed(c) \/ Store(c) \/ NoSpace(c)

Next ==
  \/ \E c \in Callers : \/ \E key \in Keys : Get(c, key)
                        \/ \E key \in Keys, size \in Sizes : Set(c, key, size)
                        \/ Locked(c)
                        \/ Again(c)
  \/ Tick

Spec == Init /\ [][Next]_vars

-----------------------------------------------------------------------------
(* Properties *)

\* The types of the state; the lock is held by nobody or by a call that is
\* storing an entry.
TypeOK ==
  /\ now \in 0 .. MaxTime
  /\ DOMAIN data \subseteq Keys
  /\ \A k \in DOMAIN data :
       /\ data[k].createdOn \in 0 .. now
       /\ data[k].lastAccessedOn \in data[k].createdOn .. now
       /\ data[k].size \in Sizes
  /\ totalSize \in Nat
  /\ holder \in Callers \cup {"free"}
  /\ \A c \in Callers : holder = c <=> call[c].pc \in {"free", "store"}

\* The running total is the sum of the sizes of what is in the cache, through
\* expiry, eviction and replacement, and never above the limit.
TotalSizeExact ==
  /\ totalSize = SizeOf(DOMAIN data)
  /\ SizeLimit > 0 => totalSize <= SizeLimit

\* Get never returns a resolved policy that is older than the TTL, however
\* often it was read in between.
NeverExpired ==
  \A c \in Callers :
    call[c].pc = "done" => LET r == call[c].reply IN r.op = "get" /\ r.ok => r.age <= TTL

\* Set fails only for a resolved policy that does not fit into an empty cache.
FailsOnlyWhenTooLarge ==
  \A c \in Callers :
    call[c].pc = "done" => LET r == call[c].reply IN r.op = "set" /\ ~r.ok => r.size > SizeLimit

\* The loop of freeSpace makes progress in every round, also for an entry that
\* is larger than the cache: the caller that holds the lock can always take a
\* step that changes something, so that it gives the lock back.
FreeSpaceMoves == \A c \in Callers : holder = c => ENABLED <<Locked(c)>>_vars
=============================================================================
