------------------------------- MODULE TTLCache -------------------------------
(***************************************************************************)
(* The cache of src/lib/cache.ts as operators on its value: a JavaScript   *)
(* Map, so a sequence of entries [key, v, exp] with distinct keys, the     *)
(* least recently used one first.                                          *)
(***************************************************************************)
EXTENDS Naturals, Sequences, SequencesExt, Filter

Keyed(cache, key) == {i \in DOMAIN cache : cache[i].key = key}

\* delete.
Without(cache, key) == Drop(cache, {entry \in ToSet(cache) : entry.key = key})

\* The live entry that get finds, as a set of one or none.
Found(cache, key, now) == {cache[i] : i \in {j \in Keyed(cache, key) : cache[j].exp > now}}

\* Mutant: a hit leaves the entry where it is.
AfterGetInPlace(cache, key, now) ==
  Drop(cache, {entry \in ToSet(cache) : entry.key = key /\ entry.exp <= now})

\* get: a hit moves the entry to the end, an expired entry goes.
AfterGet(cache, key, now) ==
  IF Found(cache, key, now) = {} THEN Without(cache, key)
  ELSE Append(Without(cache, key), CHOOSE entry \in Found(cache, key, now) : TRUE)

\* set: the entry goes to the end; over maxEntries, the first ones are evicted.
AfterSet(cache, entry, maxEntries) ==
  LET full == Append(Without(cache, entry.key), entry)
      overflow == IF Len(full) > maxEntries THEN Len(full) - maxEntries ELSE 0
  IN  SubSeq(full, overflow + 1, Len(full))
=============================================================================
