---------------------------- MODULE FixedHashMap ----------------------------
(***************************************************************************)
(* The hash map the models keep their entries in                           *)
(* (inc/common/utils/containers/fixed_size_hashmap.hpp): a power-of-two    *)
(* array of buckets holding element indexes, linear probing, an array of   *)
(* elements filled from index 1, no removal.  A map is a value of the      *)
(* modules that use it; the operations are operators on it.                *)
(***************************************************************************)
EXTENDS Integers, Sequences, FiniteSets

CONSTANTS
  Hash(_),     \* mix_fasthash of the key's uid, a natural number
  NoElement    \* the NULL that get_element returns

\* The element index of an empty bucket (index 0 of the elements is reserved).
NO_ELEMENT_INDEX == 0

\* 2^ceil(log2(factor * (n + 1))): the smallest power of two that is not less.
NumBuckets(factor, n) ==
  LET needed == factor * (n + 1)
      power[k \in 0..needed] == IF k = 0 THEN 1 ELSE 2 * power[k - 1]
  IN power[CHOOSE k \in 0..needed :
             power[k] >= needed /\ \A j \in 0..(k - 1) : power[j] < needed]

NewMap(factor, n) ==
  [buckets |-> [i \in 0..(NumBuckets(factor, n) - 1) |-> NO_ELEMENT_INDEX],
   elems |-> <<>>]

\* The bucket that is d probes after the one the key hashes to.
BucketAt(m, key, d) == (Hash(key) + d) % Cardinality(DOMAIN m.buckets)

\* The bucket where a walk from the key's bucket stops: the nearest that
\* satisfies Stops.  With no such bucket the code's loop would not end.
ProbeTo(m, key, Stops(_)) ==
  LET steps == {d \in 0..(Cardinality(DOMAIN m.buckets) - 1) :
                  Stops(m.buckets[BucketAt(m, key, d)])}
  IN BucketAt(m, key, CHOOSE d \in steps : \A c \in steps : d <= c)

\* A key that is added twice gets two elements: the first one is found.
AddNewElement(m, key, value) ==
  LET bucket == ProbeTo(m, key, LAMBDA idx : idx = NO_ELEMENT_INDEX)
  IN [buckets |-> [m.buckets EXCEPT ![bucket] = Len(m.elems) + 1],
      elems |-> Append(m.elems, [key |-> key, value |-> value])]

\* Mutant: only the bucket the key hashes to is looked at.
GetElementUnprobed(m, key) ==
  LET idx == m.buckets[BucketAt(m, key, 0)]
  IN IF idx = NO_ELEMENT_INDEX \/ m.elems[idx].key # key
     THEN NoElement ELSE m.elems[idx].value

GetElement(m, key) ==
  LET bucket == ProbeTo(m, key,
                  LAMBDA idx : idx = NO_ELEMENT_INDEX \/ m.elems[idx].key = key)
  IN IF m.buckets[bucket] = NO_ELEMENT_INDEX
     THEN NoElement
     ELSE m.elems[m.buckets[bucket]].value
=============================================================================
