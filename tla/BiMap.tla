-------------------------------- MODULE BiMap --------------------------------
(***************************************************************************)
(* The bi-directional map of collections/BiMap.ts: a Map and, beside it,    *)
(* the inverse Map.  A JavaScript Map is a function on the keys it holds.   *)
(***************************************************************************)
CONSTANTS Keys, Values

VARIABLES map, inverse

vars == <<map, inverse>>

Empty == [x \in {} |-> x]

\* Map.prototype.set and Map.prototype.delete, as functions.
Put(f, x, y) == [z \in DOMAIN f \cup {x} |-> IF z = x THEN y ELSE f[z]]
Without(f, x) == [z \in DOMAIN f \ {x} |-> f[z]]

Init == map = Empty /\ inverse = Empty

Set(k, v) == /\ map' = Put(map, k, v)
             /\ inverse' = Put(inverse, v, k)

HasValue(v) == v \in DOMAIN inverse

\* What deleteValue() does with a value hasValue() finds.
Unlink(v) == /\ map' = Without(map, inverse[v])
             /\ inverse' = Without(inverse, v)

DeleteValue(v) == HasValue(v) /\ Unlink(v)

\* delete() is not overridden: it is the one of Map.
Delete(k) == /\ k \in DOMAIN map
             /\ map' = Without(map, k)
             /\ UNCHANGED inverse

Clear == map' = Empty /\ inverse' = Empty

\* Any caller.
Next == \/ \E k \in Keys, v \in Values : Set(k, v)
        \/ \E k \in Keys : Delete(k)
        \/ \E v \in Values : DeleteValue(v)
        \/ Clear

Spec == Init /\ [][Next]_vars

\* A caller that pairs only new keys with new values and deletes by value, as
\* the registry of lock.ts does.
PairNext == \/ \E k \in Keys \ DOMAIN map, v \in Values \ DOMAIN inverse : Set(k, v)
            \/ \E v \in Values : DeleteValue(v)
            \/ Clear

PairSpec == Init /\ [][PairNext]_vars

-----------------------------------------------------------------------------
TypeOK == /\ DOMAIN map \subseteq Keys /\ DOMAIN inverse \subseteq Values
          /\ \A k \in DOMAIN map : map[k] \in Values
          /\ \A v \in DOMAIN inverse : inverse[v] \in Keys

\* The two maps are each other's inverse.
Inverse ==
  /\ \A k \in DOMAIN map : map[k] \in DOMAIN inverse /\ inverse[map[k]] = k
  /\ \A v \in DOMAIN inverse : inverse[v] \in DOMAIN map /\ map[inverse[v]] = v

\* BiMap.ts:4: "keys and values are unique and map to each other".
ValuesUnique == \A k, l \in DOMAIN map : map[k] = map[l] => k = l

\* BiMap.ts:18: after map.delete("foo"), hasValue() of its value is false.
ValueHasItsKey == \A v \in DOMAIN inverse : inverse[v] \in DOMAIN map
=============================================================================
