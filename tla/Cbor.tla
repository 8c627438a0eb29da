-------------------------------- MODULE Cbor --------------------------------
(***************************************************************************)
(* The items that messages and snapshots are written as                    *)
(* (common/wire/serder_dtl.h, serder_gto_base.h): a record of the item's   *)
(* kind.  Bytes are not modelled; libcbor gives back the items it was      *)
(* given.  An optional is a set with at most one element.                  *)
(***************************************************************************)
EXTENDS Naturals, SequencesExt

BuildUint(n) == [kind |-> "uint", value |-> n]
BuildArray(items) == [kind |-> "array", items |-> items]
BuildMap(pairs) == [kind |-> "map", pairs |-> pairs]

ReadCborUint(item) == IF item.kind = "uint" THEN {item.value} ELSE {}

\* The numbers of an array of n items, if it is one.
ReadUints(item, n) ==
  IF /\ item.kind = "array" /\ Len(item.items) = n
     /\ \A i \in 1 .. n : ReadCborUint(item.items[i]) # {}
  THEN {[i \in 1 .. n |-> item.items[i].value]}
  ELSE {}

\* Of a vector's elements, what each was written as or read as.
SerializeVector(written) == BuildArray(written)

DeserializeVector(item, read) ==
  IF item.kind = "array" /\ \A i \in DOMAIN read : read[i] # {}
  THEN {[i \in DOMAIN read |-> CHOOSE v \in read[i] : TRUE]}
  ELSE {}

\* cborMapGet: the value of the first pair with the key.
CborMapGet(map, key) ==
  LET at == {i \in DOMAIN map.pairs : map.pairs[i].key = key} IN
  {map.pairs[i].value : i \in {n \in at : \A m \in at : n <= m}}

=============================================================================
