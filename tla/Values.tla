------------------------------- MODULE Values -------------------------------
(***************************************************************************)
(* The values of tlv.rs and its Map, without their encoding.  A Value is a *)
(* record [type, x]; the entries of a Map are a sequence of pairs          *)
(* <<key, value>>.  Option and Result are sets of at most one element: {}  *)
(* is None or Err, whose text is left out.                                 *)
(***************************************************************************)
EXTENDS Integers, SequencesExt

CONSTANT Radix   \* values of a byte: 256, scaled down so that TLC can hold them

ASSUME RadixAssumption == Radix \in Nat /\ Radix >= 16 /\ Radix % 2 = 0

Byte == 0 .. Radix - 1

None == {}
Some(v) == {v}
The(option) == CHOOSE v \in option : TRUE

Value(type, x) == [type |-> type, x |-> x]

(* The first entry with the key. *)
get(m, key) ==
    LET at == {i \in DOMAIN m : m[i][1] = key}
    IN IF at = {} THEN None ELSE Some(m[Min(at)][2])

(* get_string, get_uint64, get_bytes, get_map: None for another type. *)
get_as(type, m, key) == {v.x : v \in {u \in get(m, key) : u.type = type}}

(* A key that is there keeps its place and gets the new value. *)
set(m, key, val) ==
    IF get(m, key) = None THEN Append(m, <<key, val>>)
    ELSE [i \in DOMAIN m |-> IF m[i][1] = key THEN <<key, val>> ELSE m[i]]

(* The map a sequence of calls of set leaves behind. *)
SetAll(entries) == FoldLeft(LAMBDA m, e : set(m, e[1], e[2]), <<>>, entries)

=============================================================================
