-------------------------------- MODULE Tlv --------------------------------
(***************************************************************************)
(* The value codec (tlv.rs): type byte, varint length, payload, nested for *)
(* arrays and maps.  The constants scale the code's numbers down so that    *)
(* TLC can hold the values; a varint byte carries one bit less than a byte. *)
(***************************************************************************)
EXTENDS Values

CONSTANTS
    MaxVarint,         \* bytes of the longest varint: 10
    LenModulus,        \* 2^64: a varint's bits beyond a u64 are shifted out
    Wide,              \* bytes of a u64: 8
    MAX_PAYLOAD_SIZE,  \* 524288
    MAX_DECODE_DEPTH,  \* 64
    Milli              \* nanoseconds in a millisecond: 1000000

ASSUME TlvAssumption ==
    /\ {MaxVarint, LenModulus, Wide, Milli} \subseteq Nat \ {0}
    /\ {MAX_PAYLOAD_SIZE, MAX_DECODE_DEPTH} \subseteq Nat

(* enum Type: the type byte is the position. *)
Types == <<"String", "Bytes", "Uint8", "Uint16", "Uint32", "Uint64", "Int32", "Int64",
           "Float32", "Float64", "Bool", "Array", "Map", "Null", "Timestamp">>

(* Bytes of the types of fixed size. *)
Width == [Uint8 |-> 1, Bool |-> 1, Uint16 |-> 2, Uint32 |-> 4, Int32 |-> 4, Float32 |-> 4,
          Uint64 |-> Wide, Int64 |-> Wide, Float64 |-> Wide, Timestamp |-> Wide]

-----------------------------------------------------------------------------
(* Numbers.  The division rounds down, so the bytes of a negative number are *)
(* those of its two's complement; higher bytes are cut off (`as u64`).       *)
to_be_bytes(n, w) == [i \in 1 .. w |-> (n \div Radix ^ (w - i)) % Radix]

from_be_bytes(s) == FoldLeft(LAMBDA n, b : n * Radix + b, 0, s)

(* `bits as i32`, `bits as i64`. *)
signed(s) == from_be_bytes(IF s[1] < Radix \div 2 THEN s ELSE [s EXCEPT ![1] = @ - Radix])

(* A varint byte carries Group values, and a continuation bit. *)
Group == Radix \div 2

RECURSIVE encode_varint(_)
encode_varint(n) ==
    IF n < Group THEN <<n>> ELSE <<(n % Group) + Group>> \o encode_varint(n \div Group)

(* The value and the number of its bytes; None if it does not end in time.   *)
decode_varint(buf) ==
    LET ends == {i \in DOMAIN buf : i <= MaxVarint /\ buf[i] < Group}
        n == Min(ends)
        groups == [i \in 1 .. n |-> (buf[i] % Group) * Group ^ (i - 1)]
    IN IF ends = {} THEN None
       ELSE Some(<<FoldLeft(+, 0, groups) % LenModulus, n>>)

-----------------------------------------------------------------------------
(* Encoding. *)

type_byte(v) == CHOOSE b \in DOMAIN Types : Types[b] = v.type

RECURSIVE encode(_)

payload_bytes(v) ==
    CASE v.type \in {"String", "Bytes"} -> v.x
      [] v.type = "Null" -> <<>>
      [] v.type = "Bool" -> <<IF v.x THEN 1 ELSE 0>>
      [] v.type = "Timestamp" -> to_be_bytes(v.x \div Milli, Wide)
      [] v.type = "Array" -> FlattenSeq([i \in DOMAIN v.x |-> encode(v.x[i])])
      [] v.type = "Map" ->
            FlattenSeq([i \in DOMAIN v.x |->
                          encode(Value("String", v.x[i][1])) \o encode(v.x[i][2])])
      [] OTHER -> to_be_bytes(v.x, Width[v.type])

encode(v) ==
    LET p == payload_bytes(v) IN <<type_byte(v)>> \o encode_varint(Len(p)) \o p

encode_map(m) == encode(Value("Map", m))

-----------------------------------------------------------------------------
(* Decoding. *)

(* String::from_utf8 on the strings of the model, which are ASCII: a byte    *)
(* with the top bit that stands alone is refused.                            *)
Utf8(p) == \A i \in DOMAIN p : p[i] < Radix \div 2

(* Mutant of scalar: the sign is lost. *)
scalar_Unsigned(type, s) ==
    CASE type = "Bool" -> s[1] # 0
      [] type = "Timestamp" -> from_be_bytes(s) * Milli
      [] OTHER -> from_be_bytes(s)

scalar(type, s) ==
    CASE type = "Bool" -> s[1] # 0
      [] type \in {"Int32", "Int64"} -> signed(s)
      [] type = "Timestamp" -> from_be_bytes(s) * Milli
      [] OTHER -> from_be_bytes(s)

RECURSIVE decode_value(_, _)

(* The values that fill a payload, one after the other. *)
RECURSIVE decode_all(_, _)
decode_all(p, depth) ==
    IF p = <<>> THEN Some(<<>>)
    ELSE UNION {{<<first[1]>> \o others : others \in decode_all(first[2], depth)} :
                    first \in decode_value(p, depth)}

(* Keys and values alternate, and the keys are strings. *)
Alternate(items) ==
    /\ Len(items) % 2 = 0
    /\ \A i \in 1 .. Len(items) \div 2 : items[2 * i - 1].type = "String"

Pairs(items) == [i \in 1 .. Len(items) \div 2 |-> <<items[2 * i - 1].x, items[2 * i]>>]

(* Mutant of Collect: the entries are pushed and not set. *)
Collect_Push(items) == Pairs(items)

(* A key that comes twice has its last value. *)
Collect(items) == SetAll(Pairs(items))

(* A payload may be longer than the width of its type; the rest is ignored.  *)
decode_payload(type, p, depth) ==
    CASE type \in DOMAIN Width ->
            IF Len(p) < Width[type] THEN None
            ELSE Some(Value(type, scalar(type, SubSeq(p, 1, Width[type]))))
      [] type = "String" -> IF Utf8(p) THEN Some(Value(type, p)) ELSE None
      [] type = "Bytes" -> Some(Value(type, p))
      [] type = "Null" -> Some(Value(type, <<>>))
      [] type = "Array" -> {Value(type, items) : items \in decode_all(p, depth + 1)}
      [] type = "Map" -> {Value(type, Collect(items)) :
                              items \in {s \in decode_all(p, depth + 1) : Alternate(s)}}

(* A value and the bytes after it. *)
decode_value(buf, depth) ==
    IF depth > MAX_DECODE_DEPTH \/ buf = <<>> \/ Head(buf) \notin DOMAIN Types THEN None
    ELSE UNION {
           LET len == header[1]
               start == 1 + header[2]
           IN IF len > MAX_PAYLOAD_SIZE \/ start + len > Len(buf) THEN None
              ELSE {<<v, SubSeq(buf, start + len + 1, Len(buf))>> :
                       v \in decode_payload(Types[Head(buf)],
                                            SubSeq(buf, start + 1, start + len), depth)}
         : header \in decode_varint(Tail(buf))}

(* Bytes after the first value are ignored. *)
decode(buf) == {r[1] : r \in decode_value(buf, 0)}

decode_map(buf) == {v.x : v \in {u \in decode(buf) : u.type = "Map"}}

=============================================================================
