------------------------------- MODULE MCWire -------------------------------
(***************************************************************************)
(* Instances of Wire: a byte of 16 values, a payload of at most 40 bytes    *)
(* nested at most 3 deep, frames of at most 100 bytes whose length wraps at *)
(* 160.                                                                     *)
(***************************************************************************)
EXTENDS Faithful, TLC

CONSTANT k1

MCKeyChoices == {None, Some(k1)}

Bytes(n) == Value("Bytes", [i \in 1 .. n |-> i % Radix])

(* Every type, at the edges of its range; a u64 has 6 bytes, 2^24 values, and *)
(* a Duration has more milliseconds than that.                               *)
Scalars ==
    {Value("String", <<>>), Value("String", <<1, 7>>), Bytes(0), Bytes(3),
     Value("Uint8", 0), Value("Uint8", 15), Value("Uint16", 255), Value("Uint32", 65535),
     Value("Uint64", 16777215), Value("Int32", -32768), Value("Int32", 32767),
     Value("Int64", -1), Value("Int64", -8388608), Value("Int64", 8388607),
     Value("Float32", 65535), Value("Float64", 16777215), Value("Bool", TRUE),
     Value("Bool", FALSE), Value("Null", <<>>), Value("Timestamp", 0), Value("Timestamp", 25),
     Value("Timestamp", 167772159), Value("Timestamp", 167772160),
     Value("Timestamp", 335544345)}

Arr(v) == Value("Array", <<v>>)
Nest(v) == Value("Map", <<<<<<2>>, v>>>>)

(* Nested values on both sides of the depth limit. *)
Nested ==
    LET n == Value("Null", <<>>)
        t == Value("Timestamp", 37)
    IN {Value("Array", <<>>), Arr(t), Arr(Arr(n)), Arr(Arr(Arr(n))), Nest(t), Nest(Nest(n)),
        Arr(Nest(t)), Nest(Arr(Nest(n))), Arr(Arr(Value("Array", <<>>))),
        Value("Array", <<Value("Uint8", 1), Value("Null", <<>>), Value("String", <<3>>)>>)}

(* Lengths around one and two varint bytes, MAX_PAYLOAD_SIZE, MAX_FRAME_SIZE *)
(* (with and without encryption) and the wrap of the length.                 *)
Sizes == {1, 4, 7, 8, 33, 34, 35, 56, 57, 58, 59, 82, 83, 84, 113} \cup 114 .. 120
         \cup {141, 142, 143, 144, 145, 146, 147, 148, 180, 210}

One(v) == <<<<<<1>>, v>>>>
Twice == <<<<<<1>>, Value("Uint8", 1)>>, <<<<2>>, Value("Null", <<>>)>>,
           <<<<1>>, Value("String", <<4>>)>>>>

MCPayloads ==
    {None, Some(<<>>), Some(Twice)}
    \cup {Some(One(v)) : v \in Scalars \cup Nested \cup {Bytes(n) : n \in Sizes}}

(* With every status that the responses of Handle do not have, and without   *)
(* a payload.                                                                *)
MCAnswers ==
    {[status |-> a[1], payload |-> Some(One(Bytes(a[2])))] :
        a \in {<<0, 35>>, <<2, 58>>, <<3, 59>>, <<5, 180>>, <<6, 210>>}}
    \cup {[status |-> s, payload |-> None] : s \in {0, 6}}

(* Pieces of encodings, regular and not: two keys, values of several types,  *)
(* values longer and shorter than their type, bad UTF-8, unknown type bytes. *)
Tokens ==
    {<<1, 0>>, <<1, 1, 3>>, <<1, 1, 8>>, <<14, 0>>, <<3, 1, 5>>, <<3, 2, 1, 1>>, <<3, 0>>,
     <<12, 2, 14, 0>>, <<13, 0>>, <<13, 4, 1, 0, 14, 0>>, <<0>>}

Streams(n) == {FlattenSeq(s) : s \in UNION {[1 .. i -> Tokens] : i \in 0 .. n}}

(* Maps of two entries, with equal and with different keys. *)
TwoEntries ==
    LET keys == {<<1, 0>>, <<1, 1, 3>>}
    IN {k \o v \o l \o w : k, l \in keys, v, w \in Tokens}

(* The length of a map, as short as can be, padded, too long, and with a bit *)
(* that the shift drops.                                                     *)
Headers(n) ==
    {encode_varint(n), <<(n % 8) + 8, (n \div 8) + 8, 0>>,
     <<(n % 8) + 8, (n \div 8) + 8, 8, 8, 0>>, <<(n % 8) + 8, (n \div 8) + 8, 8, 2>>}

MCForeignRequests ==
    {<<>>, <<0>>, <<0, 1>>, <<0, 1, 13>>, <<0, 1, 13, 3, 1, 0>>}
    \cup {<<0, 1, 13>> \o encode_varint(Len(s)) \o s : s \in Streams(3) \cup TwoEntries}
    \cup UNION {{<<0, 1, 13>> \o h \o s : h \in Headers(Len(s))} : s \in Streams(2)}

MCForeignAnswers ==
    {<<>>} \cup {<<status>> \o p : status \in {0, 5, 7, 8, 15},
                                   p \in {<<>>, <<13, 0>>, <<14, 0>>, <<13, 2, 14>>}}

(* The codec has the types that WireProofs asks of it. *)
ASSUME CodecTypedHere ==
    /\ \A e \in UNION MCPayloads : encode_map(SetAll(e)) \in Seq(Byte)
    /\ \A r \in MCAnswers \cup {error_response(BadRequest), not_found(Opcode)} :
          PayloadBytes(r.payload) \in Seq(Byte)
    /\ \A p \in MCForeignRequests : \A m \in decode_map(SubSeq(p, 3, Len(p))) :
          encode_map(m) \in Seq(Byte)

=============================================================================
