------------------------------ MODULE Faithful ------------------------------
(***************************************************************************)
(* The frames of Wire with the codec of Tlv for their payloads: what a call *)
(* keeps of the values that its caller and its handler set.                 *)
(***************************************************************************)
EXTENDS Wire, Tlv

-----------------------------------------------------------------------------
(* Reference definitions, which do not go through the codec. *)

(* What the wire keeps of a value: of a duration the whole milliseconds, as  *)
(* a u64, which a Duration can exceed (`as_millis() as u64`).                *)
RECURSIVE Kept(_)
Kept(v) ==
    CASE v.type = "Timestamp" -> [v EXCEPT !.x = ((@ \div Milli) % Radix ^ Wide) * Milli]
      [] v.type = "Array" -> [v EXCEPT !.x = [i \in DOMAIN @ |-> Kept(@[i])]]
      [] v.type = "Map" -> [v EXCEPT !.x = [i \in DOMAIN @ |-> <<@[i][1], Kept(@[i][2])>>]]
      [] OTHER -> v

(* How deep values are nested in a value: keys and elements are one level    *)
(* below their container.                                                    *)
RECURSIVE Level(_)
Level(v) ==
    IF v.type \notin {"Array", "Map"} \/ v.x = <<>> THEN 0
    ELSE 1 + Max({0} \cup IF v.type = "Array" THEN {Level(v.x[i]) : i \in DOMAIN v.x}
                          ELSE {Level(v.x[i][2]) : i \in DOMAIN v.x})

(* The decoder refuses the value: it is nested too deeply, or too long.  The *)
(* length of the whole bounds the lengths of its parts.                      *)
Beyond(v) == Level(v) > MAX_DECODE_DEPTH \/ Len(payload_bytes(v)) > MAX_PAYLOAD_SIZE

(* The value that the last of the calls of set gave to a key. *)
LastSet(entries, k) ==
    entries[Max({i \in DOMAIN entries : entries[i][1] = k})][2]

(* A map is what the calls of set made it: every key once, with its last     *)
(* value, read back by the getter of its type.                               *)
Holds(m, entries) ==
    LET keys == {entries[i][1] : i \in DOMAIN entries} IN
    /\ {m[i][1] : i \in DOMAIN m} = keys
    /\ Len(m) = Cardinality(keys)
    /\ \A k \in keys :
         LET v == Kept(LastSet(entries, k)) IN get_as(v.type, m, k) = Some(v.x)

-----------------------------------------------------------------------------
(* Properties. *)

(* The handler is called with what the caller set, under the caller's        *)
(* opcode and with durations cut to a u64 of milliseconds; a payload beyond  *)
(* the decoder's limits, which the encoder does not have, reaches it as an   *)
(* empty map and not in part (decode_map_opt in decode_request,              *)
(* unwrap_or_else in the servers).  EmptyIfNoneSent is what the code says of *)
(* that map.                                                                 *)
RequestFaithful ==
    \A s \in seen, a \in asked :
        /\ s.opcode = Opcode
        /\ IF a = None \/ Beyond(Value("Map", The(Request(a).payload)))
           THEN s.payload = <<>>
           ELSE Holds(s.payload, The(a))

(* "empty map if none was sent" (Request in server.rs): a handler that gets   *)
(* an empty map was sent none, or an empty one.                              *)
EmptyIfNoneSent ==
    \A s \in seen, a \in asked : s.payload = <<>> => \A e \in a : e = <<>>

(* The call returns the response that the handler returned, with its status  *)
(* and payload, or an error; a payload beyond the limits is lost, its status *)
(* is not (encode_response_body against the client's reading).               *)
ResponseFaithful ==
    \A r \in result, h \in resp :
        /\ r.status = h.status
        /\ r.payload = {Kept(Value("Map", m)).x :
                          m \in {n \in h.payload : ~Beyond(Value("Map", n))}}

(* Whatever bytes a map was decoded from, an odd encoding of another         *)
(* implementation included, it has each key once, and encoding and decoding  *)
(* it again gives the same map (decode_value, Map::set).                     *)
Canonical ==
    \A s \in seen :
        /\ \A i, j \in DOMAIN s.payload : s.payload[i][1] = s.payload[j][1] => i = j
        /\ decode_map(encode_map(s.payload)) = Some(s.payload)

=============================================================================
