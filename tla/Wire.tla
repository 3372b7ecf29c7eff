-------------------------------- MODULE Wire --------------------------------
(***************************************************************************)
(* One call, byte for byte (frame.rs): the client encodes a request into a *)
(* frame, the server reads it, its handler answers, and the client reads   *)
(* the answer.  Either frame may be cut short by a lost connection, and     *)
(* either end may be another implementation of the protocol, which holds    *)
(* the session key and puts any plaintext into its frame.                   *)
(*                                                                          *)
(* A stream is a sequence of bytes, except that the four bytes of a frame's *)
(* length are one number below U32.  Encryption is ideal: nonce and tag are *)
(* bytes that show the key.  The encoding of a payload is a parameter: what *)
(* the frames do holds for any codec (Tlv is the one of the code).          *)
(***************************************************************************)
EXTENDS Values

CONSTANTS
    EncodeMap(_),     \* tlv::encode_map: the bytes of a map
    DecodeMap(_),     \* tlv::decode_map: the map that bytes encode, or None
    MAX_FRAME_SIZE,   \* 1 << 20
    U32,              \* 2^32, the modulus of a frame's length
    KeyChoices,       \* Option<&[u8]>: a session key, as Client and Server pass it, or None
    Opcode, Seq0,     \* opcode and sequence number of the call
    Payloads,         \* what callers set in their payload, or None
    Answers,          \* responses of handlers, besides those that Handle builds
    ForeignRequests,  \* plaintexts of another implementation's client
    ForeignAnswers    \* plaintexts of another implementation's server

NONCE_SIZE == 12
TAG_SIZE == 16
FRAME_OVERHEAD == 4 + NONCE_SIZE + TAG_SIZE
FRAME_MIN_DATA == 4

max_safe_payload == MAX_FRAME_SIZE - FRAME_OVERHEAD

(* What a frame on the wire has besides the plaintext, its length included.  *)
wire_overhead == 36

(* A key is no byte, and what the other implementations send fits a frame.   *)
ASSUME WireAssumption ==
    /\ {MAX_FRAME_SIZE, U32} \subseteq Nat
    /\ MAX_FRAME_SIZE < U32
    /\ Opcode \in 0 .. Radix * Radix - 1
    /\ Seq0 \in 0 .. (Radix * Radix) * (Radix * Radix) - 1
    /\ \A k \in KeyChoices : k = None \/ \E b \in k : k = Some(b) /\ b \notin Byte
    /\ \A p \in ForeignRequests \cup ForeignAnswers :
          p \in Seq(Byte) /\ Len(p) <= max_safe_payload

VARIABLES
    phase,   \* how far the call is
    key,     \* the key of both ends
    asked,   \* the payload the caller set, None if the caller is foreign
    cut,     \* which of the frames was cut short
    up,      \* the stream to the server
    seen,    \* the request that was read, and that the handler, if any, is called with
    resp,    \* the response it returned
    down,    \* the stream to the client
    result   \* the response the call returned; None is an error

vars == <<phase, key, asked, cut, up, seen, resp, down, result>>

(* enum StatusCode: 0x00 .. 0x07. *)
StatusCodes == 0 .. 7
Success == 0
BadRequest == 1
NotFound == 4
SessionExpired == 5
InternalError == 7

-----------------------------------------------------------------------------
(* session::encrypt and decrypt. *)
encrypt(k, p) == [i \in 1 .. NONCE_SIZE |-> k] \o p \o [i \in 1 .. TAG_SIZE |-> k]

decrypt(k, data) ==
    LET n == Len(data) IN
    IF /\ n >= NONCE_SIZE + TAG_SIZE
       /\ \A i \in (1 .. NONCE_SIZE) \cup (n - TAG_SIZE + 1 .. n) : data[i] = k
    THEN Some(SubSeq(data, NONCE_SIZE + 1, n - TAG_SIZE)) ELSE None

seal(k, p) == IF k = None THEN p ELSE encrypt(The(k), p)
open(k, data) == IF k = None THEN Some(data) ELSE decrypt(The(k), data)

(* The payload's bytes, none if there is none. *)
PayloadBytes(payload) == IF payload = None THEN <<>> ELSE EncodeMap(The(payload))

(* `.ok()`: a payload that does not decode is no payload. *)
decode_map_opt(buf) == IF buf = <<>> THEN None ELSE DecodeMap(buf)

(* to_be_bytes and from_be_bytes of a u16 and of a u32. *)
u16_bytes(n) == <<(n \div Radix) % Radix, n % Radix>>
u16_from(s) == s[1] * Radix + s[2]
u32_bytes(n) == u16_bytes(n \div (Radix * Radix)) \o u16_bytes(n % (Radix * Radix))
u32_from(s) == u16_from(s) * (Radix * Radix) + u16_from(SubSeq(s, 3, 4))

-----------------------------------------------------------------------------
(* Frames. *)

(* `4u32 + frame_data.len() as u32`: the cast wraps, the addition wraps in a *)
(* release build and panics in a debug build.                                *)
total_len(data) == (4 + (Len(data) % U32)) % U32
Overflows(data) == 4 + (Len(data) % U32) >= U32

(* Mutant of encode_frame: the limit is compared before the addition. *)
encode_frame_NoSeq(seq, data) ==
    IF (Len(data) % U32) > MAX_FRAME_SIZE THEN None
    ELSE Some(<<total_len(data)>> \o u32_bytes(seq) \o data)

(* encode_frame; write_frame and write_frame_async write the same bytes. *)
encode_frame(seq, data) ==
    IF total_len(data) > MAX_FRAME_SIZE THEN None
    ELSE Some(<<total_len(data)>> \o u32_bytes(seq) \o data)

parse_frame_data(data) ==
    IF Len(data) < 4 THEN None
    ELSE Some([seq |-> u32_from(SubSeq(data, 1, 4)), data |-> SubSeq(data, 5, Len(data))])

(* Mutant of read_frame: a read that ends early is taken for a whole frame.  *)
read_frame_Short(stream) ==
    IF stream = <<>> \/ Head(stream) > MAX_FRAME_SIZE THEN None
    ELSE parse_frame_data(SubSeq(stream, 2, Len(stream)))

(* read_frame and read_frame_async: both limits, then exactly that many bytes.*)
read_frame(stream) ==
    IF \/ stream = <<>>
       \/ Head(stream) > MAX_FRAME_SIZE
       \/ Head(stream) < FRAME_MIN_DATA
       \/ Head(stream) > Len(stream) - 1
    THEN None
    ELSE parse_frame_data(SubSeq(stream, 2, Head(stream) + 1))

(* The client's own reading of a frame has the upper limit only. *)
read_response_frame(stream) ==
    IF stream = <<>> \/ Head(stream) > MAX_FRAME_SIZE \/ Head(stream) > Len(stream) - 1
    THEN None
    ELSE parse_frame_data(SubSeq(stream, 2, Head(stream) + 1))

-----------------------------------------------------------------------------
(* Requests and responses. *)

encode_request_body(k, req) ==
    seal(k, u16_bytes(req.opcode) \o PayloadBytes(req.payload))

(* Mutant of decode_request: the payload starts after one byte of the opcode.*)
decode_request_Early(k, frame) ==
    {[opcode |-> u16_from(SubSeq(p, 1, 2)),
      payload |-> decode_map_opt(SubSeq(p, 2, Len(p))),
      seq |-> frame.seq] : p \in {q \in open(k, frame.data) : Len(q) >= 2}}

decode_request(k, frame) ==
    {[opcode |-> u16_from(SubSeq(p, 1, 2)),
      payload |-> decode_map_opt(SubSeq(p, 3, Len(p))),
      seq |-> frame.seq] : p \in {q \in open(k, frame.data) : Len(q) >= 2}}

read_request(k, stream) == UNION {decode_request(k, f) : f \in read_frame(stream)}

encode_response_body(k, r) == seal(k, <<r.status>> \o PayloadBytes(r.payload))

(* Mutant of decode_response: the payload starts a byte too late. *)
decode_response_Late(k, frame) ==
    {[status |-> Head(p), payload |-> decode_map_opt(SubSeq(p, 3, Len(p))), seq |-> frame.seq] :
        p \in {q \in open(k, frame.data) : q # <<>> /\ Head(q) \in StatusCodes}}

(* A status that the enum does not have is an error (UnknownStatus). *)
decode_response(k, frame) ==
    {[status |-> Head(p), payload |-> decode_map_opt(Tail(p)), seq |-> frame.seq] :
        p \in {q \in open(k, frame.data) : q # <<>> /\ Head(q) \in StatusCodes}}

error_response(code) ==
    [status |-> code, payload |-> Some(set(<<>>, <<5>>, Value("String", <<1>>)))]
new_response(m) == [status |-> Success, payload |-> Some(m)]
session_expired == [status |-> SessionExpired, payload |-> None]
not_found(opcode) ==
    [status |-> NotFound, payload |-> Some(set(<<>>, <<6>>, Value("Uint16", opcode)))]

(* write_response_async, whose result the server ignores: nothing is written *)
(* of a response that is too large.                                          *)
Respond(seq, r) ==
    down' = IF encode_frame(seq, encode_response_body(key, r)) = None THEN <<>>
            ELSE The(encode_frame(seq, encode_response_body(key, r)))

-----------------------------------------------------------------------------
Init ==
    /\ phase = "start"
    /\ key \in KeyChoices
    /\ asked = None /\ seen = None /\ resp = None /\ result = None
    /\ cut = "none"
    /\ up = <<>> /\ down = <<>>

(* The request of a caller who made these calls of set, or passed None. *)
Request(entries) ==
    [opcode |-> Opcode, payload |-> {SetAll(e) : e \in entries}]

(* do_quinn, do_tcp and start_stream up to the write. *)
Call(entries) ==
    LET body == encode_request_body(key, Request(entries)) IN
    /\ phase = "start"
    /\ asked' = Some(entries)
    /\ \/ /\ encode_frame(Seq0, body) # None
          /\ up' = The(encode_frame(Seq0, body))
          /\ phase' = "sent"
       \/ /\ encode_frame(Seq0, body) = None \/ Overflows(body)
          /\ phase' = "refused"
          /\ UNCHANGED up
    /\ UNCHANGED <<key, cut, seen, resp, down, result>>

ForeignCall(plain) ==
    /\ phase = "start"
    /\ up' = The(encode_frame(Seq0, seal(key, plain)))
    /\ phase' = "sent"
    /\ UNCHANGED <<key, asked, cut, seen, resp, down, result>>

(* The connection is lost, or the call dropped, within a frame. *)
CutUp ==
    /\ phase = "sent" /\ asked # None /\ cut = "none"
    /\ \E n \in 0 .. Len(up) - 1 : up' = SubSeq(up, 1, n)
    /\ cut' = "up"
    /\ UNCHANGED <<phase, key, asked, seen, resp, down, result>>

CutDown ==
    /\ phase = "served" /\ asked # None /\ cut = "none" /\ down # <<>>
    /\ \E n \in 0 .. Len(down) - 1 : down' = SubSeq(down, 1, n)
    /\ cut' = "down"
    /\ UNCHANGED <<phase, key, asked, up, seen, resp, result>>

(* The session has expired: the answer is written before anything is read.   *)
Expire ==
    /\ phase = "sent"
    /\ Respond(0, session_expired)
    /\ resp' = Some(session_expired)
    /\ phase' = "served"
    /\ UNCHANGED <<key, asked, cut, up, seen, result>>

(* The request cannot be read: BadRequest. *)
Refuse ==
    /\ phase = "sent"
    /\ read_request(key, up) = None
    /\ Respond(0, error_response(BadRequest))
    /\ resp' = Some(error_response(BadRequest))
    /\ phase' = "served"
    /\ UNCHANGED <<key, asked, cut, up, seen, result>>

(* The handler gets the payload, or an empty map where there is none, and    *)
(* returns that map, another response, or an error; or there is no handler,  *)
(* or over TCP a streaming one.                                              *)
Handle ==
    /\ phase = "sent"
    /\ \E req \in read_request(key, up) :
         LET m == IF req.payload = None THEN <<>> ELSE The(req.payload) IN
         /\ seen' = Some([opcode |-> req.opcode, payload |-> m])
         /\ \E r \in {new_response(m), error_response(InternalError),
                      error_response(BadRequest), not_found(req.opcode)} \cup Answers :
              /\ resp' = Some(r)
              /\ Respond(req.seq, r)
    /\ phase' = "served"
    /\ UNCHANGED <<key, asked, cut, up, result>>

ForeignAnswer(plain) ==
    /\ phase = "sent" /\ asked = Some(None)
    /\ down' = The(encode_frame(Seq0, seal(key, plain)))
    /\ phase' = "served"
    /\ UNCHANGED <<key, asked, cut, up, seen, resp, result>>

(* The rest of do_quinn and do_tcp. *)
Receive ==
    /\ phase = "served"
    /\ result' = UNION {decode_response(key, f) : f \in read_response_frame(down)}
    /\ phase' = "done"
    /\ UNCHANGED <<key, asked, cut, up, seen, resp, down>>

Next ==
    \/ \E entries \in Payloads : Call(entries)
    \/ \E plain \in ForeignRequests : ForeignCall(plain)
    \/ \E plain \in ForeignAnswers : ForeignAnswer(plain)
    \/ CutUp \/ CutDown
    \/ Expire \/ Refuse \/ Handle \/ Receive

Spec == Init /\ [][Next]_vars

-----------------------------------------------------------------------------
(* Properties. *)

(* The length of the frame is not that of its body: 4 GiB in the code.       *)
Wraps(body) == Len(body) >= U32 - 4

(* A frame that was cut short anywhere calls no handler and answers no call  *)
(* (read_exact and the length in read_frame and in do_quinn).  Under a key   *)
(* this holds of any body; without one a length that wraps can name a part   *)
(* that arrived.                                                             *)
TornRefused ==
    /\ cut = "up" /\ seen # None =>
          key = None /\ \E a \in asked : Wraps(encode_request_body(key, Request(a)))
    /\ cut = "down" /\ result # None =>
          key = None /\ \E r \in resp : Wraps(encode_response_body(key, r))

(* Both ends and max_safe_payload agree on the limit: a request is refused   *)
(* by its caller exactly if its plaintext exceeds it, and one that was sent  *)
(* whole is read, unless the session has expired; its frame is longer by     *)
(* wire_overhead.  Only a body of 4 GiB, whose length wraps, escapes this    *)
(* (encode_frame, read_frame).                                               *)
LimitsAgree ==
    \A a \in asked :
        LET plain == encode_request_body(None, Request(a))
            limit == IF key = None THEN MAX_FRAME_SIZE - 4 ELSE max_safe_payload
        IN ~Wraps(seal(key, plain)) =>
              /\ phase = "refused" <=> Len(plain) > limit
              /\ phase \in {"served", "done"} /\ cut # "up" =>
                    seen # None \/ resp \subseteq {session_expired}
              /\ phase = "sent" /\ cut # "up" /\ key # None =>
                    Len(up) + 3 = Len(plain) + wire_overhead

(* The frames are transparent, whatever the codec: the handler is called     *)
(* with the caller's opcode and with what decoding the caller's payload      *)
(* gives, and the call returns the server's status, what decoding its        *)
(* payload gives, and the sequence number of the request, 0 if that was not  *)
(* read; or nothing, if the answer was cut or did not fit (decode_request,   *)
(* decode_response, write_response_async).  Only without a key can a body of *)
(* 4 GiB be taken for a part of it.  The answer of another implementation is *)
(* returned just so, if the enum has its status, and is an error if not,     *)
(* also for the codes 0x80 and above that the README gives to applications.  *)
Transparent ==
    /\ \A s \in seen, a \in asked :
          LET req == Request(a)
              got == decode_map_opt(PayloadBytes(req.payload))
          IN key # None \/ ~Wraps(encode_request_body(key, req)) =>
                s = [opcode |-> Opcode, payload |-> IF got = None THEN <<>> ELSE The(got)]
    /\ \A h \in resp :
          LET body == encode_response_body(key, h)
              sent == [status |-> h.status, payload |-> decode_map_opt(PayloadBytes(h.payload)),
                       seq |-> IF seen = None THEN 0 ELSE Seq0]
          IN /\ key # None \/ ~Wraps(body) => result \subseteq {sent}
             /\ phase = "done" /\ cut # "down" /\ down # <<>> /\ ~Wraps(body) => result = {sent}
    /\ \A p \in ForeignAnswers :
          phase = "done" /\ down = The(encode_frame(Seq0, seal(key, p))) =>
             result = IF p # <<>> /\ Head(p) \in StatusCodes
                      THEN {[status |-> Head(p), payload |-> decode_map_opt(Tail(p)),
                             seq |-> Seq0]}
                      ELSE None

=============================================================================
