# hush-rs in TLA+

hush-rs is an RPC library: a client and a server agree on a session key in a
short handshake and then exchange encrypted request and response frames over
QUIC or over TLS/TCP. This directory models its core in TLA+, checks it with TLC
and proves its safety properties with TLAPS. Paths below are relative to the repository
root (`src/session.rs` is `src/src/session.rs` in `PROJECT.json`).

## The system

| Component | State | Operations | Interacts with | What makes it hard |
|---|---|---|---|---|
| Session store (`src/session.rs`) | a mutex around id -> `Session`; two time-outs | insert, get (clones), delete, is_expired, is_idle_dead, gc | every server task, the collector, the media validator | a caller checks, fetches and touches in separate critical sections |
| Handshake (`src/server.rs`, `src/client.rs`) | session id, key id, session key of a connection | accept, refuse, reply, insert | key store, session store | 16-bit length of the key id; reply before insertion; no key confirmation |
| QUIC server (`handle_connection`, `handle_request_stream`) | one task per connection, one per request stream | accept stream, check, fetch key, read, dispatch, answer | session store, handlers | tasks outlive the connection task; early returns drop the stream |
| TCP server (`handle_tcp_connection`) | one task per connection | check, read, dispatch, answer, in a loop | session store, handlers | stale check before a blocking read; panics; ignored write errors |
| Client (`do_quinn`, `do_tcp`, `start_stream`) | sequence counter; for TCP a mutex around the stream | dial, call, stream | the servers | calls that are dropped half way |
| Frame codec (`src/frame.rs`) | none | read and write frames, encode and decode bodies | server, client, encryption | size limits at both ends, torn frames, a length that wraps |
| TLV codec (`src/tlv.rs`) | none | encode, decode, `Map::set` and getters | frame codec, applications | varints, sign, depth and size limits only the decoder has, silently lost payloads |
| Hub (`src/hub.rs`) | a mutex around topic -> broadcast sender | subscribe, unsubscribe, publish | streaming handlers | publish sends outside the lock |
| Media tokens (`src/media.rs`, builder in `src/server.rs`) | a mutex around token id -> token | issue, validate, exists, gc | session store through a validator closure | which clock, which table |
| Middleware (`src/middleware.rs`) | none (the limiter is the application's) | wrap a handler | handlers | order of wrapping, a limiter shared by concurrent calls |
| Builder and listeners (`Server` in `src/server.rs`, `src/transport.rs`) | handlers, middleware, the id counter, the accept loops | register, configure, listen over QUIC and TCP | everything above | both listeners share table and counter; transport handshakes are awaited in the accept loop |
| Logger, examples | none of their own | | | |

What each should guarantee is the list of properties under "Runs"; what can go
wrong where is the list of hazards in `PROJECT.json`.

## The modules

| Module | Models | Extends |
|---|---|---|
| `SessionStore` | the table, its clock and its collector, as actions on `sessions` | |
| `Handshake` | from an accepted connection to a session in the table, both ends | `SessionStore` |
| `Rpc` | the abstract call: at most one run of the handler; a refusal means it never runs | |
| `QuicServer` | connection tasks, request tasks, calls, collector over QUIC | `Handshake` |
| `TcpServer` | the request loop and the calls that share a TCP stream | `Handshake` |
| `HushServer` | both accept loops at once over one table, with the tasks they spawn | `Handshake`, instance of `TcpServer` |
| `Values` | TLV values, `Map` with its `set` and its getters | |
| `Tlv` | the value codec as recursive operators | `Values` |
| `Wire` | one call byte for byte: frames, bodies, both readers, for any codec of the payload | `Values` |
| `Faithful` | what a call keeps of the values set in its payloads | `Wire`, `Tlv` |
| `Dispatch` | registration, wrapping, and calls on their way through the middleware | |
| `Hub` | topics, receivers, the three parts of publish | |
| `MediaTokens` | tokens over a session table, and the builder's order | `SessionStore` |
| `HandshakeProofs` | lemmas about the table and the connection tasks that both transports use | `Handshake` |
| `QuicServerProofs`, `TcpServerProofs`, `HushServerProofs` | theorems | `QuicServer`, `TcpServer`, `HushServer`, each with `HandshakeProofs` |
| `HubProofs`, `MediaTokensProofs`, `DispatchProofs`, `WireProofs` | theorems | `Hub`, `MediaTokens`, `Dispatch`, `Wire` |
| `MCQuic`, `MCTcp`, `MCServer`, `MCWire`, `MCDispatch`, `MCHub`, `MCMedia` | instances for TLC | |

Definitions carry the names of the functions they translate where TLA+ allows
it (`insert`, `gc`, `is_idle_dead`, `subscribe`, `validate`); the others are named
for the step they are. `Next` has an action for each stretch of code between two
points at which another task can be scheduled with an effect: an `.await` that
waits for someone else, or a lock.

How the state corresponds:

* `sessions` is `SessionStore.sessions`; `now` is `Instant::now()`. A `Duration` is
  a number of ticks. `touch(id)` leaves the table unchanged because the code
  touches the clone that `get` returned (`src/server.rs:537`, `:704`).
* `cpc` is the place of a connection task (`none`, `accepted`, `replied`,
  `serving`, `closed`); `sid`, `api_key_id`, `skey` are its local variables.
  `alive` is the transport connection; the environment may end it at any time.
* `rpc` is the place of a request stream. Its three `get`s are two steps
  (`PassCheck`/`ExpireStream`, then `FetchKey`): the third `get` only feeds the
  lost `touch`. `rkey` is the task's key, `NoKey` where `unwrap_or_default` gives
  an empty vector. `frame` is the first thing the server puts on the stream.
* Over TCP `inbox` and `outbox` are the bytes in flight, in units of frames;
  `Torn` is a partial frame, `Junk` the unread bytes of a wrapped key id. The mutex
  around the stream is the guard `StreamFree`.
* In `HushServer` `phase` is where the transport's handshake of a connection is
  (`waiting` in the listener's queue, `handshake` while the accept loop awaits it,
  `in`, `failed`), and `up` whether the loop runs. TCP tasks and calls are those of
  `TcpServer`; QUIC tasks are without request tasks, which only read the table.
* In `Wire` `up` and `down` are the two byte streams of a call, `asked` what the
  caller set, `seen` the request the server read, with which a handler, if any, is called,
  `resp` what the server answered and `result` what the caller got; a set of at most one element is an `Option` or a
  `Result`. A foreign client or server puts any plaintext of a given set in a frame.
  `encode_map` and `decode_map` are parameters of `Wire`, which `wire.cfg` sets to the
  operators of `Tlv`: the frames do not look into a payload. The server answers without
  reading (`Expire`: no payload, sequence number 0), refuses what it cannot read (`Refuse`),
  or answers a request: no handler, a streaming one over TCP, an error of the handler, its
  payload returned, or any response of `Answers`, with and without a payload and with every
  status.
* In `Dispatch` a wrapped handler is the sequence of its middleware, outermost
  first; a call walks it inwards to the body and back out. `"logging"` is
  `logging_middleware` with a logger and `"silent"` the one without. `built`, `ran`, `lines`
  and `recent` are history.
* `passed`, `ranAt`, `born`, `present`, `issuedAt` and `answerAt` are history
  variables: no action's guard but `issue`'s (random ids do not repeat) reads them.

Abstractions. Cryptography is ideal: a session key is the pair of the client's
ephemeral key and the secret mixed in; a frame opens under the key that sealed
it. `Handled` stands for whatever status a handler returns. A handler returns, returns an error, panics or (TCP, `"oversize"`)
returns more than fits in a frame; `Faults` says which of these and whether
callers drop calls (`"abandon"`). A key id of 65536 bytes or more is announced
with its length modulo 65536 (`as u16`), and the server then reads a prefix of the
id, and other bytes of it for the client's public key (`Garbage`). The servers' and
clients' modules treat a frame as a unit; `Wire` is where its bytes are. There the
numbers are scaled down so that TLC can hold them: a byte has 16 values, a varint byte
carries three bits, a varint has at most 4 bytes of which 10 bits count, a `u64` has six
bytes (`Wide`), so that it is wider than a `u32` and a duration wider than it, strings are
sequences of bytes with the top bit clear, and the four bytes of a frame's length are
one number. Nonce and tag keep their sizes. A float is its bits. The texts of errors
and logs are left out.

## Runs

| Run | Instance | What it shows |
|---|---|---|
| `quic_calls` | 1 connection, 2 calls (sync and streaming, or both to unknown opcodes), right, wrong, unknown and too long credential, idle 1, lifetime 2, clock to 3 | refinement of `Rpc`; the inductive invariant; `HandlerIdentity`; `SessionsOwned`; `ServedUntilOutlived`; `FailureHasCause`; `NoHandlerAfterExpiry`; `NoResurrection`; every call returns; sessions of closed connections and expired sessions leave the table |
| `server` | 2 QUIC and 2 TCP connections, a silent peer on each listener, a TCP call that may panic, lifetime 1, clock to 2 | `OwnSession`: no task meets the session of another; `Accepted`: only a silent TCP peer can keep others waiting, and only those of its listener |
| `tcp_calls` | 1 connection, 2 calls, 7 kinds of credential, handlers may panic | refinement of `Rpc`, `HandlerIdentity`, every call returns, sessions leave the table |
| `tcp_faults` | 1 connection, 3 calls, all faults | each misbehaviour has exactly the cause its name says: `LeakOnlyByPanic`, `LateOnlyAfterGc`, `ShiftOnlyByAbandon` |
| `hub` | 2 receivers, 2 events, capacity 1 | no orphaned receiver, delivery to those present, lag reported |
| `media` | 2 tokens, 2 sessions, 2 tables, time to live 1, clock to 4 | absolute time to live, refusals final; a token in the store is refused exactly if it is too old, its session has gone, or the builder calls came in the wrong order |
| `wire` | a call with each of some 70 payloads, with and without a key, cut at every byte; answers with every status, with and without a payload; some 2000 foreign plaintexts | what arrives is what was sent or nothing of it (`RequestFaithful`, `ResponseFaithful`, `TornRefused`); frames and encryption add and lose nothing, a whole answer is returned with the sequence number of its request, and one of another implementation if its status is in the enum (`Transparent`); both ends and `max_safe_payload` name one limit; a decoded map has each key once and survives another round trip |
| `dispatch` | 1 opcode, up to 4 builder calls in every order, 2 concurrent calls by an allowed and another caller | which handlers a guard, the log, the recovery and the rate limit cover (`GuardHolds`, `LoggedAndAnswered`, `RateBound`) |
| `quic_idle`, `tcp_lifetime`, `tcp_hang`, `wire_empty` | | the disagreements below |

Bounds. The clock needs to pass both time-outs once, with one tick to spare, and
the two are given in both orders. Two requests of a connection show every
interference between request tasks, since they share nothing but the session.
Interference between connections goes through ids and through the table, and needs a
pair: `server` has one within a listener and one across. A silent peer on each listener
is what tells the listener with a time-out from the one without. Every connection of
`server` starts in its listener's queue, in which it may stay for any time.
Three calls over TCP are what it takes for one to be abandoned, one to
take its answer, and one to come after. Two receivers and two events let a topic
be removed and created again while a publish is in flight, and with capacity 1 let
a receiver lag. The credential lengths 8, 300, 65536 and 65544 lie on both sides
of the limit 256 and of the wrap of 16 bits. Four builder calls are the three
middlewares of the repository's README and the registration, in every order, with
every other sequence of that length; two calls with a limit of one are the first that
the limiter has to tell apart. The payloads of `wire` have every type at the edges of
its range, durations on both sides of what a `u64` of milliseconds holds, nesting on both sides of the depth limit, and lengths at a varint's step to
two bytes (7, 8) and on both sides of `MAX_PAYLOAD_SIZE` (33 to 35), of the frame limit with and
without encryption (56 to 59, 82 to 84) and of the wrap of the length (113 to 210); the
foreign plaintexts combine up to three pieces of encodings, regular and not, under
lengths that are shortest, padded, overlong and overflowing. Deadlock is not checked: every
call, connection and tick of a bounded instance is used up in the end.

Fairness. Weak fairness is assumed for the server's tasks and for the client's
side of a call (tokio polls a task that was woken; `RunSync` also assumes that a
sync handler returns), for the collector (`gc_loop` ticks for ever), for a publish
under way and for a task that polls its receiver. An accept loop that is idle takes a
connection that waits, a peer that speaks ends its transport handshake in one way or
the other, and quinn's idle time-out (30 s, not changed by `src/transport.rs`) ends the
handshake of a silent QUIC peer; nothing ends the TLS handshake of a silent TCP peer
(`src/transport.rs:146`), and none is assumed to. Nothing is assumed of new
connections and calls, of the clock, of lost connections, of cancellations, or of
streaming handlers: `EveryCallReturns` for QUIC excepts a call whose streaming
handler keeps it.

## Disagreements with the documentation

* **Sessions in use expire as idle** (`quic_idle`). `touch()` stamps a clone, so
  `idle_timeout` counts from the creation of the session. A busy client is refused
  after 5 minutes by default. `NeverTouched`, a part of the proved invariant, is
  the same fact from the other side.
* **A TCP session can outlive `max_lifetime`** (`tcp_lifetime`). A session that the
  collector has removed passes the check at `src/server.rs:695`, and the task keeps
  its own copy of the key. `LateOnlyAfterGc` shows the collector to be the only way.
* **A TCP call can hang** (`tcp_hang`) when a response is larger than a frame:
  the write error is ignored. The same fault makes the refinement fail: a caller
  whose handler ran can be told `SessionExpired`, hence `tcp_calls` excludes it.
* **A payload can be lost on the way to the handler** (`wire_empty`). One of more than 512 KiB,
  or nested deeper than 64, is encoded and sent, and then dropped by `decode_map_opt`: the
  handler runs with an empty map (`src/frame.rs:194`), although `src/server.rs:34` says
  "empty map if none was sent". `RequestFaithful` and `ResponseFaithful` show this to be the
  only loss, and never a loss of a part.

Met on the way, without a run of their own, since no line of the repository
promises the contrary, or a property of a passing run already states them or has them as
its exception:

* Answers shift after a dropped TCP call: `do_tcp` does not compare sequence numbers, so
  the next call returns the dropped one's answer. The exception of `ShiftOnlyByAbandon`,
  which is proved to be the only one.
* The repository's README gives the statuses `0x80+` to applications (line 512); for this
  client they are `UnknownStatus` (`src/frame.rs:232`), the answer is lost with its payload,
  and `StatusCode` cannot express them. The last part of `Transparent`.
* A panic over TCP leaves the session in the table until the collector comes, unless
  `recovery_middleware` is installed: the exception in `LeakOnlyByPanic` and `OwnSession`.
* `with_media` before `with_session_config` leaves the validator with an orphaned
  table, and every token refused: a cause of its own in `RefusedWithCause`.
* A timestamp loses what is below a millisecond, and one of 2^64 ms or more, which a
  `Duration` can hold, is cut to its low 64 bits (`as u64`, `src/tlv.rs:223`): `Kept`, up to
  which `RequestFaithful` and `ResponseFaithful` compare.
* A comment at `src/transport.rs:143` speaks of keepalive, but only nodelay is set: a TCP
  connection lost without a word keeps its task until the next write, and its session until
  the collector comes. `LostConnForgotten` is about losses that a read reports.
* A receiver that lags is told so by `recv`, although `src/hub.rs:27` speaks of events
  dropped silently: the exception of `DeliveredToPresent`, and `EventuallyReceived`.
* `use_middleware` does not wrap streaming handlers, and no middleware wraps a handler
  registered before it: the exceptions of `GuardHolds`. A call that `rate_limit_middleware`
  or `require_api_key_id` refuses is answered `InternalError`. The limiter is the
  application's: the code takes any `Fn() -> u64`, and `RateBound` is about one that counts
  atomically in a window which it empties at times of its own.
* Silence on one TCP connection stops that listener's accept loop: the exception of `Accepted`.

## Theorems

All theorems are about any sets of connections, calls, ids, keys, topics, tokens and
opcodes and about any time-outs, capacities and limits. They rest on the named
assumptions of the modules (`ClockAssumption`, `HandshakeAssumption`, `QuicAssumption`,
`TcpAssumption`, `ServerAssumption`, ...), which TLC evaluates in every run. Ideal
cryptography is in the definition of `SessionKey` and `decrypts`, and for the bytes of a
frame in `WireAssumption` (the values that stand for nonce and tag are no bytes of a
plaintext). The list in
`PROJECT.json` pairs each theorem with the property it states; of the invariants and
action properties of the runs only `RequestFaithful`, `ResponseFaithful` and `Canonical`
of `wire` have no theorem.

**What the transports share** (`HandshakeProofs`). Whatever QUIC or TCP does, it does
one of the few things in `SharedStep` to the table, the clock and the variables of the
connection tasks. From that alone follow type correctness of this state, `HandshakeInv`
(ids are given out once; the key of a task is the one the handshake derives; a closed
task has dropped its connection) and `TableInv` (the table holds sessions as their tasks
inserted them, and holds that of a serving task until max_lifetime). `Settled` says what
never changes once a handshake is over: a session that has left the table stays away.
`EqualKeys` says that if the two ends hold the same key then the length of the id was
not wrapped and the secrets agree. Each server then only has to show that its steps are
shared steps (`NextShared`).

**QUIC** (`QuicServerProofs`), from

    IndInv == TypeOK /\ HandshakeInv /\ StoreInv /\ RequestInv /\ AnswerInv

None of the properties is inductive alone. `SessionsOwned` needs ids to be unique, or a
delete could take another task's session. `ServedUntilOutlived` needs `SessionsOwned` to
know that what the collector removes has the age of its connection.
`NoHandlerAfterExpiry` needs the step in the middle: a request task past its check can
fetch a key only if the session is still in the table, and a session in the table was
fresh when it was checked (`RequestOK`, with the sessions never touched for the idle
time-out); a task that passed because it found none ends up with `NoKey`. `AnswerInv`
ties what is on a stream to where its task is: it gives `FailureHasCause`, and the
refinement of `Rpc`, in which an answer comes from a handler that ran, and a refusal
from a task that has stopped.

**TCP** (`TcpServerProofs`), from

    IndInv == Types /\ HandshakeInv /\ TableInv /\ LoopInv /\ CallInv /\ WireInv
              /\ BoundInv /\ LateInv /\ TidyInv

* `LoopInv` (a task leaves its session behind only if it panicked) gives
  `LeakOnlyByPanic`; `CallInv` (one call holds the mutex; a handler ran only under the
  client's key) gives `HandlerIdentity` with `EqualKeys`.
* `BoundInv` bounds the queues for `TypeOK`. Frames are not counted per call, since a
  request becomes its answer: the two queues together hold no more than there are
  calls that have written, and one frame more once the task has left its loop. After a wrapped key id the
  bytes it left stay at the head for ever, so nothing behind them is ever answered.
* `LateInv`: a task that waits for a request has served none late, because its check
  found the session fresh and `TableInv` knows that session's age; so the live session
  of a serving task has at most one late request (`LateOnlyAfterGc`).
* `TidyInv` is about connections no call of which was dropped: while the task reads,
  the stream carries one request or its answer and nothing else; an answer on it is
  that of the call that holds the mutex; only its last frame may be an unasked
  `SessionExpired`, and then the task reads no more. Every write, read and loss
  keeps this, and it is what `ShiftOnlyByAbandon` says from the outside.
* The refinement of `Rpc` follows from `TidyInv` where no call is dropped. A caller that
  reads `SessionExpired` must know its handler did not run: if it had, its answer would
  be the first frame. That fails for a response larger than a frame, which is not
  written; hence the two hypotheses of `TcpImplementsRpc`, the ones under which
  `tcp_calls` checks it (`tcp_faults` and `tcp_hang` are about the faults they exclude).

**Both listeners** (`HushServerProofs`). `HushServer` has its own steps and instances of
those of `TcpServer`; `SameHandshake` and `SameStore` show that both act alike on the
state they share, and `NextMoves` that every step is a move of one task or touches no
session. `OwnSession` then follows from `TableInv` and from what a task that returned
leaves (`Forgotten`).

**Hub** (`HubProofs`). `Registered` is what makes the sender a publish cloned the right
one (`InFlight`); that a receiver is never past the end of its channel (`Backlog`) makes a
sent event unread, which gives `DeliveredToPresent`. `recv` is tokio's.

**Media tokens** (`MediaTokensProofs`). However often `validate` extends a token, it
keeps the time of its issue (`IssueKept`), from which `AbsoluteTtl`, `RefusedForGood` and
the action property `RefusedWithCause` follow, the latter in both directions: no cause is
overlooked, and nothing else is one.

**Middleware** (`DispatchProofs`). After any order of builder calls the chain of a
handler is what was pushed of its kind before its last registration, in that order
(`Listed`, by an order-preserving placement of the chain in the builder calls). `CallOK`
says what a call at a place of its chain has passed; `RateInv` that the limiter counted
every call it let in. `Wrapped` reverses the list twice, as the code does (it iterates
in reverse and wraps inside out), and `ReverseProperties` says what that gives.

**Frames** (`WireProofs`). Any codec, any width of a byte, any limits, keys and payloads;
the one hypothesis, `CodecTyped(Maps)`, is the Rust types of `encode_map` and `decode_map`:
there is a set of maps that holds what callers, handlers and the decoder make, and a map is
encoded as bytes. It does not say that decoding undoes encoding. TLC evaluates it on the
maps of the instance (`CodecTypedHere` in `MCWire`). The theorems follow from

    WireInv(Maps) == TypeOK(Maps) /\ InOrder /\ RefusedForLength /\ UpInv /\ DownInv

in which `UpInv` and `DownInv` say that a stream is the frame of a request or response,
whole or in part, or of a foreign plaintext, and that what was read is what is read of that
stream; the properties
do not mention the streams, so they need this to be inductive. What remains is a fact
about the reader: of a part of a frame nothing is read. Without a key the length tells,
unless it has wrapped. With one the length may have wrapped and it still holds: the tag of
a part would have to begin within the plaintext (`DecryptPrefix`), and a plaintext has no
byte of a tag. This is where ideal encryption is used. `U16Kept`, `U32Kept`, `OpenWhole`
and `ReadWhole` undo the writing of a whole frame step by step, which gives `Transparent`
(`RequestIsRead` and `ResponseIsRead` for what arrived whole) and the half of `LimitsAgree` that says a request within the limit is read.

Only model-checked: the liveness properties (fairness and `ENABLED` are beyond the
prover), and `RequestFaithful`, `ResponseFaithful` and `Canonical`, which say what the
codec of `Tlv` computes: it is recursive over its data, and the prover has no induction
for that. `Transparent` reduces the first two to the codec, for every length.

## Not modelled

Left out: `next_session_id` and `len` of `SessionStore` and the blocking handshake
`negotiate_client` and `negotiate_server` (`src/session.rs:238` to `:309`), none of which
the server or the client calls; the set-up of sockets, quinn and rustls and the certificates (it
has no state that a run of the server changes); the bytes of X25519, HKDF and AES-GCM (the
libraries' own); `open_bi_stream`, which hands a raw stream to the application; logging;
`MediaURLBuilder` (strings); the examples. Four hazards of `PROJECT.json` carry a
note instead of a property, since no document says what should happen: topics that are never
removed, a task that waits for itself, a token honoured for a session that has expired and
not been collected yet, and `exists` and `lookup_hls` of a stale token nobody has validated.
