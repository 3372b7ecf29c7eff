------------------------------ MODULE Handshake ------------------------------
(***************************************************************************)
(* From an accepted connection to a session in the table: the part that    *)
(* handle_connection (QUIC) and handle_tcp_connection (TCP) share line by   *)
(* line, with the client's half in Client::dial and Client::dial_tcp.       *)
(*                                                                          *)
(* Cryptography is ideal: a session key is the pair of the client ephemeral *)
(* key the server used and the secret mixed into it, so two keys are equal  *)
(* only if both parts are.  Every connection has an ephemeral key of its    *)
(* own, for which the connection itself stands.                             *)
(***************************************************************************)
EXTENDS SessionStore

CONSTANTS
    Conns,        \* connections; also the client's ephemeral key of each
    Garbage,      \* 32 bytes of a key id misread as an ephemeral key
    Anonymous,    \* the empty api key id
    ApiKeyIds,    \* the non-empty api key ids
    IdLen,        \* length in bytes of each
    Secrets,      \* api key secrets
    AnonSecret,   \* b"hush-anonymous"
    KeyStore,     \* the ApiKeyStore: a function from known ids to secrets
    Creds,        \* the ApiKeys [id, secret] that clients are configured with
    NoKey         \* the empty Vec<u8>: not a key of any cipher

LenModulus == 65536   \* `len as u16`
MaxKeyLen  == 256

(* Mutant of SessionKey: the api key secret is not mixed in. *)
SessionKey_NoSecret(eph, secret) == <<eph, AnonSecret>>

SessionKey(eph, secret) == <<eph, secret>>
Keys == (Conns \cup {Garbage}) \X (Secrets \cup {AnonSecret})

ASSUME HandshakeAssumption ==
    /\ Garbage \notin Conns
    /\ Anonymous \notin ApiKeyIds
    /\ IdLen \in [ApiKeyIds -> Nat \ {0}]
    /\ DOMAIN KeyStore \subseteq ApiKeyIds
    /\ KeyStore \in [DOMAIN KeyStore -> Secrets]
    /\ Creds \subseteq [id : ApiKeyIds \cup {Anonymous}, secret : Secrets]
    /\ NoKey \notin Keys

VARIABLES
    next_id,     \* Server.next_id
    cred,        \* the ApiKey the client of a connection was given
    cpc,         \* where the server's connection task is
    alive,       \* the transport connection is up
    sid,         \* session_id of the task, 0 before it is accepted
    api_key_id,  \* api_key_id of the task
    skey,        \* session_key the task derived
    born         \* when the task inserted its session

hsVars == <<next_id, cred, cpc, alive, sid, api_key_id, skey, born>>

-----------------------------------------------------------------------------
(* What the client puts in the two length bytes, and what the server makes   *)
(* of the bytes that follow.                                                 *)
KeyLen(k) == IF k.id = Anonymous THEN 0 ELSE IdLen[k.id] % LenModulus

Truncated(k) == k.id # Anonymous /\ IdLen[k.id] >= LenModulus

(* The ids the server may read: a wrapped length leaves a prefix of the id.  *)
SeenIds(k) ==
    IF KeyLen(k) = 0 THEN {Anonymous}
    ELSE IF Truncated(k) THEN {i \in ApiKeyIds : IdLen[i] = KeyLen(k)}
    ELSE {k.id}

SeenEph(c) == IF Truncated(cred[c]) THEN Garbage ELSE c

(* The key the client's dial derives: it mixes the dummy secret when its id  *)
(* is empty, and the secret it was given otherwise.                          *)
ClientKey(c) ==
    SessionKey(c, IF cred[c].id = Anonymous THEN AnonSecret ELSE cred[c].secret)

(* AES-GCM, ideal: an empty key is no key of the cipher, and what was sealed *)
(* opens under the same key only.                                            *)
encrypts(key) == key # NoKey
decrypts(key, sealed) == key # NoKey /\ key = sealed

ServerSecret(aid) == IF aid = Anonymous THEN AnonSecret ELSE KeyStore[aid]

KnownId(aid) == aid = Anonymous \/ aid \in DOMAIN KeyStore

-----------------------------------------------------------------------------
(* Mutant of Accept: the task is not given its id. *)
Accept_NoId(c) ==
    /\ cpc[c] = "none"
    /\ cpc' = [cpc EXCEPT ![c] = "accepted"]
    /\ alive' = [alive EXCEPT ![c] = TRUE]
    /\ next_id' = next_id + 1
    /\ UNCHANGED <<cred, sid, api_key_id, skey, born>>

(* Mutant of Accept: the counter is read and not advanced. *)
Accept_SameId(c) ==
    /\ cpc[c] = "none"
    /\ cpc' = [cpc EXCEPT ![c] = "accepted"]
    /\ alive' = [alive EXCEPT ![c] = TRUE]
    /\ sid' = [sid EXCEPT ![c] = next_id]
    /\ UNCHANGED <<next_id, cred, api_key_id, skey, born>>

(* The accept loop takes an id and spawns the connection task. *)
Accept(c) ==
    /\ cpc[c] = "none"
    /\ cpc' = [cpc EXCEPT ![c] = "accepted"]
    /\ alive' = [alive EXCEPT ![c] = TRUE]
    /\ sid' = [sid EXCEPT ![c] = next_id]
    /\ next_id' = next_id + 1
    /\ UNCHANGED <<cred, api_key_id, skey, born>>

(* The task returns before it has a session: an id longer than MaxKeyLen, an *)
(* id the key store does not know, or a connection that broke.  Returning    *)
(* drops the connection.                                                     *)
HelloRefused(c) ==
    /\ cpc[c] = "accepted"
    /\ \/ ~alive[c]
       \/ KeyLen(cred[c]) > MaxKeyLen
       \/ \E aid \in SeenIds(cred[c]) : ~KnownId(aid)
       \/ Truncated(cred[c]) /\ KeyLen(cred[c]) > 0
    /\ cpc' = [cpc EXCEPT ![c] = "closed"]
    /\ alive' = [alive EXCEPT ![c] = FALSE]
    /\ UNCHANGED <<next_id, cred, sid, api_key_id, skey, born>>

(* The task derives the key and writes its public key and the session id:    *)
(* from here the client's dial can return.                                   *)
HelloReply(c) ==
    /\ cpc[c] = "accepted"
    /\ alive[c]
    /\ KeyLen(cred[c]) <= MaxKeyLen
    /\ \E aid \in SeenIds(cred[c]) :
         /\ KnownId(aid)
         /\ api_key_id' = [api_key_id EXCEPT ![c] = aid]
         /\ skey' = [skey EXCEPT ![c] = SessionKey(SeenEph(c), ServerSecret(aid))]
    /\ cpc' = [cpc EXCEPT ![c] = "replied"]
    /\ UNCHANGED <<next_id, cred, alive, sid, born>>

(* Only after the reply does the session enter the table. *)
InsertSession(c) ==
    /\ cpc[c] = "replied"
    /\ insert(sid[c], NewSession(api_key_id[c], skey[c]))
    /\ born' = [born EXCEPT ![c] = now]
    /\ cpc' = [cpc EXCEPT ![c] = "serving"]
    /\ UNCHANGED <<next_id, cred, alive, sid, api_key_id, skey>>

(* The connection breaks, times out, or the client drops it. *)
ConnLost(c) ==
    /\ alive[c]
    /\ alive' = [alive EXCEPT ![c] = FALSE]
    /\ UNCHANGED <<next_id, cred, cpc, sid, api_key_id, skey, born>>

(* Mutant of CloseSession: the session stays in the table. *)
CloseSession_NoDelete(c) ==
    /\ cpc[c] = "serving"
    /\ cpc' = [cpc EXCEPT ![c] = "closed"]
    /\ alive' = [alive EXCEPT ![c] = FALSE]
    /\ UNCHANGED <<sessions, next_id, cred, sid, api_key_id, skey, born>>

(* The task leaves its loop: it deletes the session and drops the connection.*)
CloseSession(c) ==
    /\ cpc[c] = "serving"
    /\ delete(sid[c])
    /\ cpc' = [cpc EXCEPT ![c] = "closed"]
    /\ alive' = [alive EXCEPT ![c] = FALSE]
    /\ UNCHANGED <<next_id, cred, sid, api_key_id, skey, born>>

HandshakeInit ==
    /\ next_id = 1
    /\ cred \in [Conns -> Creds]
    /\ cpc = [c \in Conns |-> "none"]
    /\ alive = [c \in Conns |-> FALSE]
    /\ sid = [c \in Conns |-> 0]
    /\ api_key_id = [c \in Conns |-> Anonymous]
    /\ skey = [c \in Conns |-> NoKey]
    /\ born = [c \in Conns |-> 0]

-----------------------------------------------------------------------------
(* The server's half of the handshake was written: the client's dial can     *)
(* return, and its calls can start.                                          *)
Dialed(c) == skey[c] # NoKey

Session == [api_key_id : ApiKeyIds \cup {Anonymous}, key : Keys,
            created_at : Times, last_used : Times]

HandshakeTypeOK ==
    /\ now \in Times
    /\ sessions \in [DOMAIN sessions -> Session]
    /\ DOMAIN sessions \subseteq Nat \ {0}
    /\ next_id \in Nat \ {0}
    /\ cred \in [Conns -> Creds]
    /\ cpc \in [Conns -> {"none", "accepted", "replied", "serving", "closed"}]
    /\ alive \in [Conns -> BOOLEAN]
    /\ sid \in [Conns -> Nat]
    /\ api_key_id \in [Conns -> ApiKeyIds \cup {Anonymous}]
    /\ skey \in [Conns -> Keys \cup {NoKey}]
    /\ born \in [Conns -> Times]

(* The session of a connection has outlived max_lifetime. *)
Outlived(c) == now - born[c] > MaxLifetime

(* The key of a task is the one the handshake derives from what it read. *)
Derived(c) ==
    /\ api_key_id[c] \in SeenIds(cred[c])
    /\ KnownId(api_key_id[c])
    /\ skey[c] = SessionKey(SeenEph(c), ServerSecret(api_key_id[c]))

(* Ids are given out once, and a task has a key once it has replied. *)
HandshakeInv ==
    \A c \in Conns :
        /\ cpc[c] = "none" <=> sid[c] = 0
        /\ sid[c] < next_id
        /\ \A d \in Conns : sid[c] = sid[d] /\ sid[c] # 0 => c = d
        /\ cpc[c] \in {"none", "accepted"} => skey[c] = NoKey
        /\ cpc[c] \in {"replied", "serving"} => skey[c] # NoKey
        /\ cpc[c] = "closed" => ~alive[c]
        /\ skey[c] # NoKey => Derived(c)

=============================================================================
