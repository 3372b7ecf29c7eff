------------------------------- MODULE MCQuic -------------------------------
(***************************************************************************)
(* Instances of QuicServer: one connection with two concurrent requests,   *)
(* for a sync and a streaming handler, or for opcodes nobody registered.    *)
(***************************************************************************)
EXTENDS QuicServer, TLC

CONSTANTS
    c1, r1, r2,           \* a connection and its requests
    alice, bob,           \* an id the server knows, and one it does not
    long,                 \* a known id of 300 bytes
    s1, s2                \* secrets

MCConnOf == [r \in Reqs |-> c1]
MCBoth == {r1 :> "echo" @@ r2 :> "watch"}
MCCalls == MCBoth \cup {r1 :> "unknown" @@ r2 :> "unknown"}
MCHandlers == "echo" :> "sync" @@ "watch" :> "stream"

MCApiKeyIds == {alice, bob, long}
MCIdLen == alice :> 8 @@ bob :> 8 @@ long :> 300
MCKeyStore == [i \in {alice, long} |-> s1]

(* The right secret and a wrong one. *)
MCPair == {[id |-> alice, secret |-> s1], [id |-> alice, secret |-> s2]}

(* Also an unknown id and one that is too long, both of them refused. *)
MCCreds == MCPair \cup {[id |-> i, secret |-> s1] : i \in {bob, long}}

=============================================================================
