-------------------------------- MODULE MCTcp --------------------------------
(***************************************************************************)
(* Instances of TcpServer: calls of one client that share a connection,     *)
(* with and without callers that abandon calls.                             *)
(***************************************************************************)
EXTENDS TcpServer, TLC

CONSTANTS
    c1, k1, k2, k3,       \* a connection and calls on it
    alice, bob,           \* an id the server knows, and one it does not
    long, wrap0, wrap8,   \* known ids of 300, 65536 and 65544 bytes
    s1, s2                \* secrets

MCConnOf == [k \in Calls |-> c1]
MCHandlers == "echo" :> "sync" @@ "watch" :> "stream"

(* The first call runs a sync handler; the others may also be refused. *)
MCWorkloads == {w \in [Calls -> {"echo", "watch", "unknown"}] : w[k1] = "echo"}
MCEchos == {[k \in Calls |-> "echo"]}

MCApiKeyIds == {alice, bob, long, wrap0, wrap8}
MCIdLen == alice :> 8 @@ bob :> 8 @@ long :> 300 @@ wrap0 :> 65536 @@ wrap8 :> 65544
MCKeyStore == [i \in {alice, long, wrap0, wrap8} |-> s1]

MCGood == {[id |-> alice, secret |-> s1]}
MCCreds ==
    MCGood \cup
    {[id |-> alice, secret |-> s2], [id |-> Anonymous, secret |-> s2],
     [id |-> bob, secret |-> s1]}
    \cup {[id |-> i, secret |-> s1] : i \in {long, wrap0, wrap8}}

=============================================================================
