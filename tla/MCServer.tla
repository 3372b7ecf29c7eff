------------------------------ MODULE MCServer ------------------------------
(***************************************************************************)
(* An instance of HushServer: a QUIC connection, a TCP connection with a    *)
(* call, and on each listener a peer that never speaks.                     *)
(***************************************************************************)
EXTENDS HushServer, TLC

CONSTANTS
    q1, q2, t1, t2,   \* connections
    k1,               \* a call
    alice, s1         \* the api key

MCConnOf == k1 :> t1
MCWorkloads == {k1 :> "echo"}
MCHandlers == "echo" :> "sync"

MCIdLen == alice :> 8
MCKeyStore == alice :> s1
MCCreds == {[id |-> alice, secret |-> s1]}

=============================================================================
