--------------------------------- MODULE Rpc ---------------------------------
(***************************************************************************)
(* What a hush call promises its caller, whatever the transport: the       *)
(* handler runs at most once, an answer a handler gives is returned only   *)
(* if the handler ran, and a refusal of the server (unknown opcode, bad    *)
(* request, expired session) means that it did not run and never will.     *)
(* An error tells the caller nothing: the handler may have run, or may yet.*)
(***************************************************************************)
CONSTANT Calls

VARIABLES called, ran, result

rpcVars == <<called, ran, result>>

Answers  == {"Handled", "InternalError"}
Refusals == {"NotFound", "BadRequest", "SessionExpired"}
Unknown  == {"error", "dropped"}

Init ==
    /\ called = [k \in Calls |-> FALSE]
    /\ ran = [k \in Calls |-> FALSE]
    /\ result = [k \in Calls |-> "none"]

(* A call is made; it may fail before anything is sent. *)
Call(k) ==
    /\ ~called[k]
    /\ called' = [called EXCEPT ![k] = TRUE]
    /\ result' \in {result, [result EXCEPT ![k] = "error"]}
    /\ UNCHANGED ran

Run(k) ==
    /\ called[k] /\ ~ran[k]
    /\ result[k] \notin Refusals
    /\ ran' = [ran EXCEPT ![k] = TRUE]
    /\ UNCHANGED <<called, result>>

Return(k, v) ==
    /\ called[k] /\ result[k] = "none"
    /\ v \in Answers => ran[k]
    /\ v \in Refusals => ~ran[k]
    /\ result' = [result EXCEPT ![k] = v]
    /\ UNCHANGED <<called, ran>>

Next ==
    \E k \in Calls :
        \/ Call(k)
        \/ Run(k)
        \/ \E v \in Answers \cup Refusals \cup Unknown : Return(k, v)

Spec == Init /\ [][Next]_rpcVars

=============================================================================
