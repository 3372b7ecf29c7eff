------------------------------ MODULE QuicServer ------------------------------
(***************************************************************************)
(* Serving requests over QUIC: the accept loop of handle_connection, one   *)
(* task per request stream (handle_request_stream), the client's calls     *)
(* (do_quinn), the session garbage collector, and lost connections.  All   *)
(* of them share the session table.                                        *)
(***************************************************************************)
EXTENDS Handshake

CONSTANTS
    Reqs,       \* request streams, each one call of the client
    ConnOf,     \* the connection of each
    Workloads,  \* the assignments of opcodes to the requests to be considered
    Handlers    \* Server.handlers: registered opcodes to "sync" or "stream"

ASSUME QuicAssumption ==
    /\ ConnOf \in [Reqs -> Conns]
    /\ \A w \in Workloads : DOMAIN w = Reqs
    /\ Handlers \in [DOMAIN Handlers -> {"sync", "stream"}]

VARIABLES
    op,      \* opcode of the request
    rpc,     \* where the request is
    rkey,    \* session_key of the request task
    passed,  \* history: when the request task passed its expiry check
    frame,   \* the first thing the server puts on the stream: a response
             \* frame under a key, or its end ("fin")
    result   \* what the client's call returned

reqVars == <<op, rpc, rkey, passed, frame, result>>
vars == <<now, sessions, hsVars, reqVars>>

Statuses == {"SessionExpired", "BadRequest", "NotFound", "Handled", "InternalError"}
Frames == [status : Statuses \cup {"pending", "fin"}, key : Keys \cup {NoKey}]
Pending == [status |-> "pending", key |-> NoKey]
Fin == [status |-> "fin", key |-> NoKey]
Results == {"none", "error", "dropped"} \cup Statuses

(* The handler of the request was invoked. *)
Ran(r) == rpc[r] \in {"streaming", "handled"}

(* Mutant of Respond: a response that cannot be encoded keeps the stream open.*)
Respond_KeepsOpen(r, status, key) ==
    frame' = [frame EXCEPT ![r] =
                IF ~alive[ConnOf[r]] THEN Fin
                ELSE IF key = NoKey THEN @
                ELSE [status |-> status, key |-> key]]

(* encode_response_body and write_frame_async, both results ignored: nothing *)
(* is written under an empty key or on a lost connection, and the stream     *)
(* then ends without a frame.                                                *)
Respond(r, status, key) ==
    frame' = [frame EXCEPT ![r] =
                IF ~encrypts(key) \/ ~alive[ConnOf[r]] THEN Fin
                ELSE [status |-> status, key |-> key]]

Goto(r, to) == rpc' = [rpc EXCEPT ![r] = to]

-----------------------------------------------------------------------------
(* The client. *)

(* do_quinn opens a stream and writes the request. *)
OpenStream(r) ==
    /\ rpc[r] = "none"
    /\ Dialed(ConnOf[r]) /\ alive[ConnOf[r]]
    /\ Goto(r, "opened")
    /\ UNCHANGED <<now, sessions, hsVars, op, rkey, passed, frame, result>>

(* open_bi fails on a lost connection, or the request does not encode.       *)
OpenFails(r) ==
    /\ rpc[r] = "none"
    /\ Dialed(ConnOf[r])
    /\ Goto(r, "failed")
    /\ result' = [result EXCEPT ![r] = "error"]
    /\ UNCHANGED <<now, sessions, hsVars, op, rkey, passed, frame>>

(* read_exact and decode_response: a frame under another key does not        *)
(* decrypt, an ended stream is an UnexpectedEof.                             *)
ClientRecv(r) ==
    /\ result[r] = "none"
    /\ frame[r].status # "pending"
    /\ result' = [result EXCEPT ![r] =
                    IF frame[r].status # "fin" /\ decrypts(ClientKey(ConnOf[r]), frame[r].key)
                    THEN frame[r].status ELSE "error"]
    /\ UNCHANGED <<now, sessions, hsVars, op, rpc, rkey, passed, frame>>

(* The connection is lost, or the task returned without reading a request    *)
(* that was still being written: quinn then fails the client's write.        *)
ClientLost(r) ==
    /\ result[r] = "none" /\ rpc[r] # "none"
    /\ ~alive[ConnOf[r]] \/ frame[r].status = "SessionExpired"
    /\ result' = [result EXCEPT ![r] = "error"]
    /\ UNCHANGED <<now, sessions, hsVars, op, rpc, rkey, passed, frame>>

(* The caller drops the future of its call. *)
ClientCancel(r) ==
    /\ result[r] = "none" /\ rpc[r] # "none"
    /\ result' = [result EXCEPT ![r] = "dropped"]
    /\ UNCHANGED <<now, sessions, hsVars, op, rpc, rkey, passed, frame>>

-----------------------------------------------------------------------------
(* The request task, handle_request_stream. *)

(* Mutant of AcceptStream: streams are taken before the session is inserted. *)
AcceptStream_Early(r) ==
    /\ rpc[r] = "opened"
    /\ cpc[ConnOf[r]] \in {"replied", "serving"}
    /\ Goto(r, "spawned")
    /\ UNCHANGED <<now, sessions, hsVars, op, rkey, passed, frame, result>>

(* The connection task takes the stream and spawns the request task. *)
AcceptStream(r) ==
    /\ rpc[r] = "opened"
    /\ cpc[ConnOf[r]] = "serving"
    /\ Goto(r, "spawned")
    /\ UNCHANGED <<now, sessions, hsVars, op, rkey, passed, frame, result>>

(* Mutant of ExpireStream: the task does not return. *)
ExpireStream_NoReturn(r) ==
    LET id == sid[ConnOf[r]] IN
    /\ rpc[r] = "spawned"
    /\ Live(id) /\ (is_expired(sessions[id]) \/ is_idle_dead(sessions[id]))
    /\ Respond(r, "SessionExpired", sessions[id].key)
    /\ Goto(r, "checked")
    /\ UNCHANGED <<now, sessions, hsVars, op, rkey, passed, result>>

(* First get: the session is there and has expired. *)
ExpireStream(r) ==
    LET id == sid[ConnOf[r]] IN
    /\ rpc[r] = "spawned"
    /\ Live(id) /\ (is_expired(sessions[id]) \/ is_idle_dead(sessions[id]))
    /\ Respond(r, "SessionExpired", sessions[id].key)
    /\ Goto(r, "refused")
    /\ UNCHANGED <<now, sessions, hsVars, op, rkey, passed, result>>

(* First get: the session has not expired, or it is no longer in the table.  *)
PassCheck(r) ==
    LET id == sid[ConnOf[r]] IN
    /\ rpc[r] = "spawned"
    /\ Live(id) => ~is_expired(sessions[id]) /\ ~is_idle_dead(sessions[id])
    /\ passed' = [passed EXCEPT ![r] = now]
    /\ Goto(r, "checked")
    /\ UNCHANGED <<now, sessions, hsVars, op, rkey, frame, result>>

(* Mutants of FetchKey: the key comes from the connection task instead of    *)
(* the table; the touched clone is put back into the table.                  *)
FetchKey_FromTask(r) ==
    /\ rpc[r] = "checked"
    /\ rkey' = [rkey EXCEPT ![r] = skey[ConnOf[r]]]
    /\ touch(sid[ConnOf[r]])
    /\ Goto(r, "keyed")
    /\ UNCHANGED <<now, hsVars, op, passed, frame, result>>
FetchKey_WriteBack(r) ==
    LET c == ConnOf[r] IN
    /\ rpc[r] = "checked"
    /\ rkey' = [rkey EXCEPT ![r] = skey[c]]
    /\ insert(sid[c], [NewSession(api_key_id[c], skey[c]) EXCEPT !.created_at = born[c]])
    /\ Goto(r, "keyed")
    /\ UNCHANGED <<now, hsVars, op, passed, frame, result>>

(* Second get: the key, or an empty Vec if the session has gone meanwhile.   *)
(* The third get and the touch() of its clone follow.                        *)
FetchKey(r) ==
    LET id == sid[ConnOf[r]] IN
    /\ rpc[r] = "checked"
    /\ rkey' = [rkey EXCEPT ![r] = IF Live(id) THEN sessions[id].key ELSE NoKey]
    /\ touch(id)
    /\ Goto(r, "keyed")
    /\ UNCHANGED <<now, hsVars, op, passed, frame, result>>

(* The request does not arrive whole or does not decrypt. *)
ReadFails(r) ==
    /\ rpc[r] = "keyed"
    /\ \/ ~decrypts(rkey[r], ClientKey(ConnOf[r]))
       \/ ~alive[ConnOf[r]]
       \/ result[r] = "dropped"
    /\ Respond(r, "BadRequest", rkey[r])
    /\ Goto(r, "refused")
    /\ UNCHANGED <<now, sessions, hsVars, op, rkey, passed, result>>

ReadOk(r) == rpc[r] = "keyed" /\ decrypts(rkey[r], ClientKey(ConnOf[r]))

NotFound(r) ==
    /\ ReadOk(r) /\ op[r] \notin DOMAIN Handlers
    /\ Respond(r, "NotFound", rkey[r])
    /\ Goto(r, "refused")
    /\ UNCHANGED <<now, sessions, hsVars, op, rkey, passed, result>>

(* A sync handler returns a response or an error, or leaves the stream       *)
(* without a frame: it panics, or its response is larger than a frame.       *)
RunSync(r) ==
    /\ ReadOk(r)
    /\ op[r] \in DOMAIN Handlers /\ Handlers[op[r]] = "sync"
    /\ \/ Respond(r, "Handled", rkey[r])
       \/ Respond(r, "InternalError", rkey[r])
       \/ frame' = [frame EXCEPT ![r] = Fin]
    /\ Goto(r, "handled")
    /\ UNCHANGED <<now, sessions, hsVars, op, rkey, passed, result>>

StartStream(r) ==
    /\ ReadOk(r)
    /\ op[r] \in DOMAIN Handlers /\ Handlers[op[r]] = "stream"
    /\ Goto(r, "streaming")
    /\ UNCHANGED <<now, sessions, hsVars, op, rkey, passed, frame, result>>

(* A streaming handler writes its first frame under the key it was given.    *)
StreamWrite(r) ==
    /\ rpc[r] = "streaming" /\ frame[r] = Pending
    /\ Respond(r, "Handled", rkey[r])
    /\ UNCHANGED <<now, sessions, hsVars, op, rpc, rkey, passed, result>>

(* A streaming handler returns (or panics), which drops the stream. *)
StreamEnd(r) ==
    /\ rpc[r] = "streaming"
    /\ frame' = [frame EXCEPT ![r] = IF @ = Pending THEN Fin ELSE @]
    /\ Goto(r, "handled")
    /\ UNCHANGED <<now, sessions, hsVars, op, rkey, passed, result>>

-----------------------------------------------------------------------------
(* Mutant of EndLoop: a failed accept_bi is retried for ever. *)
EndLoop_Retries(c) == cpc[c] = "serving" /\ ~alive[c] /\ UNCHANGED vars

(* The connection task ends when accept_bi fails. *)
EndLoop(c) == CloseSession(c) /\ ~alive[c] /\ UNCHANGED <<now, reqVars>>

QuicAccept(c)    == Accept(c) /\ UNCHANGED <<now, sessions, reqVars>>
QuicRefused(c)   == HelloRefused(c) /\ UNCHANGED <<now, sessions, reqVars>>
QuicReply(c)     == HelloReply(c) /\ UNCHANGED <<now, sessions, reqVars>>
QuicInsert(c)    == InsertSession(c) /\ UNCHANGED <<now, reqVars>>
QuicConnLost(c)  == ConnLost(c) /\ UNCHANGED <<now, sessions, reqVars>>

(* gc_loop: one pass of the collector. *)
GcLoop == gc /\ UNCHANGED <<now, hsVars, reqVars>>

ClockTick == Tick /\ UNCHANGED <<sessions, hsVars, reqVars>>

Init ==
    /\ StoreInit
    /\ HandshakeInit
    /\ op \in Workloads
    /\ rpc = [r \in Reqs |-> "none"]
    /\ rkey = [r \in Reqs |-> NoKey]
    /\ passed = [r \in Reqs |-> 0]
    /\ frame = [r \in Reqs |-> Pending]
    /\ result = [r \in Reqs |-> "none"]

(* The steps of one task each; the two handler steps of a stream, which only *)
(* the application can promise, are kept apart.                              *)
ConnTask(c) == QuicRefused(c) \/ QuicReply(c) \/ QuicInsert(c) \/ EndLoop(c)

RequestTask(r) ==
    \/ AcceptStream(r) \/ ExpireStream(r) \/ PassCheck(r) \/ FetchKey(r)
    \/ ReadFails(r) \/ NotFound(r) \/ RunSync(r) \/ StartStream(r)

ClientTask(r) == ClientRecv(r) \/ ClientLost(r)

ConnStep(c) == QuicAccept(c) \/ ConnTask(c) \/ QuicConnLost(c)

RequestStep(r) ==
    \/ OpenStream(r) \/ OpenFails(r) \/ RequestTask(r)
    \/ StreamWrite(r) \/ StreamEnd(r)
    \/ ClientTask(r) \/ ClientCancel(r)

Next ==
    \/ \E c \in Conns : ConnStep(c)
    \/ \E r \in Reqs : RequestStep(r)
    \/ GcLoop
    \/ ClockTick

Fairness ==
    /\ \A c \in Conns : WF_vars(ConnTask(c))
    /\ \A r \in Reqs : WF_vars(RequestTask(r)) /\ WF_vars(ClientTask(r))
    /\ WF_vars(GcLoop)

Spec == Init /\ [][Next]_vars /\ Fairness

-----------------------------------------------------------------------------
(* Properties. *)

(* Every variable has its type. *)
TypeOK ==
    /\ HandshakeTypeOK
    /\ op \in Workloads
    /\ rpc \in [Reqs -> {"none", "failed", "opened", "spawned", "checked", "keyed",
                         "streaming", "handled", "refused"}]
    /\ rkey \in [Reqs -> Keys \cup {NoKey}]
    /\ passed \in [Reqs -> Times]
    /\ frame \in [Reqs -> Frames]
    /\ result \in [Reqs -> Results]

(* A handler that runs is told the api key id of the client that called it,  *)
(* and that client holds the id's secret (or claims no id): no wrapped       *)
(* length, unknown key or missing key confirmation lets a request through    *)
(* under another identity (handle_connection, handle_request_stream).        *)
HandlerIdentity ==
    \A r \in Reqs : Ran(r) =>
        LET c == ConnOf[r] IN
        /\ api_key_id[c] = cred[c].id
        /\ cred[c].id # Anonymous =>
              /\ cred[c].id \in DOMAIN KeyStore
              /\ KeyStore[cred[c].id] = cred[c].secret

(* The table holds the sessions of serving connection tasks only, each under *)
(* its own id with its own key and age: no task leaves one behind, whatever  *)
(* the order of losses, collections and request tasks (sessions.delete at    *)
(* the end of handle_connection).                                            *)
SessionsOwned ==
    \A i \in DOMAIN sessions : \E c \in Conns :
        /\ sid[c] = i /\ cpc[c] = "serving"
        /\ sessions[i].key = skey[c]
        /\ sessions[i].api_key_id = api_key_id[c]
        /\ sessions[i].created_at = born[c]

(* While a connection is served its session is in the table until            *)
(* max_lifetime has passed: nothing but age removes it (SessionStore::gc     *)
(* racing the request tasks).                                                *)
ServedUntilOutlived ==
    \A c \in Conns : cpc[c] = "serving" => Live(sid[c]) \/ Outlived(c)

(* A call fails only for a reason: it was never sent, the connection was     *)
(* lost, the two ends derived different keys, the session expired, or the    *)
(* handler ran and gave no answer.  In particular the empty key that a       *)
(* request task may fetch (unwrap_or_default) is never seen by the caller of *)
(* a session that should be live.                                            *)
FailureHasCause ==
    \A r \in Reqs : result[r] \in {"error", "BadRequest"} =>
        \/ rpc[r] = "failed"
        \/ ~alive[ConnOf[r]]
        \/ skey[ConnOf[r]] # ClientKey(ConnOf[r])
        \/ frame[r].status = "SessionExpired"
        \/ Outlived(ConnOf[r])
        \/ rpc[r] = "handled" /\ frame[r] = Fin

(* A handler runs only for a request whose expiry check was made while its   *)
(* session was live and within both time-outs, although the check, the key   *)
(* fetch and the collector are separate critical sections.                   *)
NoHandlerAfterExpiry ==
    \A r \in Reqs : Ran(r) =>
        /\ passed[r] - born[ConnOf[r]] <= MaxLifetime
        /\ passed[r] - born[ConnOf[r]] <= IdleTimeout

(* A session that left the table never comes back: no task writes back the   *)
(* clone it took with get.                                                   *)
NoResurrection ==
    [][\A c \in Conns :
          cpc[c] \in {"serving", "closed"} /\ ~Live(sid[c]) => ~Live(sid[c])']_vars

(* The answers a caller gets are those of the abstract call. *)
Abstract == INSTANCE Rpc WITH
    Calls <- Reqs,
    called <- [r \in Reqs |-> rpc[r] # "none"],
    ran <- [r \in Reqs |-> Ran(r)],
    result <- result

(* The QUIC service implements the abstract call: the handler runs at most   *)
(* once, and a refusal received means it did not and will not run            *)
(* (do_quinn with handle_request_stream).                                    *)
ImplementsRpc == Abstract!Spec

(* Every call returns, unless the application's streaming handler keeps it:  *)
(* each early return of handle_request_stream ends the stream, and a lost    *)
(* connection fails it.                                                      *)
EveryCallReturns ==
    \A r \in Reqs : (rpc[r] = "opened") ~> (result[r] # "none" \/ rpc[r] = "streaming")

(* A session does not survive its connection, even if it is lost between the *)
(* handshake reply and the insertion.                                        *)
ClosedConnForgotten ==
    \A c \in Conns : (sid[c] # 0 /\ ~alive[c]) ~> [](~Live(sid[c]))

(* The collector removes a session that has outlived max_lifetime, while its *)
(* connection is still up.                                                   *)
ExpiredCollected ==
    \A c \in Conns : (cpc[c] = "serving" /\ Outlived(c)) ~> ~Live(sid[c])

(* "touch" keeps a session in use alive: a request is told SessionExpired    *)
(* only if the session outlived max_lifetime or no request passed its check  *)
(* on it within idle_timeout (the meaning of last_used and idle_timeout in   *)
(* the README's session settings).                                           *)
ExpiredOnlyWhenIdle ==
    [][\A r \in Reqs :
         frame[r].status # "SessionExpired" /\ frame'[r].status = "SessionExpired" =>
            \/ Outlived(ConnOf[r])
            \/ \A q \in Reqs : ConnOf[q] = ConnOf[r] /\ Ran(q) =>
                  Elapsed(passed[q]) > IdleTimeout]_vars

-----------------------------------------------------------------------------
(* The inductive invariant behind the safety properties. *)

(* touch() never reaches the table: last_used stays at the creation. *)
NeverTouched == \A i \in DOMAIN sessions : sessions[i].last_used = sessions[i].created_at

StoreInv == SessionsOwned /\ NeverTouched /\ ServedUntilOutlived

Fresh(r) ==
    /\ passed[r] - born[ConnOf[r]] <= MaxLifetime
    /\ passed[r] - born[ConnOf[r]] <= IdleTimeout

(* A request task holds the key of its connection or none; it holds the key, *)
(* or can still fetch it, only if its expiry check found the session fresh.  *)
RequestOK(r) ==
    /\ rpc[r] \notin {"none", "failed", "opened"} =>
          cpc[ConnOf[r]] \in {"serving", "closed"}
    /\ rkey[r] # NoKey => rkey[r] = skey[ConnOf[r]]
    /\ rkey[r] # NoKey => rpc[r] \notin {"none", "failed", "opened"}
    /\ Ran(r) => rkey[r] = ClientKey(ConnOf[r])
    /\ rpc[r] = "checked" /\ Live(sid[ConnOf[r]]) => Fresh(r)
    /\ rpc[r] \in {"keyed", "streaming", "handled"} /\ rkey[r] # NoKey => Fresh(r)

RequestInv == \A r \in Reqs : RequestOK(r)

Refusals == {"SessionExpired", "BadRequest", "NotFound"}

(* The connection is lost, or its session has outlived max_lifetime. *)
Gone(c) == ~alive[c] \/ Outlived(c)

(* What FailureHasCause asks for, in a form that stays true: a session can   *)
(* only outlive max_lifetime once it was served.                             *)
Caused(r) ==
    LET c == ConnOf[r] IN
    \/ rpc[r] = "failed"
    \/ ~alive[c]
    \/ skey[c] # ClientKey(c)
    \/ frame[r].status = "SessionExpired"
    \/ rpc[r] = "refused" /\ Outlived(c)
    \/ rpc[r] = "handled" /\ frame[r] = Fin

(* What is on a stream tells where its task is: an answer is there once the  *)
(* handler ran, a refusal once the task has returned without it, and a       *)
(* stream that ends without a frame, or a task without a key, has lost its   *)
(* connection or its session.                                                *)
AnswerOK(r) ==
    LET c == ConnOf[r] IN
    /\ rpc[r] # "none" => skey[c] # NoKey
    /\ result[r] # "none" => rpc[r] # "none"
    /\ result[r] \in Refusals => rpc[r] = "refused"
    /\ frame[r].status # "pending" => rpc[r] \in {"refused", "streaming", "handled"}
    /\ frame[r].status \in {"Handled", "InternalError"} => Ran(r)
    /\ frame[r].status \in Refusals => rpc[r] = "refused"
    /\ frame[r].status \in Statuses => frame[r].key = skey[c]
    /\ frame[r].status = "fin" =>
          /\ frame[r] = Fin
          /\ \/ rpc[r] = "handled"
             \/ ~alive[c]
             \/ rpc[r] = "refused" /\ Outlived(c)
    /\ frame[r].status = "BadRequest" =>
          result[r] = "dropped" \/ Gone(c) \/ skey[c] # ClientKey(c)
    /\ rpc[r] = "keyed" /\ rkey[r] = NoKey => Gone(c)
    /\ result[r] \in {"error", "BadRequest"} => Caused(r)

AnswerInv == \A r \in Reqs : AnswerOK(r)

(* The inductive invariant: with it a step from any state it allows, not     *)
(* only from a reachable one, keeps every safety invariant above.            *)
IndInv == TypeOK /\ HandshakeInv /\ StoreInv /\ RequestInv /\ AnswerInv

=============================================================================
