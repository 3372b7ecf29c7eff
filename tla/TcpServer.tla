------------------------------ MODULE TcpServer ------------------------------
(***************************************************************************)
(* Serving requests over TLS/TCP: handle_tcp_connection answers the        *)
(* requests of a connection one after the other, and the calls of a client *)
(* (do_tcp, start_stream) take turns on the one byte stream under a mutex. *)
(* The session table, its collector and lost connections are those of      *)
(* Handshake and SessionStore.                                             *)
(***************************************************************************)
EXTENDS Handshake, Sequences, FiniteSets

CONSTANTS
    Calls,        \* calls of the clients
    ConnOf,       \* the connection of each
    Workloads,    \* the assignments of opcodes to the calls to be considered
    Handlers,     \* Server.handlers: registered opcodes to "sync" or "stream"
    NoCall,       \* a frame that answers no call
    Torn,         \* a frame of which only a part was written
    Junk,         \* bytes of a key id that the handshake left unread
    Faults        \* what the applications on both ends may do, out of:
                  \*   "panic"     a handler panics
                  \*   "oversize"  a handler's response is larger than a frame
                  \*   "abandon"   a caller drops a call's future or a StreamReader

ASSUME TcpAssumption ==
    /\ IsFiniteSet(Calls)
    /\ ConnOf \in [Calls -> Conns]
    /\ \A w \in Workloads : DOMAIN w = Calls
    /\ Handlers \in [DOMAIN Handlers -> {"sync", "stream"}]
    /\ {NoCall, Torn, Junk} \cap Calls = {}
    /\ Torn # Junk
    /\ Faults \subseteq {"panic", "oversize", "abandon"}

VARIABLES
    op,      \* opcode of a call
    tpc,     \* where the connection task is in its request loop
    inbox,   \* bytes on their way to the server, as request frames
    outbox,  \* bytes on their way to the client, as response frames
    kpc,     \* where a call is
    result,  \* what it returned, and the call whose answer that is
    ranAt    \* history: when its handler ran

srvVars == <<tpc, inbox, outbox>>
callVars == <<op, kpc, result, ranAt>>
vars == <<now, sessions, hsVars, srvVars, callVars>>

Never == -1
Ran(k) == ranAt[k] # Never
None == [status |-> "none", of |-> NoCall]
Statuses == {"SessionExpired", "BadRequest", "NotFound", "Handled", "InternalError"}
Responses == [status : Statuses \cup {"torn"}, of : Calls \cup {NoCall}]

(* write_frame_async with its result ignored: bytes written to a lost        *)
(* connection go nowhere.                                                    *)
Respond(c, status, k) ==
    outbox' = [outbox EXCEPT ![c] =
                 IF alive[c] THEN Append(@, [status |-> status, of |-> k]) ELSE @]

Goto(c, to) == tpc' = [tpc EXCEPT ![c] = to]

(* The task is at a point of its loop. *)
At(c, pc) == cpc[c] = "serving" /\ tpc[c] = pc

-----------------------------------------------------------------------------
(* The handshake over TCP.  Nothing delimits it: bytes of a wrapped key id   *)
(* stay in the stream and are read as the first request.                     *)
TcpAccept(c) ==
    /\ Accept(c)
    /\ inbox' = [inbox EXCEPT ![c] = IF Truncated(cred[c]) THEN <<Junk>> ELSE <<>>]
    /\ UNCHANGED <<now, sessions, tpc, outbox, callVars>>

TcpRefused(c) == HelloRefused(c) /\ UNCHANGED <<now, sessions, srvVars, callVars>>
TcpReply(c)   == HelloReply(c) /\ UNCHANGED <<now, sessions, srvVars, callVars>>

TcpInsert(c) ==
    /\ InsertSession(c)
    /\ Goto(c, "check")
    /\ UNCHANGED <<now, inbox, outbox, callVars>>

TcpConnLost(c) == ConnLost(c) /\ UNCHANGED <<now, sessions, srvVars, callVars>>

-----------------------------------------------------------------------------
(* The request loop. *)

(* Mutant of ExpireLoop: the loop is not left. *)
ExpireLoop_NoBreak(c) ==
    /\ At(c, "check")
    /\ Live(sid[c])
    /\ is_expired(sessions[sid[c]]) \/ is_idle_dead(sessions[sid[c]])
    /\ Respond(c, "SessionExpired", NoCall)
    /\ Goto(c, "read")
    /\ UNCHANGED <<now, sessions, hsVars, inbox, callVars>>

(* The session is in the table and has expired: say so, unasked, and stop.   *)
ExpireLoop(c) ==
    /\ At(c, "check")
    /\ Live(sid[c])
    /\ is_expired(sessions[sid[c]]) \/ is_idle_dead(sessions[sid[c]])
    /\ Respond(c, "SessionExpired", NoCall)
    /\ Goto(c, "closing")
    /\ UNCHANGED <<now, sessions, hsVars, inbox, callVars>>

(* Mutant of PassLoop: an expired session passes. *)
PassLoop_NoCheck(c) ==
    /\ At(c, "check")
    /\ touch(sid[c])
    /\ Goto(c, "read")
    /\ UNCHANGED <<now, hsVars, inbox, outbox, callVars>>

(* Otherwise touch() a clone of it and wait for a request.  A session that   *)
(* has left the table passes.                                                *)
PassLoop(c) ==
    /\ At(c, "check")
    /\ Live(sid[c]) => /\ ~is_expired(sessions[sid[c]])
                       /\ ~is_idle_dead(sessions[sid[c]])
    /\ touch(sid[c])
    /\ Goto(c, "read")
    /\ UNCHANGED <<now, hsVars, inbox, outbox, callVars>>

(* Mutant of ReadFails: a failed read goes round the loop again. *)
ReadFails_Continues(c) ==
    /\ At(c, "read")
    /\ ~alive[c]
    /\ Goto(c, "check")
    /\ UNCHANGED <<now, sessions, hsVars, inbox, outbox, callVars>>

(* The next bytes are no request: the stream ended, they decrypt under       *)
(* another key, or a part of a frame is completed by the bytes after it.     *)
ReadFails(c) ==
    /\ At(c, "read")
    /\ \/ ~alive[c]
       \/ /\ inbox[c] # <<>>
          /\ \/ Head(inbox[c]) = Junk
             \/ Head(inbox[c]) = Torn /\ Len(inbox[c]) > 1
             \/ Head(inbox[c]) \in Calls /\ ~decrypts(skey[c], ClientKey(c))
    /\ Goto(c, "closing")
    /\ UNCHANGED <<now, sessions, hsVars, inbox, outbox, callVars>>

(* Mutant of Request: a request under another key is taken. *)
Request_NoAuth(c, k) ==
    /\ At(c, "read")
    /\ inbox[c] # <<>> /\ Head(inbox[c]) = k
    /\ inbox' = [inbox EXCEPT ![c] = Tail(@)]

(* A whole request was read and decrypted. *)
Request(c, k) ==
    /\ At(c, "read")
    /\ inbox[c] # <<>> /\ Head(inbox[c]) = k
    /\ decrypts(skey[c], ClientKey(c))
    /\ inbox' = [inbox EXCEPT ![c] = Tail(@)]

(* Mutant of NotFound: the loop continues without an answer. *)
NotFound_NoAnswer(c, k) ==
    /\ Request(c, k)
    /\ op[k] \notin DOMAIN Handlers
    /\ Goto(c, "check")
    /\ UNCHANGED <<now, sessions, hsVars, outbox, callVars>>

NotFound(c, k) ==
    /\ Request(c, k)
    /\ op[k] \notin DOMAIN Handlers
    /\ Respond(c, "NotFound", k)
    /\ Goto(c, "check")
    /\ UNCHANGED <<now, sessions, hsVars, callVars>>

RejectStream(c, k) ==
    /\ Request(c, k)
    /\ op[k] \in DOMAIN Handlers /\ Handlers[op[k]] = "stream"
    /\ Respond(c, "BadRequest", k)
    /\ Goto(c, "check")
    /\ UNCHANGED <<now, sessions, hsVars, callVars>>

Invoke(c, k) ==
    /\ Request(c, k)
    /\ op[k] \in DOMAIN Handlers /\ Handlers[op[k]] = "sync"
    /\ ranAt' = [ranAt EXCEPT ![k] = now]

(* The handler returns; a response larger than a frame is not written.       *)
RunSync(c, k) ==
    /\ Invoke(c, k)
    /\ \/ Respond(c, "Handled", k)
       \/ Respond(c, "InternalError", k)
       \/ "oversize" \in Faults /\ UNCHANGED outbox
    /\ Goto(c, "check")
    /\ UNCHANGED <<now, sessions, hsVars, op, kpc, result>>

(* The handler panics, and the connection task with it: the connection is    *)
(* dropped, and the code after the loop does not run.                        *)
RunPanics(c, k) ==
    /\ "panic" \in Faults
    /\ Invoke(c, k)
    /\ Goto(c, "panicked")
    /\ cpc' = [cpc EXCEPT ![c] = "closed"]
    /\ alive' = [alive EXCEPT ![c] = FALSE]
    /\ UNCHANGED <<now, sessions, next_id, cred, sid, api_key_id, skey, born,
                   outbox, op, kpc, result>>

(* After the loop. *)
TcpClose(c) ==
    /\ CloseSession(c)
    /\ At(c, "closing")
    /\ UNCHANGED <<now, srvVars, callVars>>

-----------------------------------------------------------------------------
(* The client. *)

(* do_tcp numbers and encodes its request, which may fail, and then waits    *)
(* for the mutex around the stream.                                          *)
CallStart(k) ==
    /\ kpc[k] = "idle" /\ Dialed(ConnOf[k])
    /\ \/ kpc' = [kpc EXCEPT ![k] = "waiting"] /\ UNCHANGED result
       \/ /\ kpc' = [kpc EXCEPT ![k] = "done"]
          /\ result' = [result EXCEPT ![k] = [status |-> "error", of |-> NoCall]]
    /\ UNCHANGED <<now, sessions, hsVars, srvVars, op, ranAt>>

(* Mutant of StreamFree: calls do not wait for each other. *)
StreamFree_Always(c) == TRUE

(* The mutex: a call holds it from its write to its return. *)
StreamFree(c) == \A k \in Calls : ConnOf[k] = c => kpc[k] # "sent"

(* With the mutex, write the request.  Bytes for a closed peer are lost.     *)
CallWrite(k) ==
    LET c == ConnOf[k] IN
    /\ kpc[k] = "waiting" /\ StreamFree(c)
    /\ inbox' = [inbox EXCEPT ![c] = IF alive[c] THEN Append(@, k) ELSE @]
    /\ kpc' = [kpc EXCEPT ![k] = "sent"]
    /\ UNCHANGED <<now, sessions, hsVars, tpc, outbox, op, result, ranAt>>

Error == [status |-> "error", of |-> NoCall]

Return(k, v) ==
    /\ result' = [result EXCEPT ![k] = v]
    /\ kpc' = [kpc EXCEPT ![k] = "done"]

(* decode_response: the frame's answer, or an error under another key. *)
Decoded(c, h) == IF decrypts(ClientKey(c), skey[c]) THEN h ELSE Error

(* Read the next response frame of the stream, whichever call it answers:    *)
(* its sequence number is not looked at.  The rest of a torn frame is an     *)
(* error.                                                                    *)
CallRead(k) ==
    LET c == ConnOf[k]
        h == Head(outbox[c])
    IN
    /\ kpc[k] = "sent" /\ outbox[c] # <<>>
    /\ \/ h.status = "torn" /\ Return(k, Error) /\ UNCHANGED outbox
       \/ /\ h.status # "torn"
          /\ Return(k, Decoded(c, h))
          /\ outbox' = [outbox EXCEPT ![c] = Tail(@)]
    /\ UNCHANGED <<now, sessions, hsVars, tpc, inbox, op, ranAt>>

(* The write fails on a lost connection.  The read meets the end of the      *)
(* stream after its last frame, or a reset, which loses what was unread.     *)
CallFails(k) ==
    LET c == ConnOf[k] IN
    /\ ~alive[c]
    /\ \/ kpc[k] = "waiting" /\ StreamFree(c) /\ UNCHANGED outbox
       \/ kpc[k] = "sent" /\ outbox' = [outbox EXCEPT ![c] = <<>>]
    /\ Return(k, Error)
    /\ UNCHANGED <<now, sessions, hsVars, tpc, inbox, op, ranAt>>

Drop(k) == Return(k, [status |-> "dropped", of |-> NoCall])

(* The future is dropped while it waits for the mutex, or during the write:  *)
(* then a part of the request is on the wire.                                *)
AbandonWrite(k) ==
    LET c == ConnOf[k] IN
    /\ "abandon" \in Faults
    /\ kpc[k] = "waiting"
    /\ Drop(k)
    /\ \/ UNCHANGED inbox
       \/ StreamFree(c) /\ alive[c] /\ inbox' = [inbox EXCEPT ![c] = Append(@, Torn)]
    /\ UNCHANGED <<now, sessions, hsVars, tpc, outbox, op, ranAt>>

(* The future, or the StreamReader of start_stream, is dropped before its    *)
(* response was read, or in the middle of it; the mutex is free again.       *)
AbandonRead(k) ==
    LET c == ConnOf[k] IN
    /\ "abandon" \in Faults
    /\ kpc[k] = "sent"
    /\ Drop(k)
    /\ \/ UNCHANGED outbox
       \/ outbox[c] # <<>> /\ outbox' = [outbox EXCEPT ![c][1].status = "torn"]
    /\ UNCHANGED <<now, sessions, hsVars, tpc, inbox, op, ranAt>>

-----------------------------------------------------------------------------
GcLoop == gc /\ UNCHANGED <<now, hsVars, srvVars, callVars>>

ClockTick == Tick /\ UNCHANGED <<sessions, hsVars, srvVars, callVars>>

Init ==
    /\ StoreInit
    /\ HandshakeInit
    /\ op \in Workloads
    /\ tpc = [c \in Conns |-> "check"]
    /\ inbox = [c \in Conns |-> <<>>]
    /\ outbox = [c \in Conns |-> <<>>]
    /\ kpc = [k \in Calls |-> "idle"]
    /\ result = [k \in Calls |-> None]
    /\ ranAt = [k \in Calls |-> Never]

ConnTask(c) ==
    \/ TcpRefused(c) \/ TcpReply(c) \/ TcpInsert(c)
    \/ ExpireLoop(c) \/ PassLoop(c) \/ ReadFails(c) \/ TcpClose(c)
    \/ \E k \in Calls : NotFound(c, k) \/ RejectStream(c, k) \/ RunSync(c, k) \/ RunPanics(c, k)

ClientTask(k) == CallWrite(k) \/ CallRead(k) \/ CallFails(k)

Next ==
    \/ \E c \in Conns : TcpAccept(c) \/ ConnTask(c) \/ TcpConnLost(c)
    \/ \E k \in Calls : CallStart(k) \/ ClientTask(k) \/ AbandonWrite(k) \/ AbandonRead(k)
    \/ GcLoop
    \/ ClockTick

Fairness ==
    /\ \A c \in Conns : WF_vars(ConnTask(c))
    /\ \A k \in Calls : WF_vars(ClientTask(k))
    /\ WF_vars(GcLoop)

Spec == Init /\ [][Next]_vars /\ Fairness

-----------------------------------------------------------------------------
(* Properties. *)

(* Every variable has its type; the queues hold at most one frame per call,  *)
(* the junk of a handshake and one unasked SessionExpired.                   *)
TypeOK ==
    /\ HandshakeTypeOK
    /\ op \in Workloads
    /\ tpc \in [Conns -> {"check", "read", "closing", "panicked"}]
    /\ inbox \in [Conns -> Seq(Calls \cup {Torn, Junk})]
    /\ outbox \in [Conns -> Seq(Responses)]
    /\ \A c \in Conns :
         /\ Len(inbox[c]) <= Cardinality(Calls) + 1
         /\ Len(outbox[c]) <= Cardinality(Calls) + 1
    /\ kpc \in [Calls -> {"idle", "waiting", "sent", "done"}]
    /\ result \in [Calls -> [status : Statuses \cup {"none", "error", "dropped"},
                             of : Calls \cup {NoCall}]]
    /\ ranAt \in [Calls -> Times \cup {Never}]

(* As over QUIC: a handler is told the id of the client that called it, and  *)
(* that client holds the id's secret (handle_tcp_connection).                *)
HandlerIdentity ==
    \A k \in Calls : Ran(k) =>
        LET c == ConnOf[k] IN
        /\ api_key_id[c] = cred[c].id
        /\ cred[c].id # Anonymous =>
              /\ cred[c].id \in DOMAIN KeyStore
              /\ KeyStore[cred[c].id] = cred[c].secret

(* A session in the table belongs to a task that still serves, or to one     *)
(* that a handler's panic took down.                                         *)
LeakOnlyByPanic ==
    \A i \in DOMAIN sessions : \E c \in Conns :
        /\ sid[c] = i
        /\ cpc[c] = "serving" \/ tpc[c] = "panicked"
        /\ sessions[i].key = skey[c]

Late(c) == {k \in Calls : ConnOf[k] = c /\ Ran(k) /\ ranAt[k] - born[c] > MaxLifetime}

(* The expiry check precedes the wait for a request, so one request may be   *)
(* served past max_lifetime; a second one only if the collector took the     *)
(* session out of the table in between.                                      *)
LateOnlyAfterGc ==
    \A c \in Conns : cpc[c] = "serving" /\ Cardinality(Late(c)) > 1 => ~Live(sid[c])

(* max_lifetime bounds a session: at most the one request that was being     *)
(* waited for is served after it.                                            *)
LifetimeBounded == \A c \in Conns : Cardinality(Late(c)) <= 1

(* Only a caller that drops a call (or a StreamReader) can shift the answers *)
(* of the calls after it, since do_tcp reads the next frame of the stream    *)
(* and does not compare sequence numbers: without one, whatever else fails,  *)
(* no call takes the answer of another (do_tcp under the stream's mutex).    *)
ShiftOnlyByAbandon ==
    \A k \in Calls : result[k].of \notin {k, NoCall} =>
        \E q \in Calls \ {k} : ConnOf[q] = ConnOf[k] /\ result[q].status = "dropped"

(* The answers a caller gets are those of the abstract call. *)
Abstract == INSTANCE Rpc WITH
    Calls <- Calls,
    called <- [k \in Calls |-> kpc[k] # "idle"],
    ran <- [k \in Calls |-> Ran(k)],
    result <- [k \in Calls |-> result[k].status]

(* The TCP service implements the abstract call. *)
ImplementsRpc == Abstract!Spec

(* Every call returns: the task answers each request it takes or closes the  *)
(* connection, and the mutex passes on to the next call.                     *)
EveryCallReturns == \A k \in Calls : (kpc[k] = "waiting") ~> (kpc[k] = "done")

(* The session of a lost connection leaves the table, unless a handler's     *)
(* panic takes the task that would delete it.                                *)
LostConnForgotten ==
    \A c \in Conns : (cpc[c] = "serving" /\ ~alive[c]) ~>
                        (~Live(sid[c]) \/ tpc[c] = "panicked")

(* What a panic leaks the collector removes once it outlives max_lifetime.   *)
ExpiredCollected ==
    \A c \in Conns : (sid[c] # 0 /\ Live(sid[c]) /\ Outlived(c)) ~> ~Live(sid[c])

=============================================================================
