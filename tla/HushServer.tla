----------------------------- MODULE HushServer -----------------------------
(***************************************************************************)
(* A Server with both listeners: listen_on (QUIC) and listen_tcp run at the *)
(* same time over one session table and one id counter.  This module has    *)
(* their accept loops, which await the transport's own handshake before     *)
(* they take the next connection, and the connection tasks they spawn: over *)
(* TCP those of TcpServer with their calls, over QUIC those of QuicServer   *)
(* without the request tasks, which only read the table.                    *)
(***************************************************************************)
EXTENDS Handshake

CONSTANTS
    QuicConns, TcpConns,   \* the connections of each listener
    Silent,                \* peers that connect and then say nothing
    Calls, ConnOf, Workloads, Handlers, NoCall, Torn, Junk, Faults   \* of TcpServer

ASSUME ServerAssumption ==
    /\ Conns = QuicConns \cup TcpConns /\ QuicConns \cap TcpConns = {}
    /\ Silent \subseteq Conns
    /\ ConnOf \in [Calls -> TcpConns]

VARIABLES
    phase,   \* where the transport's handshake of a connection is
    up,      \* whether the accept loop of a listener runs
    op, tpc, inbox, outbox, kpc, result, ranAt   \* of TcpServer

T == INSTANCE TcpServer

tcpVars == <<op, tpc, inbox, outbox, kpc, result, ranAt>>
loopVars == <<phase, up>>
vars == <<now, sessions, hsVars, tcpVars, loopVars>>

Listeners == {"quic", "tcp"}
Of(l) == IF l = "quic" THEN QuicConns ELSE TcpConns

Move(c, from, to) == phase[c] = from /\ phase' = [phase EXCEPT ![c] = to]

-----------------------------------------------------------------------------
(* The accept loops. *)

(* The loop is between two connections. *)
Idle(l) == up[l] /\ \A c \in Of(l) : phase[c] # "handshake"

(* accept() returns the connection, and the loop awaits its handshake. *)
Take(l, c) ==
    /\ c \in Of(l) /\ Idle(l)
    /\ Move(c, "waiting", "handshake")
    /\ UNCHANGED <<now, sessions, hsVars, tcpVars, up>>

(* The handshake is over: the loop gives the connection an id and a task.    *)
HandshakeDone(c) ==
    /\ c \notin Silent
    /\ Move(c, "handshake", "in")
    /\ \/ c \in QuicConns /\ Accept(c) /\ UNCHANGED <<now, sessions, tcpVars>>
       \/ c \in TcpConns /\ T!TcpAccept(c)
    /\ UNCHANGED up

(* Mutant of HandshakeFails: the error leaves the loop. *)
HandshakeFails_Returns(l, c) ==
    /\ c \in Of(l)
    /\ Move(c, "handshake", "failed")
    /\ up' = [up EXCEPT ![l] = FALSE]
    /\ UNCHANGED <<now, sessions, hsVars, tcpVars>>

(* The handshake fails, or quinn's idle time-out ends it: logged, and on to  *)
(* the next connection.                                                      *)
HandshakeFails(l, c) ==
    /\ c \in Of(l)
    /\ Move(c, "handshake", "failed")
    /\ UNCHANGED <<now, sessions, hsVars, tcpVars, up>>

(* The application closes the QUIC endpoint: its connections are lost, and   *)
(* listen_on returns an error once it asks for the next one.                 *)
EndpointClosed ==
    /\ Idle("quic")
    /\ up' = [up EXCEPT !["quic"] = FALSE]
    /\ alive' = [c \in Conns |-> alive[c] /\ c \notin QuicConns]
    /\ UNCHANGED <<now, sessions, next_id, cred, cpc, sid, api_key_id, skey, born,
                   tcpVars, phase>>

-----------------------------------------------------------------------------
(* The connection tasks. *)

(* handle_connection: its loop ends when the connection is lost. *)
QuicTask(c) ==
    /\ \/ (HelloRefused(c) \/ HelloReply(c) \/ ConnLost(c)) /\ UNCHANGED sessions
       \/ InsertSession(c)
       \/ CloseSession(c) /\ ~alive[c]
    /\ UNCHANGED <<now, tcpVars, loopVars>>

TcpTask(c) == (T!ConnTask(c) \/ T!TcpConnLost(c)) /\ UNCHANGED loopVars

(* Calls that are not dropped. *)
TcpCall(k) == (T!CallStart(k) \/ T!ClientTask(k)) /\ UNCHANGED loopVars

(* A pass of either listener's collector over the one table. *)
Collectors == T!GcLoop /\ UNCHANGED loopVars

ClockTick == T!ClockTick /\ UNCHANGED loopVars

(* Every connection is in the queue of its listener, which may be long in    *)
(* coming to it.                                                             *)
Init ==
    /\ T!Init
    /\ phase = [c \in Conns |-> "waiting"]
    /\ up = [l \in Listeners |-> TRUE]

Next ==
    \/ \E c \in Conns : HandshakeDone(c)
    \/ \E l \in Listeners, c \in Conns : Take(l, c) \/ HandshakeFails(l, c)
    \/ EndpointClosed
    \/ \E c \in QuicConns : QuicTask(c)
    \/ \E c \in TcpConns : TcpTask(c)
    \/ \E k \in Calls : TcpCall(k)
    \/ Collectors \/ ClockTick

(* A loop that is idle takes a connection that waits, a peer that speaks     *)
(* ends its handshake in one way or the other, and quinn gives up on one     *)
(* that does not.  Nothing ends the TLS handshake of a silent TCP peer.      *)
Fairness ==
    /\ \A l \in Listeners : WF_vars(\E c \in Conns : Take(l, c))
    /\ \A c \in QuicConns :
          WF_vars(HandshakeDone(c) \/ HandshakeFails("quic", c))
    /\ \A c \in TcpConns \ Silent :
          WF_vars(HandshakeDone(c) \/ HandshakeFails("tcp", c))

Spec == Init /\ [][Next]_vars /\ Fairness

-----------------------------------------------------------------------------
(* Properties. *)

(* Two listeners share next_id and the table, yet no task of either meets    *)
(* the session of another: what a task finds under its id is the session it  *)
(* inserted, with its key and its age, until that has outlived max_lifetime; *)
(* and the table holds nothing else, but for what a panic over TCP left      *)
(* (next_id.fetch_add in listen_on and listen_tcp, sessions.insert, delete   *)
(* and gc of all of their tasks).                                            *)
OwnSession ==
    /\ \A c \in Conns : cpc[c] = "serving" =>
          \/ Live(sid[c]) /\ sessions[sid[c]] = [api_key_id |-> api_key_id[c], key |-> skey[c],
                                                 created_at |-> born[c], last_used |-> born[c]]
          \/ ~Live(sid[c]) /\ Outlived(c)
    /\ \A i \in DOMAIN sessions : \E c \in Conns :
          sid[c] = i /\ (cpc[c] = "serving" \/ tpc[c] = "panicked")

(* A peer that connects is taken out of the queue, whatever the handshakes   *)
(* and tasks of others do.  A silent TCP peer that holds the loop is the     *)
(* exception, since tcp_accept awaits its TLS handshake without a time-out;  *)
(* QUIC peers do not depend on it (the loops of listen_on and listen_tcp).   *)
Accepted ==
    \A c \in Conns : (phase[c] = "waiting") ~>
        \/ phase[c] # "waiting"
        \/ c \in QuicConns /\ ~up["quic"]
        \/ c \in TcpConns /\ \E d \in TcpConns \cap Silent : phase[d] = "handshake"

=============================================================================
