-------------------------- MODULE HushServerProofs --------------------------
(***************************************************************************)
(* Two listeners over one table, for every value of the constants: any     *)
(* number of QUIC and TCP connections, any of them silent.                 *)
(***************************************************************************)
EXTENDS HushServer, HandshakeProofs

USE DEF hsVars, tcpVars, loopVars, vars, T!hsVars, T!srvVars, T!callVars

-----------------------------------------------------------------------------
(* The inductive invariant. *)

(* Only a task that panicked leaves its session behind. *)
Forgotten(c) == cpc[c] = "closed" /\ tpc[c] # "panicked" => ~Live(sid[c])

IndInv ==
    /\ HandshakeTypeOK /\ HandshakeInv /\ TableInv
    /\ tpc \in [Conns -> {"check", "read", "closing", "panicked"}]
    /\ \A c \in Conns : Forgotten(c)

-----------------------------------------------------------------------------
(* TcpServer's copy of the handshake is the one QUIC takes.                  *)

LEMMA SameHandshake ==
    ASSUME NEW c
    PROVE  /\ T!Accept(c) <=> Accept(c)
           /\ T!HelloRefused(c) <=> HelloRefused(c)
           /\ T!HelloReply(c) <=> HelloReply(c)
           /\ T!InsertSession(c) <=> InsertSession(c)
           /\ T!ConnLost(c) <=> ConnLost(c)
           /\ T!CloseSession(c) <=> CloseSession(c)
  <1>1. T!Accept(c) <=> Accept(c)
    BY DEF Accept, T!Accept
  <1>2. T!HelloRefused(c) <=> HelloRefused(c)
    BY DEF HelloRefused, T!HelloRefused, KeyLen, T!KeyLen, MaxKeyLen, T!MaxKeyLen,
           LenModulus, T!LenModulus, SeenIds, T!SeenIds, Truncated, T!Truncated,
           KnownId, T!KnownId
  <1>3. T!HelloReply(c) <=> HelloReply(c)
    BY DEF HelloReply, T!HelloReply, KeyLen, T!KeyLen, MaxKeyLen, T!MaxKeyLen,
           LenModulus, T!LenModulus, SeenIds, T!SeenIds, Truncated, T!Truncated,
           KnownId, T!KnownId, SessionKey, T!SessionKey, SeenEph, T!SeenEph,
           ServerSecret, T!ServerSecret
  <1>4. T!InsertSession(c) <=> InsertSession(c)
    BY DEF InsertSession, T!InsertSession, insert, T!insert, NewSession, T!NewSession
  <1>5. T!ConnLost(c) <=> ConnLost(c)
    BY DEF ConnLost, T!ConnLost
  <1>6. T!CloseSession(c) <=> CloseSession(c)
    BY DEF CloseSession, T!CloseSession, delete, T!delete
  <1> QED
    BY <1>1, <1>2, <1>3, <1>4, <1>5, <1>6

(* And so is its table. *)
LEMMA SameStore == (T!gc <=> gc) /\ (T!Tick <=> Tick) /\ (T!StoreInit <=> StoreInit)
                   /\ (T!HandshakeInit <=> HandshakeInit)
  BY DEF gc, T!gc, Elapsed, T!Elapsed, MaxLifetime, T!MaxLifetime, fill, T!fill,
         Tick, T!Tick, StoreInit, T!StoreInit, HandshakeInit, T!HandshakeInit

-----------------------------------------------------------------------------
(* Every step is about one connection, or about no session. *)

(* What a connection task, or the loop that spawns it, does to the shared    *)
(* state and to where a TCP task is in its own loop.                         *)
Moves(c) ==
    /\ \/ /\ Accept(c) \/ HelloRefused(c) \/ HelloReply(c) \/ ConnLost(c)
          /\ UNCHANGED <<sessions, tpc>>
       \/ InsertSession(c) /\ tpc' \in {tpc, [tpc EXCEPT ![c] = "check"]}
       \/ CloseSession(c) /\ UNCHANGED tpc
       \/ Dies(c) /\ tpc' = [tpc EXCEPT ![c] = "panicked"]
       \/ /\ cpc[c] = "serving"
          /\ \E to \in {"check", "read", "closing"} : tpc' = [tpc EXCEPT ![c] = to]
          /\ UNCHANGED <<sessions, hsVars>>
    /\ UNCHANGED now

(* The steps of no one task. *)
Apart ==
    /\ UNCHANGED tpc
    /\ \/ EndpointLost /\ UNCHANGED now
       \/ gc /\ UNCHANGED <<now, hsVars>>
       \/ Tick /\ UNCHANGED <<sessions, hsVars>>
       \/ UNCHANGED <<now, sessions, hsVars>>

(* A TCP connection task does nothing else. *)
LEMMA TcpMoves ==
    ASSUME NEW c \in TcpConns, TcpTask(c)
    PROVE  Moves(c)
  <1> USE DEF T!Goto
  <1>1. CASE T!TcpRefused(c) \/ T!TcpReply(c) \/ T!TcpConnLost(c)
    BY <1>1, SameHandshake DEF T!TcpRefused, T!TcpReply, T!TcpConnLost, Moves
  <1>2. CASE T!TcpInsert(c) \/ T!TcpClose(c)
    BY <1>2, SameHandshake DEF T!TcpInsert, T!TcpClose, Moves
  <1>3. CASE T!ExpireLoop(c) \/ T!PassLoop(c) \/ T!ReadFails(c)
    BY <1>3 DEF T!ExpireLoop, T!PassLoop, T!ReadFails, T!At, T!touch, Moves
  <1>4. ASSUME NEW k \in Calls, T!NotFound(c, k) \/ T!RejectStream(c, k) \/ T!RunSync(c, k)
        PROVE  Moves(c)
    BY <1>4 DEF T!NotFound, T!RejectStream, T!RunSync, T!Invoke, T!Request, T!At, Moves
  <1>5. ASSUME NEW k \in Calls, T!RunPanics(c, k) PROVE Moves(c)
    BY <1>5 DEF T!RunPanics, T!Invoke, T!Request, T!At, Dies, Moves
  <1> QED
    BY <1>1, <1>2, <1>3, <1>4, <1>5 DEF TcpTask, T!ConnTask

(* Nor does any other step of the server. *)
LEMMA NextMoves ==
    ASSUME [Next]_vars
    PROVE  (\E c \in Conns : Moves(c)) \/ Apart
  <1>1. ASSUME NEW c \in Conns, HandshakeDone(c) PROVE Moves(c)
    BY <1>1, SameHandshake DEF HandshakeDone, T!TcpAccept, Moves
  <1>2. ASSUME NEW l \in Listeners, NEW c \in Conns, Take(l, c) \/ HandshakeFails(l, c)
        PROVE  Apart
    BY <1>2 DEF Take, HandshakeFails, Apart
  <1>3. CASE EndpointClosed
    BY <1>3 DEF EndpointClosed, EndpointLost, Apart
  <1>4. ASSUME NEW c \in QuicConns, QuicTask(c) PROVE c \in Conns /\ Moves(c)
    BY <1>4, ServerAssumption DEF QuicTask, Moves
  <1>5. ASSUME NEW c \in TcpConns, TcpTask(c) PROVE c \in Conns /\ Moves(c)
    BY <1>5, ServerAssumption, TcpMoves
  <1>6. ASSUME NEW k \in Calls, TcpCall(k) PROVE Apart
    BY <1>6 DEF TcpCall, T!ClientTask, T!CallStart, T!CallWrite, T!CallRead, T!CallFails, Apart
  <1>7. CASE Collectors \/ ClockTick \/ UNCHANGED vars
    BY <1>7, SameStore DEF Collectors, ClockTick, T!GcLoop, T!ClockTick, Apart
  <1> QED
    BY <1>1, <1>2, <1>3, <1>4, <1>5, <1>6, <1>7 DEF Next

(* So every step is one that HandshakeProofs speaks of. *)
LEMMA NextShared ==
    ASSUME [Next]_vars
    PROVE  SharedStep
  <1>1. ASSUME NEW c \in Conns, Moves(c) PROVE SharedStep
    BY <1>1 DEF Moves, TaskStep, SharedStep
  <1> QED
    BY <1>1, NextMoves DEF Apart, SharedStep

-----------------------------------------------------------------------------
(* A task that returns has deleted its session, and nothing puts it back. *)
LEMMA ForgottenNext ==
    ASSUME IndInv, [Next]_vars, NEW d \in Conns
    PROVE  Forgotten(d)'
  <1>1. /\ HandshakeTypeOK /\ HandshakeInv /\ TableInv /\ Forgotten(d)
        /\ tpc \in [Conns -> {"check", "read", "closing", "panicked"}]
    BY DEF IndInv
  <1>2. HandshakeOver(d) =>
          sid'[d] = sid[d] /\ (~Live(sid[d]) => sid[d] \notin DOMAIN sessions')
    BY <1>1, Settled, NextShared
  <1>3. ASSUME cpc'[d] = cpc[d], tpc'[d] = tpc[d] PROVE Forgotten(d)'
    BY <1>1, <1>2, <1>3 DEF Forgotten, HandshakeOver, Live
  <1>4. ASSUME NEW c \in Conns, Moves(c) PROVE Forgotten(d)'
    <2> USE DEF HandshakeTypeOK
    <2>1. CASE c # d
      <3>1. cpc'[d] = cpc[d] /\ tpc'[d] = tpc[d]
        BY <1>1, <1>4, <2>1 DEF Moves, Accept, HelloRefused, HelloReply, ConnLost, InsertSession,
                                CloseSession, Dies
      <3> QED
        BY <1>3, <3>1
    <2>2. CASE HelloRefused(d) /\ UNCHANGED <<sessions, tpc>>
      <3>1. ~Live(sid[d]) /\ UNCHANGED <<sessions, sid>>
        BY <1>1, <2>2, NotYetLive DEF HelloRefused, HandshakeOver
      <3> QED
        BY <3>1 DEF Forgotten, Live
    <2>3. CASE CloseSession(d)
      <3>1. sid' = sid /\ sid[d] \notin DOMAIN sessions'
        BY ONLY <2>3 DEF CloseSession, delete
      <3> QED
        BY <3>1 DEF Forgotten, Live
    <2>4. CASE Dies(d) /\ tpc' = [tpc EXCEPT ![d] = "panicked"]
      BY <1>1, <2>4 DEF Forgotten
    <2>5. CASE /\ Accept(d) \/ HelloReply(d) \/ InsertSession(d)
      BY <1>1, <2>5 DEF Accept, HelloReply, InsertSession, Forgotten
    <2>6. CASE ConnLost(d) /\ UNCHANGED tpc
      BY <1>3, <2>6 DEF ConnLost
    <2>7. CASE cpc[d] = "serving" /\ UNCHANGED hsVars
      BY <2>7 DEF Forgotten
    <2> QED
      BY <1>4, <2>1, <2>2, <2>3, <2>4, <2>5, <2>6, <2>7 DEF Moves
  <1>5. CASE Apart
    BY <1>3, <1>5 DEF Apart, EndpointLost
  <1> QED
    BY <1>4, <1>5, NextMoves

(* The invariant is inductive. *)
THEOREM ServerInductive == Spec => []IndInv
  <1>1. ASSUME Init PROVE IndInv
    <2>1. HandshakeTypeOK /\ HandshakeInv /\ TableInv
      BY <1>1, SameStore, SharedInit DEF Init, T!Init
    <2>2. /\ tpc \in [Conns -> {"check", "read", "closing", "panicked"}]
          /\ \A c \in Conns : cpc[c] = "none"
      BY <1>1, SameStore DEF Init, T!Init, HandshakeInit
    <2> QED
      BY <2>1, <2>2 DEF IndInv, Forgotten
  <1>2. ASSUME IndInv, [Next]_vars PROVE IndInv'
    <2>1. HandshakeTypeOK' /\ HandshakeInv' /\ TableInv'
      BY <1>2, SharedType, SharedHandshake, SharedTable, NextShared DEF IndInv
    <2>2. tpc' \in [Conns -> {"check", "read", "closing", "panicked"}]
      BY <1>2, NextMoves DEF IndInv, Moves, Apart
    <2>3. \A c \in Conns : Forgotten(c)'
      BY <1>2, ForgottenNext
    <2> QED
      BY <2>1, <2>2, <2>3 DEF IndInv
  <1> QED
    BY <1>1, <1>2, PTL DEF Spec

(* However the two listeners and their tasks interleave over one table and   *)
(* one counter, a task finds its own session or none, none only once it has  *)
(* outlived max_lifetime, and what no task serves a panic over TCP left      *)
(* (next_id.fetch_add, sessions.insert, delete and gc in listen_on and       *)
(* listen_tcp).                                                              *)
THEOREM OwnSessionAlways == Spec => []OwnSession
  <1>1. ASSUME IndInv, NEW c \in Conns, cpc[c] = "serving"
        PROVE  \/ Live(sid[c]) /\ sessions[sid[c]] = OwnRecord(c)
               \/ ~Live(sid[c]) /\ Outlived(c)
    BY <1>1 DEF IndInv, TableInv, HandshakeOver
  <1>2. ASSUME IndInv, NEW i \in DOMAIN sessions
        PROVE  \E c \in Conns : sid[c] = i /\ (cpc[c] = "serving" \/ tpc[c] = "panicked")
    BY <1>2 DEF IndInv, TableInv, HandshakeOver, Forgotten, Live
  <1>3. IndInv => OwnSession
    BY <1>1, <1>2 DEF OwnSession, OwnRecord
  <1> QED
    BY <1>3, ServerInductive, PTL

=============================================================================
