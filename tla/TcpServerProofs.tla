--------------------------- MODULE TcpServerProofs ---------------------------
(***************************************************************************)
(* Proofs about TcpServer for every value of its constants, and the        *)
(* inductive invariant they rest on.                                       *)
(***************************************************************************)
EXTENDS TcpServer, HandshakeProofs, FiniteSetTheorems

USE DEF hsVars, srvVars, callVars, vars

-----------------------------------------------------------------------------
(* The inductive invariant. *)

(* TypeOK without the lengths of the queues, which Bounded gives. *)
Types ==
    /\ HandshakeTypeOK
    /\ op \in Workloads
    /\ tpc \in [Conns -> {"check", "read", "closing", "panicked"}]
    /\ inbox \in [Conns -> Seq(Calls \cup {Torn, Junk})]
    /\ outbox \in [Conns -> Seq(Responses)]
    /\ kpc \in [Calls -> {"idle", "waiting", "sent", "done"}]
    /\ result \in [Calls -> [status : Statuses \cup {"none", "error", "dropped"},
                             of : Calls \cup {NoCall}]]
    /\ ranAt \in [Calls -> Times \cup {Never}]

(* A task is in its loop only while it serves, and it leaves its session     *)
(* behind only if it panicked.                                               *)
LoopOK(c) ==
    /\ cpc[c] \in {"none", "accepted", "replied"} => tpc[c] = "check"
    /\ tpc[c] = "panicked" => cpc[c] = "closed"
    /\ cpc[c] = "closed" /\ tpc[c] # "panicked" => ~Live(sid[c])

LoopInv == \A c \in Conns : LoopOK(c)

(* The calls: one holds the mutex of its stream, and a handler runs for one  *)
(* only under the client's key.                                              *)
CallOK(k) ==
    LET c == ConnOf[k] IN
    /\ kpc[k] # "idle" => skey[c] # NoKey
    /\ \A q \in Calls : ConnOf[q] = c /\ kpc[k] = "sent" /\ kpc[q] = "sent" => q = k
    /\ result[k].status # "none" => kpc[k] = "done"
    /\ result[k].status = "dropped" => result[k].of = NoCall /\ "abandon" \in Faults
    /\ Ran(k) => /\ HandshakeOver(c) /\ skey[c] = ClientKey(c)
                 /\ ranAt[k] <= now /\ kpc[k] \in {"sent", "done"}

CallInv == \A k \in Calls : CallOK(k)

(* What is on the wire of a connection is of its own calls; nothing is there *)
(* before the connection is accepted.                                        *)
WireOK(c) ==
    /\ \A i \in 1 .. Len(inbox[c]) : inbox[c][i] \in Calls =>
          ConnOf[inbox[c][i]] = c /\ kpc[inbox[c][i]] \in {"sent", "done"}
    /\ \A i \in 1 .. Len(outbox[c]) : outbox[c][i].of \in Calls =>
          ConnOf[outbox[c][i].of] = c
    /\ cpc[c] = "none" => inbox[c] = <<>> /\ outbox[c] = <<>>

WireInv == \A c \in Conns : WireOK(c)

(* The calls that have written, in whole or in part. *)
Written == {k \in Calls : kpc[k] \in {"sent", "done"}}

(* A task that expired its session has written once unasked. *)
Extra(c) == IF tpc[c] = "closing" THEN 1 ELSE 0

(* The bytes of a wrapped key id stay at the head of the stream, so that no  *)
(* request is ever read; otherwise each written call stands for one frame.   *)
Bounded(c) ==
    IF Truncated(cred[c]) /\ cpc[c] # "none"
    THEN /\ inbox[c] # <<>> /\ Head(inbox[c]) = Junk
         /\ Len(inbox[c]) <= Cardinality(Written) + 1
         /\ Len(outbox[c]) <= Extra(c)
    ELSE Len(inbox[c]) + Len(outbox[c]) <= Cardinality(Written) + Extra(c)

BoundInv == \A c \in Conns : Bounded(c)

(* A live session serves at most one request past max_lifetime, and none     *)
(* before the check that precedes it.                                        *)
LateOK(c) ==
    cpc[c] = "serving" /\ Live(sid[c]) =>
        /\ tpc[c] = "read" => Late(c) = {}
        /\ \A k, q \in Late(c) : k = q

LateInv == \A c \in Conns : LateOK(c)

(* No call of the connection was dropped. *)
Clean(c) == \A k \in Calls : ConnOf[k] = c => result[k].status # "dropped"

(* The task may still read requests. *)
Reading(c) == tpc[c] \notin {"closing", "panicked"}

FrameOK(c, i) ==
    LET f == outbox[c][i] IN
    /\ f.status # "torn"
    /\ f.of \in Calls => i = 1 /\ kpc[f.of] = "sent"
    /\ f.of = NoCall => i = Len(outbox[c]) /\ f.status = "SessionExpired" /\ ~Reading(c)
    /\ f.of \in Calls /\ f.status \in {"Handled", "InternalError"} => Ran(f.of)
    /\ f.of \in Calls /\ f.status \notin {"Handled", "InternalError"} => ~Ran(f.of)

PendingOK(c, k) ==
    /\ k \in Calls
    /\ ~Ran(k)
    /\ alive[c] => kpc[k] = "sent"
    /\ result[k].status \in {"none", "error"}

(* Then the stream is in step: it carries one request or its answer, an      *)
(* answer is that of the call that waits for it, and the last frame may be   *)
(* an unasked SessionExpired.                                                *)
Tidy(c) ==
    /\ \A i \in 1 .. Len(outbox[c]) : FrameOK(c, i)
    /\ Reading(c) /\ ~Truncated(cred[c]) =>
          /\ Len(inbox[c]) + Len(outbox[c]) <= 1
          /\ \A i \in 1 .. Len(inbox[c]) : PendingOK(c, inbox[c][i])
    /\ \A k \in Calls : ConnOf[k] = c =>
          /\ result[k].of \in {k, NoCall}
          /\ "oversize" \notin Faults /\ kpc[k] = "sent" /\ Ran(k) =>
                IF outbox[c] = <<>> THEN ~alive[c] ELSE outbox[c][1].of = k

TidyInv == \A c \in Conns : Clean(c) => Tidy(c)

IndInv ==
    /\ Types /\ HandshakeInv /\ TableInv
    /\ LoopInv /\ CallInv /\ WireInv /\ BoundInv /\ LateInv /\ TidyInv

-----------------------------------------------------------------------------
(* Queues. *)

(* What an Append leaves. *)
LEMMA Appended ==
    ASSUME NEW S, NEW s \in Seq(S), NEW e \in S
    PROVE  /\ Append(s, e) \in Seq(S)
           /\ Append(s, e) # <<>>
           /\ Len(Append(s, e)) = Len(s) + 1
           /\ Append(s, e)[Len(s) + 1] = e
           /\ \A i \in 1 .. Len(s) : Append(s, e)[i] = s[i]
  OBVIOUS

(* What taking the head leaves. *)
LEMMA Taken ==
    ASSUME NEW S, NEW s \in Seq(S), s # <<>>
    PROVE  /\ Tail(s) \in Seq(S)
           /\ Head(s) = s[1] /\ Head(s) \in S
           /\ Len(s) \in Nat \ {0}
           /\ Len(Tail(s)) = Len(s) - 1
           /\ \A i \in 1 .. Len(Tail(s)) : Tail(s)[i] = s[i + 1] /\ i + 1 \in 1 .. Len(s)
  OBVIOUS

(* What a queue is without frames. *)
LEMMA Emptied ==
    ASSUME NEW S, NEW s \in Seq(S)
    PROVE  /\ Len(s) \in Nat
           /\ s = <<>> <=> Len(s) = 0
           /\ \A i \in 1 .. Len(s) : s[i] \in S
  OBVIOUS

-----------------------------------------------------------------------------
(* Every step is about one connection, the collector or the clock. *)

ServeStep(c, k) == NotFound(c, k) \/ RejectStream(c, k) \/ RunSync(c, k) \/ RunPanics(c, k)

CallStep(k) == CallStart(k) \/ ClientTask(k) \/ AbandonWrite(k) \/ AbandonRead(k)

(* What the steps are to the state that HandshakeProofs speaks of. *)
LEMMA NextShared ==
    ASSUME [Next]_vars
    PROVE  SharedStep
  <1>1. ASSUME NEW c \in Conns, TcpAccept(c) \/ TcpConnLost(c) PROVE SharedStep
    BY <1>1 DEF TcpAccept, TcpConnLost, SharedStep, TaskStep
  <1>2. ASSUME NEW c \in Conns, ConnTask(c) PROVE SharedStep
    <2>1. CASE TcpRefused(c) \/ TcpReply(c) \/ TcpInsert(c) \/ TcpClose(c)
      BY <2>1 DEF TcpRefused, TcpReply, TcpInsert, TcpClose, SharedStep, TaskStep
    <2>2. CASE ExpireLoop(c) \/ PassLoop(c) \/ ReadFails(c)
      BY <2>2 DEF ExpireLoop, PassLoop, ReadFails, touch, SharedStep
    <2>3. ASSUME NEW k \in Calls, ServeStep(c, k) PROVE SharedStep
      <3>1. CASE RunPanics(c, k)
        BY <3>1 DEF RunPanics, Invoke, Request, At, Dies, SharedStep, TaskStep
      <3>2. CASE ~RunPanics(c, k)
        BY <2>3, <3>2 DEF ServeStep, NotFound, RejectStream, RunSync, SharedStep
      <3> QED
        BY <3>1, <3>2
    <2> QED
      BY <1>2, <2>1, <2>2, <2>3 DEF ConnTask, ServeStep
  <1>3. ASSUME NEW k \in Calls, CallStep(k) PROVE SharedStep
    BY <1>3 DEF CallStep, ClientTask, CallStart, CallWrite, CallRead, CallFails,
                AbandonWrite, AbandonRead, SharedStep
  <1>4. CASE GcLoop \/ ClockTick \/ UNCHANGED vars
    BY <1>4 DEF GcLoop, ClockTick, SharedStep
  <1> QED
    BY <1>1, <1>2, <1>3, <1>4 DEF Next, CallStep

-----------------------------------------------------------------------------
(* Type correctness. *)

(* A response frame is of its type, and so is the queue it is written to. *)
LEMMA RespondType ==
    ASSUME Types, NEW c \in Conns, NEW status \in Statuses, NEW k \in Calls \cup {NoCall},
           Respond(c, status, k)
    PROVE  /\ outbox' \in [Conns -> Seq(Responses)]
           /\ \A d \in Conns \ {c} : outbox'[d] = outbox[d]
           /\ outbox'[c] = IF alive[c] THEN Append(outbox[c], [status |-> status, of |-> k])
                           ELSE outbox[c]
  <1>1. [status |-> status, of |-> k] \in Responses
    BY DEF Responses
  <1>2. Append(outbox[c], [status |-> status, of |-> k]) \in Seq(Responses)
    BY <1>1, Appended DEF Types
  <1> QED
    BY <1>2 DEF Respond, Types

(* The initial state is well typed. *)
LEMMA TypesInit == Init => Types
  BY SharedInit DEF Init, Types, None, Never, Statuses

(* What the four ways to serve a request have in common, and where they      *)
(* differ: the answer and whether the handler ran.                           *)
LEMMA ServeShape ==
    ASSUME NEW c \in Conns, NEW k \in Calls, ServeStep(c, k)
    PROVE  /\ At(c, "read") /\ inbox[c] # <<>> /\ Head(inbox[c]) = k
           /\ skey[c] = ClientKey(c) /\ skey[c] # NoKey
           /\ inbox' = [inbox EXCEPT ![c] = Tail(@)]
           /\ UNCHANGED <<now, sessions, next_id, cred, sid, api_key_id, skey, born, op,
                          kpc, result>>
           /\ \/ /\ tpc' = [tpc EXCEPT ![c] = "check"] /\ UNCHANGED <<cpc, alive>>
                 /\ \/ /\ ranAt' = ranAt
                       /\ \E st \in {"NotFound", "BadRequest"} : Respond(c, st, k)
                    \/ /\ ranAt' = [ranAt EXCEPT ![k] = now]
                       /\ \/ \E st \in {"Handled", "InternalError"} : Respond(c, st, k)
                          \/ "oversize" \in Faults /\ UNCHANGED outbox
              \/ /\ tpc' = [tpc EXCEPT ![c] = "panicked"]
                 /\ cpc' = [cpc EXCEPT ![c] = "closed"]
                 /\ alive' = [alive EXCEPT ![c] = FALSE]
                 /\ ranAt' = [ranAt EXCEPT ![k] = now]
                 /\ UNCHANGED outbox
  <1>1. CASE NotFound(c, k)
    BY <1>1 DEF NotFound, Request, decrypts, Goto
  <1>2. CASE RejectStream(c, k)
    BY <1>2 DEF RejectStream, Request, decrypts, Goto
  <1>3. CASE RunSync(c, k)
    BY <1>3 DEF RunSync, Invoke, Request, decrypts, Goto
  <1>4. CASE RunPanics(c, k)
    BY <1>4 DEF RunPanics, Invoke, Request, decrypts, Goto
  <1> QED
    BY <1>1, <1>2, <1>3, <1>4 DEF ServeStep

(* The steps of a connection task keep the types. *)
LEMMA TypesConn ==
    ASSUME Types, HandshakeTypeOK', NEW c \in Conns,
           TcpAccept(c) \/ ConnTask(c) \/ TcpConnLost(c)
    PROVE  Types'
  <1> USE DEF Types, Goto
  <1>1. CASE TcpAccept(c)
    <2>1. <<Junk>> \in Seq(Calls \cup {Torn, Junk}) /\ <<>> \in Seq(Calls \cup {Torn, Junk})
      OBVIOUS
    <2>2. inbox' \in [Conns -> Seq(Calls \cup {Torn, Junk})]
      BY <1>1, <2>1 DEF TcpAccept
    <2> QED
      BY <1>1, <2>2 DEF TcpAccept
  <1>2. CASE TcpRefused(c) \/ TcpReply(c) \/ TcpConnLost(c) \/ TcpInsert(c) \/ TcpClose(c)
    BY <1>2 DEF TcpRefused, TcpReply, TcpConnLost, TcpInsert, TcpClose
  <1>3. CASE ExpireLoop(c)
    <2>1. outbox' \in [Conns -> Seq(Responses)]
      BY <1>3, RespondType DEF ExpireLoop, Statuses
    <2> QED
      BY <1>3, <2>1 DEF ExpireLoop
  <1>4. CASE PassLoop(c) \/ ReadFails(c)
    BY <1>4 DEF PassLoop, ReadFails
  <1>5. ASSUME NEW k \in Calls, ServeStep(c, k) PROVE Types'
    <2>1. /\ inbox[c] # <<>> /\ inbox' = [inbox EXCEPT ![c] = Tail(@)]
          /\ UNCHANGED <<now, op, kpc, result>>
      BY ONLY <1>5, ServeShape
    <2>2. inbox' \in [Conns -> Seq(Calls \cup {Torn, Junk})]
      <3>1. Tail(inbox[c]) \in Seq(Calls \cup {Torn, Junk})
        BY <2>1, Taken
      <3> QED
        BY <2>1, <3>1
    <2>3. \/ UNCHANGED outbox
          \/ \E st \in Statuses : Respond(c, st, k)
      BY ONLY <1>5, ServeShape DEF Statuses
    <2>4. outbox' \in [Conns -> Seq(Responses)]
      <3>1. ASSUME NEW st \in Statuses, Respond(c, st, k)
            PROVE  outbox' \in [Conns -> Seq(Responses)]
        BY <3>1, RespondType
      <3> QED
        BY <2>3, <3>1
    <2>5. tpc' \in {[tpc EXCEPT ![c] = "check"], [tpc EXCEPT ![c] = "panicked"]}
      BY ONLY <1>5, ServeShape
    <2>6. ranAt' \in {ranAt, [ranAt EXCEPT ![k] = now]}
      BY ONLY <1>5, ServeShape
    <2>7. ranAt' \in [Calls -> Times \cup {Never}]
      BY <2>6 DEF HandshakeTypeOK
    <2> QED
      BY <2>1, <2>2, <2>4, <2>5, <2>7
  <1> QED
    BY <1>1, <1>2, <1>3, <1>4, <1>5 DEF ConnTask, ServeStep

(* The steps of the callers keep the types. *)
LEMMA TypesCall ==
    ASSUME Types, HandshakeTypeOK', NEW k \in Calls, CallStep(k)
    PROVE  Types'
  <1> DEFINE c == ConnOf[k]
             Requests == Calls \cup {Torn, Junk}
             Results == [status : Statuses \cup {"none", "error", "dropped"},
                         of : Calls \cup {NoCall}]
  <1>1. c \in Conns
    BY TcpAssumption
  <1>2. inbox[c] \in Seq(Requests) /\ outbox[c] \in Seq(Responses)
    BY <1>1 DEF Types
  <1>3. /\ Append(inbox[c], k) \in Seq(Requests)
        /\ Append(inbox[c], Torn) \in Seq(Requests)
    BY <1>2, Appended
  <1>4. /\ Error \in Results /\ [status |-> "dropped", of |-> NoCall] \in Results
        /\ \A f \in Responses : f.status # "torn" => f \in Results
    BY DEF Error, Responses
  <1> SUFFICES ASSUME result \in [Calls -> Results] PROVE
               /\ op' \in Workloads
               /\ tpc' \in [Conns -> {"check", "read", "closing", "panicked"}]
               /\ inbox' \in [Conns -> Seq(Requests)]
               /\ outbox' \in [Conns -> Seq(Responses)]
               /\ kpc' \in [Calls -> {"idle", "waiting", "sent", "done"}]
               /\ result' \in [Calls -> Results]
               /\ ranAt' \in [Calls -> Times \cup {Never}]
    BY DEF Types
  <1>a. /\ op \in Workloads
        /\ tpc \in [Conns -> {"check", "read", "closing", "panicked"}]
        /\ inbox \in [Conns -> Seq(Requests)]
        /\ outbox \in [Conns -> Seq(Responses)]
        /\ kpc \in [Calls -> {"idle", "waiting", "sent", "done"}]
        /\ ranAt \in [Calls -> Times \cup {Never}]
    BY DEF Types
  <1> USE <1>a
  <1> HIDE DEF Requests, Results
  <1>5. CASE CallStart(k)
    BY <1>4, <1>5 DEF CallStart, Error
  <1>6. CASE CallWrite(k)
    BY <1>3, <1>6 DEF CallWrite
  <1>7. CASE CallRead(k)
    <2>1. outbox[c] # <<>> /\ Head(outbox[c]) \in Responses
      BY <1>2, <1>7, Taken DEF CallRead
    <2>2. Tail(outbox[c]) \in Seq(Responses)
      BY <1>2, <2>1, Taken
    <2>3. Head(outbox[c]).status # "torn" => Decoded(c, Head(outbox[c])) \in Results
      BY <1>4, <2>1 DEF Decoded
    <2>4. /\ \E v \in Results : result' = [result EXCEPT ![k] = v]
          /\ outbox' \in {outbox, [outbox EXCEPT ![c] = Tail(@)]}
          /\ kpc' = [kpc EXCEPT ![k] = "done"]
          /\ UNCHANGED <<tpc, inbox, op, ranAt>>
      BY <1>4, <1>7, <2>3 DEF CallRead, Return
    <2>5. outbox' \in [Conns -> Seq(Responses)]
      BY <2>2, <2>4
    <2> QED
      BY <2>4, <2>5
  <1>8. CASE CallFails(k)
    <2>1. <<>> \in Seq(Responses)
      OBVIOUS
    <2>2. outbox' \in {outbox, [outbox EXCEPT ![c] = <<>>]}
      BY <1>8 DEF CallFails
    <2>3. outbox' \in [Conns -> Seq(Responses)]
      BY <2>1, <2>2
    <2> QED
      BY <1>4, <1>8, <2>3 DEF CallFails, Return
  <1>9. CASE AbandonWrite(k)
    BY <1>3, <1>4, <1>9 DEF AbandonWrite, Drop, Return
  <1>10. CASE AbandonRead(k)
    <2>1. /\ result' = [result EXCEPT ![k] = [status |-> "dropped", of |-> NoCall]]
          /\ kpc' = [kpc EXCEPT ![k] = "done"]
          /\ UNCHANGED <<op, tpc, inbox, ranAt>>
      BY <1>10 DEF AbandonRead, Drop, Return
    <2>2. outbox' \in [Conns -> Seq(Responses)]
      <3>1. CASE UNCHANGED outbox
        BY <3>1
      <3>2. CASE outbox[c] # <<>> /\ outbox' = [outbox EXCEPT ![c][1].status = "torn"]
        <4> DEFINE f == [outbox[c][1] EXCEPT !.status = "torn"]
                   s == [outbox[c] EXCEPT ![1] = f]
        <4>1. outbox[c][1] \in Responses /\ 1 \in DOMAIN outbox[c]
          BY <1>2, <3>2, Taken
        <4>2. f \in Responses
          BY <4>1 DEF Responses
        <4> HIDE DEF f
        <4>3. s \in Seq(Responses)
          BY <1>2, <4>1, <4>2
        <4> HIDE DEF s
        <4>4. outbox' = [outbox EXCEPT ![c] = s]
          BY <3>2 DEF s, f
        <4> QED
          BY <4>3, <4>4
      <3> QED
        BY <1>10, <3>1, <3>2 DEF AbandonRead
    <2> QED
      BY <1>4, <2>1, <2>2
  <1> QED
    BY <1>5, <1>6, <1>7, <1>8, <1>9, <1>10 DEF CallStep, ClientTask

(* Every step keeps the types. *)
LEMMA TypesNext ==
    ASSUME Types, HandshakeInv, [Next]_vars
    PROVE  Types'
  <1>1. HandshakeTypeOK'
    BY SharedType, NextShared DEF Types
  <1>2. CASE GcLoop \/ ClockTick \/ UNCHANGED vars
    BY <1>1, <1>2 DEF GcLoop, ClockTick, Types
  <1> QED
    BY <1>1, <1>2, TypesConn, TypesCall DEF Next, CallStep

-----------------------------------------------------------------------------
(* Frames. *)

TaskOf(c) == TcpAccept(c) \/ ConnTask(c) \/ TcpConnLost(c)

(* A connection task leaves the callers, and the other connections, alone. *)
LEMMA TaskFrame ==
    ASSUME Types, WireInv, NEW c \in Conns, TaskOf(c)
    PROVE  /\ UNCHANGED <<now, cred, op, kpc, result>>
           /\ \A d \in Conns \ {c} :
                 /\ cpc'[d] = cpc[d] /\ alive'[d] = alive[d] /\ tpc'[d] = tpc[d]
                 /\ inbox'[d] = inbox[d] /\ outbox'[d] = outbox[d]
           /\ \A k \in Calls : ConnOf[k] # c => ranAt'[k] = ranAt[k]
  <1> USE DEF Types, HandshakeTypeOK, Goto
  <1>1. CASE TcpAccept(c)
    BY <1>1 DEF TcpAccept, Accept
  <1>2. CASE TcpRefused(c) \/ TcpReply(c) \/ TcpConnLost(c)
    BY <1>2 DEF TcpRefused, TcpReply, TcpConnLost, HelloRefused, HelloReply, ConnLost
  <1>3. CASE TcpInsert(c) \/ TcpClose(c)
    BY <1>3 DEF TcpInsert, TcpClose, InsertSession, CloseSession
  <1>4. CASE PassLoop(c) \/ ReadFails(c)
    BY <1>4 DEF PassLoop, ReadFails
  <1>5. CASE ExpireLoop(c)
    BY <1>5 DEF ExpireLoop, Respond
  <1>6. ASSUME NEW k \in Calls, ServeStep(c, k)
        PROVE  /\ UNCHANGED <<now, cred, op, kpc, result>>
               /\ \A d \in Conns \ {c} :
                     /\ cpc'[d] = cpc[d] /\ alive'[d] = alive[d] /\ tpc'[d] = tpc[d]
                     /\ inbox'[d] = inbox[d] /\ outbox'[d] = outbox[d]
               /\ \A q \in Calls : ConnOf[q] # c => ranAt'[q] = ranAt[q]
    <2>1. ConnOf[k] = c
      <3>1. inbox[c] # <<>> /\ Head(inbox[c]) = k
        BY ONLY <1>6, ServeShape
      <3>2. 1 \in 1 .. Len(inbox[c]) /\ inbox[c][1] = k
        BY <3>1, Taken
      <3> QED
        BY <3>2 DEF WireInv, WireOK
    <2>2. /\ outbox' = outbox \/ \E e : outbox' = [outbox EXCEPT ![c] = e]
          /\ cpc' \in {cpc, [cpc EXCEPT ![c] = "closed"]}
          /\ alive' \in {alive, [alive EXCEPT ![c] = FALSE]}
          /\ tpc' \in {[tpc EXCEPT ![c] = "check"], [tpc EXCEPT ![c] = "panicked"]}
          /\ inbox' = [inbox EXCEPT ![c] = Tail(@)]
      BY ONLY <1>6, ServeShape DEF Respond
    <2>3. \A d \in Conns \ {c} :
            /\ cpc'[d] = cpc[d] /\ alive'[d] = alive[d] /\ tpc'[d] = tpc[d]
            /\ inbox'[d] = inbox[d] /\ outbox'[d] = outbox[d]
      BY <2>2
    <2>4. ranAt' \in {ranAt, [ranAt EXCEPT ![k] = now]}
      BY ONLY <1>6, ServeShape
    <2>5. \A q \in Calls : ConnOf[q] # c => ranAt'[q] = ranAt[q]
      BY <2>1, <2>4
    <2> QED
      BY <1>6, <2>3, <2>5, ServeShape
  <1> QED
    BY <1>1, <1>2, <1>3, <1>4, <1>5, <1>6 DEF TaskOf, ConnTask, ServeStep

(* A caller leaves the server, and the other calls and streams, alone. *)
LEMMA CallFrame ==
    ASSUME Types, NEW k \in Calls, CallStep(k)
    PROVE  /\ UNCHANGED <<now, sessions, hsVars, tpc, op, ranAt>>
           /\ \A q \in Calls \ {k} : kpc'[q] = kpc[q] /\ result'[q] = result[q]
           /\ \A d \in Conns : d # ConnOf[k] => inbox'[d] = inbox[d] /\ outbox'[d] = outbox[d]
  <1> USE DEF Types
  <1>1. CASE CallStart(k)
    BY <1>1 DEF CallStart
  <1>2. CASE CallWrite(k)
    BY <1>2 DEF CallWrite
  <1>3. CASE CallRead(k)
    BY <1>3 DEF CallRead, Return
  <1>4. CASE CallFails(k)
    BY <1>4 DEF CallFails, Return
  <1>5. CASE AbandonWrite(k)
    BY <1>5 DEF AbandonWrite, Drop, Return
  <1>6. CASE AbandonRead(k)
    BY <1>6 DEF AbandonRead, Drop, Return
  <1> QED
    BY <1>1, <1>2, <1>3, <1>4, <1>5, <1>6 DEF CallStep, ClientTask

(* The request that is served is at the head of its own connection's queue.  *)
LEMMA ServedOwn ==
    ASSUME Types, WireInv, NEW c \in Conns, NEW k \in Calls, ServeStep(c, k)
    PROVE  /\ ConnOf[k] = c /\ inbox[c] # <<>> /\ inbox[c][1] = k
           /\ kpc[k] \in {"sent", "done"}
           /\ inbox'[c] = Tail(inbox[c])
           /\ cpc[c] = "serving" /\ tpc[c] = "read"
           /\ skey[c] = ClientKey(c)
  <1>1. /\ inbox[c] # <<>> /\ Head(inbox[c]) = k /\ inbox' = [inbox EXCEPT ![c] = Tail(@)]
        /\ cpc[c] = "serving" /\ tpc[c] = "read" /\ skey[c] = ClientKey(c)
    BY ONLY ServeShape, ServeStep(c, k), c \in Conns, k \in Calls DEF At
  <1>2. 1 \in 1 .. Len(inbox[c]) /\ inbox[c][1] = k
    BY <1>1, Taken DEF Types
  <1>3. ConnOf[k] = c /\ kpc[k] \in {"sent", "done"}
    BY <1>2 DEF WireInv, WireOK
  <1> QED
    BY <1>1, <1>2, <1>3 DEF Types

(* Only serving a request makes a handler run. *)
LEMMA RunsServed ==
    ASSUME Types, WireInv, [Next]_vars, NEW k \in Calls, ranAt'[k] # ranAt[k]
    PROVE  ServeStep(ConnOf[k], k) /\ ranAt'[k] = now
  <1>1. ASSUME NEW d \in Conns, TaskOf(d) PROVE ServeStep(ConnOf[k], k) /\ ranAt'[k] = now
    <2>1. ASSUME NEW q \in Calls, ServeStep(d, q)
          PROVE  ServeStep(ConnOf[k], k) /\ ranAt'[k] = now
      <3>1. ranAt' \in {ranAt, [ranAt EXCEPT ![q] = now]}
        BY ONLY <2>1, ServeShape
      <3>2. k = q /\ ranAt'[k] = now
        BY <3>1 DEF Types
      <3> QED
        BY <2>1, <3>2, ServedOwn
    <2>2. CASE TcpAccept(d) \/ TcpConnLost(d) \/ TcpRefused(d) \/ TcpReply(d) \/ TcpInsert(d)
               \/ ExpireLoop(d) \/ PassLoop(d) \/ ReadFails(d) \/ TcpClose(d)
      BY <2>2 DEF TcpAccept, TcpConnLost, TcpRefused, TcpReply, TcpInsert, ExpireLoop,
                  PassLoop, ReadFails, TcpClose
    <2> QED
      BY <1>1, <2>1, <2>2 DEF TaskOf, ConnTask, ServeStep
  <1>2. ASSUME NEW q \in Calls, CallStep(q) PROVE ranAt' = ranAt
    BY <1>2, CallFrame
  <1> QED
    BY <1>1, <1>2 DEF Next, TaskOf, CallStep, GcLoop, ClockTick

(* A call that was written stays so. *)
LEMMA WrittenStays ==
    ASSUME Types, WireInv, [Next]_vars, NEW k \in Calls, kpc[k] \in {"sent", "done"}
    PROVE  kpc'[k] \in {"sent", "done"}
  <1>1. ASSUME NEW q \in Calls, CallStep(q) PROVE kpc'[k] \in {"sent", "done"}
    BY <1>1 DEF Types, CallStep, ClientTask, CallStart, CallWrite, CallRead, CallFails,
                AbandonWrite, AbandonRead, Drop, Return
  <1>2. ASSUME NEW d \in Conns, TaskOf(d) PROVE kpc' = kpc
    BY <1>2, TaskFrame
  <1> QED
    BY <1>1, <1>2 DEF Next, TaskOf, CallStep, GcLoop, ClockTick

-----------------------------------------------------------------------------
(* The loop of a connection task. *)

(* A task leaves its session in the table only if a handler's panic took it. *)
LEMMA LoopNext ==
    ASSUME Types, HandshakeInv, TableInv, LoopInv, WireInv, [Next]_vars
    PROVE  LoopInv'
  <1> SUFFICES ASSUME NEW d \in Conns PROVE LoopOK(d)'
    BY DEF LoopInv
  <1>1. LoopOK(d)
    BY DEF LoopInv
  <1>2. /\ HandshakeOver(d) =>
             sid'[d] = sid[d] /\ (~Live(sid[d]) => sid[d] \notin DOMAIN sessions')
        /\ HandshakeTypeOK
    BY Settled, NextShared DEF Types
  <1>3. ASSUME cpc'[d] = cpc[d], tpc'[d] = tpc[d] PROVE LoopOK(d)'
    BY <1>1, <1>2, <1>3 DEF LoopOK, HandshakeOver, Live
  <1>4. CASE TaskOf(d)
    <2> USE DEF HandshakeTypeOK, Types
    <2>1. CASE TcpAccept(d) \/ TcpReply(d) \/ TcpConnLost(d) \/ TcpInsert(d)
      BY <1>1, <1>3, <2>1 DEF TcpAccept, TcpReply, TcpConnLost, TcpInsert, Accept, HelloReply,
                              ConnLost, InsertSession, LoopOK, Goto
    <2>2. CASE TcpRefused(d)
      <3>1. ~Live(sid[d]) /\ UNCHANGED <<sessions, sid>>
        BY <2>2, NotYetLive DEF TcpRefused, HelloRefused, HandshakeOver
      <3> QED
        BY <1>1, <2>2, <3>1 DEF TcpRefused, HelloRefused, LoopOK, Live
    <2>3. CASE ExpireLoop(d) \/ PassLoop(d) \/ ReadFails(d)
      BY <2>3 DEF ExpireLoop, PassLoop, ReadFails, At, Goto, LoopOK
    <2>4. CASE TcpClose(d)
      <3>1. sid[d] \notin DOMAIN sessions'
        BY ONLY <2>4 DEF TcpClose, CloseSession, delete
      <3> QED
        BY <2>4, <3>1 DEF TcpClose, CloseSession, At, LoopOK, Live
    <2>5. ASSUME NEW k \in Calls, ServeStep(d, k) PROVE LoopOK(d)'
      <3>1. \/ cpc'[d] = "serving" /\ tpc'[d] = "check"
            \/ cpc'[d] = "closed" /\ tpc'[d] = "panicked"
        <4>1. /\ cpc[d] = "serving"
              /\ \/ tpc' = [tpc EXCEPT ![d] = "check"] /\ cpc' = cpc
                 \/ tpc' = [tpc EXCEPT ![d] = "panicked"] /\ cpc' = [cpc EXCEPT ![d] = "closed"]
          BY ONLY <2>5, ServeShape DEF At
        <4> QED
          BY <4>1
      <3> QED
        BY <3>1 DEF LoopOK
    <2> QED
      BY <1>4, <2>1, <2>2, <2>3, <2>4, <2>5 DEF TaskOf, ConnTask, ServeStep
  <1>5. ASSUME NEW c \in Conns, c # d, TaskOf(c) PROVE LoopOK(d)'
    BY <1>3, <1>5, TaskFrame
  <1>6. ASSUME NEW k \in Calls, CallStep(k) PROVE LoopOK(d)'
    BY <1>3, <1>6, CallFrame
  <1>7. CASE GcLoop \/ ClockTick \/ UNCHANGED vars
    BY <1>3, <1>7 DEF GcLoop, ClockTick
  <1> QED
    BY <1>4, <1>5, <1>6, <1>7 DEF Next, TaskOf, CallStep

-----------------------------------------------------------------------------
(* The calls. *)

(* A handler runs for the call whose request it is, under the client's key.  *)
LEMMA RanNext ==
    ASSUME Types, HandshakeInv, CallInv, WireInv, [Next]_vars,
           NEW k \in Calls, ranAt'[k] # Never
    PROVE  LET c == ConnOf[k] IN
           /\ HandshakeOver(c)' /\ skey'[c] = ClientKey(c)'
           /\ ranAt'[k] <= now' /\ kpc'[k] \in {"sent", "done"}
  <1> DEFINE c == ConnOf[k]
  <1>1. c \in Conns /\ HandshakeTypeOK /\ now \in Int /\ now' \in {now, now + 1}
    BY TcpAssumption, CredConstant, NextShared DEF Types, HandshakeTypeOK, Times
  <1>2. ClientKey(c)' = ClientKey(c)
    BY CredConstant, NextShared DEF ClientKey
  <1>3. HandshakeOver(c) => HandshakeOver(c)' /\ skey'[c] = skey[c]
    BY <1>1, Settled, NextShared
  <1>4. CASE ranAt'[k] = ranAt[k]
    <2>1. /\ HandshakeOver(c) /\ skey[c] = ClientKey(c) /\ ranAt[k] <= now
          /\ kpc[k] \in {"sent", "done"}
      BY <1>4 DEF CallInv, CallOK, Ran
    <2>2. ranAt[k] \in Int
      BY <1>1 DEF Types, Times, Never
    <2> QED
      BY <1>1, <1>2, <1>3, <1>4, <2>1, <2>2, WrittenStays
  <1>5. CASE ranAt'[k] # ranAt[k]
    <2>1. ServeStep(c, k) /\ ranAt'[k] = now
      BY <1>5, RunsServed
    <2>2. cpc[c] = "serving" /\ skey[c] = ClientKey(c) /\ kpc[k] \in {"sent", "done"}
      BY <1>1, <2>1, ServedOwn
    <2> QED
      BY <1>1, <1>2, <1>3, <2>1, <2>2, WrittenStays DEF HandshakeOver
  <1> QED
    BY <1>4, <1>5

(* The mutex keeps the calls of a stream apart, and a call that has returned *)
(* stays so.                                                                 *)
LEMMA CallNext ==
    ASSUME Types, HandshakeInv, CallInv, WireInv, [Next]_vars
    PROVE  CallInv'
  <1> SUFFICES ASSUME NEW k \in Calls PROVE CallOK(k)'
    BY DEF CallInv
  <1> DEFINE c == ConnOf[k]
  <1>1. c \in Conns
    BY TcpAssumption
  <1>2. skey[c] # NoKey => skey'[c] # NoKey
    BY <1>1, Settled, NextShared DEF Types
  <1>3. Ran(k)' => /\ HandshakeOver(c)' /\ skey'[c] = ClientKey(c)'
                   /\ (ranAt[k] <= now)' /\ kpc'[k] \in {"sent", "done"}
    BY RanNext DEF Ran, Never
  <1>4. \A q \in Calls : CallOK(q)
    BY DEF CallInv
  <1>5. ASSUME UNCHANGED <<kpc, result>> PROVE CallOK(k)'
    BY <1>2, <1>3, <1>4, <1>5 DEF CallOK
  <1>6. ASSUME NEW p \in Calls, CallStep(p) PROVE CallOK(k)'
    <2> USE DEF Types
    <2>1. skey' = skey
      BY <1>6, CallFrame
    <2>2. ASSUME NEW v, kpc' = [kpc EXCEPT ![p] = "done"], result' = [result EXCEPT ![p] = v],
                 kpc[p] # "idle" \/ Dialed(ConnOf[p]),
                 v.status = "dropped" => v.of = NoCall /\ "abandon" \in Faults
          PROVE  CallOK(k)'
      BY <1>3, <1>4, <2>1, <2>2 DEF CallOK, Dialed
    <2>3. CASE CallWrite(p)
      BY <1>3, <1>4, <2>1, <2>3 DEF CallWrite, StreamFree, CallOK
    <2>4. CASE CallStart(p)
      <3>1. CASE kpc' = [kpc EXCEPT ![p] = "waiting"] /\ UNCHANGED result
        BY <1>3, <1>4, <2>1, <2>4, <3>1 DEF CallStart, Dialed, CallOK
      <3>2. CASE kpc' = [kpc EXCEPT ![p] = "done"] /\ result' = [result EXCEPT ![p] = Error]
        <4>1. Dialed(ConnOf[p]) /\ Error.status # "dropped"
          BY <2>4 DEF CallStart, Error
        <4> QED
          BY <2>2, <3>2, <4>1
      <3> QED
        BY <2>4, <3>1, <3>2 DEF CallStart, Error
    <2>5. CASE CallRead(p)
      <3> DEFINE h == Head(outbox[ConnOf[p]])
      <3>1. h \in Responses
        BY <2>5, TcpAssumption, Taken DEF CallRead
      <3>2. h.status # "dropped" /\ Error.status # "dropped"
        BY <3>1 DEF Responses, Statuses, Error
      <3>3. \E v : /\ kpc' = [kpc EXCEPT ![p] = "done"]
                   /\ result' = [result EXCEPT ![p] = v]
                   /\ v.status # "dropped"
        BY <2>5, <3>2 DEF CallRead, Return, Decoded
      <3> QED
        BY <2>2, <2>5, <3>3 DEF CallRead
    <2>6. CASE CallFails(p)
      <3>1. /\ kpc' = [kpc EXCEPT ![p] = "done"] /\ result' = [result EXCEPT ![p] = Error]
            /\ kpc[p] # "idle" /\ Error.status # "dropped"
        BY <2>6 DEF CallFails, Return, Error
      <3> QED
        BY <2>2, <3>1
    <2>7. CASE AbandonWrite(p) \/ AbandonRead(p)
      <3> DEFINE v == [status |-> "dropped", of |-> NoCall]
      <3>1. /\ kpc' = [kpc EXCEPT ![p] = "done"] /\ result' = [result EXCEPT ![p] = v]
            /\ kpc[p] # "idle" /\ v.of = NoCall /\ "abandon" \in Faults
        BY <2>7 DEF AbandonWrite, AbandonRead, Drop, Return
      <3> HIDE DEF v
      <3> QED
        BY <2>2, <3>1
    <2> QED
      BY <1>6, <2>3, <2>4, <2>5, <2>6, <2>7 DEF CallStep, ClientTask
  <1>7. ASSUME NEW d \in Conns, TaskOf(d) PROVE CallOK(k)'
    BY <1>5, <1>7, TaskFrame
  <1>8. CASE GcLoop \/ ClockTick \/ UNCHANGED vars
    BY <1>5, <1>8 DEF GcLoop, ClockTick
  <1> QED
    BY <1>6, <1>7, <1>8 DEF Next, TaskOf, CallStep

-----------------------------------------------------------------------------
(* The wire. *)

(* What a caller does to the two queues of its connection. *)
LEMMA CallQueues ==
    ASSUME Types, NEW k \in Calls, CallStep(k)
    PROVE  LET c == ConnOf[k] IN
           /\ \/ inbox'[c] = inbox[c]
              \/ alive[c] /\ kpc[k] = "waiting"
                 /\ \/ inbox'[c] = Append(inbox[c], k) /\ kpc'[k] = "sent"
                    \/ inbox'[c] = Append(inbox[c], Torn) /\ result'[k].status = "dropped"
           /\ \/ outbox'[c] = outbox[c]
              \/ outbox[c] # <<>> /\ outbox'[c] = Tail(outbox[c])
              \/ outbox'[c] = <<>>
              \/ /\ Len(outbox'[c]) = Len(outbox[c])
                 /\ \A i \in 1 .. Len(outbox[c]) : outbox'[c][i].of = outbox[c][i].of
                 /\ result'[k].status = "dropped"
  <1> DEFINE c == ConnOf[k]
  <1>1. c \in Conns /\ outbox[c] \in Seq(Responses)
    BY TcpAssumption DEF Types
  <1> USE <1>1 DEF Types
  <1>2. CASE CallStart(k)
    BY <1>2 DEF CallStart
  <1>3. CASE CallWrite(k)
    BY <1>3 DEF CallWrite
  <1>4. CASE CallRead(k)
    BY <1>4 DEF CallRead
  <1>5. CASE CallFails(k)
    BY <1>5 DEF CallFails
  <1>6. CASE AbandonWrite(k)
    BY <1>6 DEF AbandonWrite, Drop, Return
  <1>7. CASE AbandonRead(k)
    <2>1. CASE UNCHANGED outbox
      BY <1>7, <2>1 DEF AbandonRead
    <2>2. CASE outbox[c] # <<>> /\ outbox' = [outbox EXCEPT ![c][1].status = "torn"]
      <3> DEFINE f == [outbox[c][1] EXCEPT !.status = "torn"]
      <3>1. outbox[c][1] \in Responses
        BY <2>2, Taken
      <3>2. f.of = outbox[c][1].of
        BY <3>1 DEF Responses
      <3>3. outbox'[c] = [outbox[c] EXCEPT ![1] = f]
        BY <2>2
      <3> HIDE DEF f
      <3>4. /\ Len(outbox'[c]) = Len(outbox[c])
            /\ \A i \in 1 .. Len(outbox[c]) : outbox'[c][i].of = outbox[c][i].of
        BY <3>2, <3>3
      <3>5. inbox' = inbox /\ result'[k].status = "dropped"
        BY <1>7 DEF AbandonRead, Drop, Return
      <3> QED
        BY <3>4, <3>5
    <2> QED
      BY <1>7, <2>1, <2>2 DEF AbandonRead
  <1> QED
    BY <1>2, <1>3, <1>4, <1>5, <1>6, <1>7 DEF CallStep, ClientTask

(* Calls start once the client's dial has returned. *)
LEMMA CallDialed ==
    ASSUME Types, HandshakeInv, CallInv, NEW k \in Calls, CallStep(k)
    PROVE  skey[ConnOf[k]] # NoKey /\ cpc[ConnOf[k]] \notin {"none", "accepted"}
  <1>1. kpc[k] # "idle" \/ Dialed(ConnOf[k])
    BY DEF CallStep, ClientTask, CallStart, CallWrite, CallRead, CallFails, AbandonWrite,
           AbandonRead
  <1>2. skey[ConnOf[k]] # NoKey
    BY <1>1 DEF CallInv, CallOK, Dialed
  <1> QED
    BY <1>2, TcpAssumption DEF HandshakeInv

(* Only the calls of a connection are on its wire. *)
LEMMA WireNext ==
    ASSUME Types, HandshakeInv, CallInv, WireInv, [Next]_vars
    PROVE  WireInv'
  <1> SUFFICES ASSUME NEW d \in Conns PROVE WireOK(d)'
    BY DEF WireInv
  <1>1. /\ WireOK(d)
        /\ inbox[d] \in Seq(Calls \cup {Torn, Junk}) /\ outbox[d] \in Seq(Responses)
        /\ cpc[d] # "none" => cpc'[d] # "none"
    BY Settled, NextShared DEF WireInv, Types
  <1>2. \A k \in Calls : kpc[k] \in {"sent", "done"} => kpc'[k] \in {"sent", "done"}
    BY WrittenStays
  <1>3. ASSUME inbox'[d] = inbox[d], outbox'[d] = outbox[d] PROVE WireOK(d)'
    BY <1>1, <1>2, <1>3 DEF WireOK
  <1>4. ASSUME NEW k \in Calls, CallStep(k), ConnOf[k] = d PROVE WireOK(d)'
    <2>1. \A i \in 1 .. Len(inbox'[d]) : inbox'[d][i] \in Calls =>
              ConnOf[inbox'[d][i]] = d /\ kpc'[inbox'[d][i]] \in {"sent", "done"}
      <3>1. CASE inbox'[d] = inbox[d]
        BY <1>1, <1>2, <3>1 DEF WireOK
      <3>2. CASE inbox'[d] = Append(inbox[d], k) /\ kpc'[k] = "sent"
        BY <1>1, <1>2, <1>4, <3>2 DEF WireOK
      <3>3. CASE inbox'[d] = Append(inbox[d], Torn)
        BY <1>1, <1>2, <3>3, TcpAssumption DEF WireOK
      <3> QED
        BY <1>4, <3>1, <3>2, <3>3, CallQueues
    <2>2. \A i \in 1 .. Len(outbox'[d]) : outbox'[d][i].of \in Calls =>
              ConnOf[outbox'[d][i].of] = d
      <3>1. CASE outbox'[d] = outbox[d] \/ outbox'[d] = <<>>
        BY <1>1, <3>1 DEF WireOK
      <3>2. CASE outbox[d] # <<>> /\ outbox'[d] = Tail(outbox[d])
        BY <1>1, <3>2, Taken DEF WireOK
      <3>3. CASE /\ Len(outbox'[d]) = Len(outbox[d])
                 /\ \A i \in 1 .. Len(outbox[d]) : outbox'[d][i].of = outbox[d][i].of
        BY <1>1, <3>3 DEF WireOK
      <3> QED
        BY <1>4, <3>1, <3>2, <3>3, CallQueues
    <2>3. cpc[d] # "none"
      BY <1>4, CallDialed
    <2> QED
      BY <1>1, <2>1, <2>2, <2>3 DEF WireOK
  <1>5. CASE TcpAccept(d)
    <2>1. inbox'[d] \in {<<Junk>>, <<>>} /\ outbox'[d] = outbox[d]
      BY <1>5 DEF TcpAccept, Types
    <2>2. cpc'[d] = "accepted"
      BY <1>5 DEF TcpAccept, Accept, Types, HandshakeTypeOK
    <2> QED
      BY <1>1, <2>1, <2>2, TcpAssumption DEF WireOK
  <1>6. CASE ExpireLoop(d)
    <2>1. /\ inbox'[d] = inbox[d]
          /\ \/ outbox'[d] = outbox[d]
             \/ outbox'[d] = Append(outbox[d], [status |-> "SessionExpired", of |-> NoCall])
      BY <1>6 DEF ExpireLoop, Respond, Types
    <2>2. cpc[d] # "none"
      BY <1>6 DEF ExpireLoop, At
    <2>3. [status |-> "SessionExpired", of |-> NoCall] \in Responses
      BY DEF Responses, Statuses
    <2>4. \A i \in 1 .. Len(outbox'[d]) : outbox'[d][i].of \in Calls =>
              ConnOf[outbox'[d][i].of] = d
      BY <1>1, <2>1, <2>3, TcpAssumption, Appended DEF WireOK
    <2> QED
      BY <1>1, <1>2, <2>1, <2>2, <2>4 DEF WireOK
  <1>7. ASSUME NEW k \in Calls, ServeStep(d, k) PROVE WireOK(d)'
    <2>1. /\ ConnOf[k] = d /\ inbox[d] # <<>> /\ inbox'[d] = Tail(inbox[d]) /\ cpc[d] # "none"
      BY <1>7, ServedOwn
    <2>2. \A i \in 1 .. Len(inbox'[d]) : inbox'[d][i] \in Calls =>
              ConnOf[inbox'[d][i]] = d /\ kpc'[inbox'[d][i]] \in {"sent", "done"}
      BY <1>1, <1>2, <2>1, Taken DEF WireOK
    <2>3. outbox' = outbox \/ \E st \in Statuses : Respond(d, st, k)
      BY ONLY <1>7, ServeShape DEF Statuses
    <2>4. ASSUME NEW st \in Statuses, Respond(d, st, k)
          PROVE  \A i \in 1 .. Len(outbox'[d]) : outbox'[d][i].of \in Calls =>
                    ConnOf[outbox'[d][i].of] = d
      <3> DEFINE f == [status |-> st, of |-> k]
      <3>1. outbox'[d] \in {outbox[d], Append(outbox[d], f)}
        BY <2>4, RespondType
      <3>2. f \in Responses /\ f.of = k
        BY DEF Responses
      <3> HIDE DEF f
      <3>3. CASE outbox'[d] = outbox[d]
        BY <1>1, <3>3 DEF WireOK
      <3>4. CASE outbox'[d] = Append(outbox[d], f)
        <4>1. /\ Len(outbox[d]) \in Nat /\ Len(outbox'[d]) = Len(outbox[d]) + 1
              /\ outbox'[d][Len(outbox[d]) + 1] = f
              /\ \A i \in 1 .. Len(outbox[d]) : outbox'[d][i] = outbox[d][i]
          BY <1>1, <3>2, <3>4, Appended, Emptied
        <4>2. \A i \in 1 .. Len(outbox[d]) : outbox[d][i].of \in Calls =>
                 ConnOf[outbox[d][i].of] = d
          BY <1>1 DEF WireOK
        <4> QED
          BY ONLY <2>1, <3>2, <4>1, <4>2
      <3> QED
        BY <3>1, <3>3, <3>4
    <2> QED
      BY <1>1, <2>1, <2>2, <2>3, <2>4 DEF WireOK
  <1>8. CASE TcpRefused(d) \/ TcpReply(d) \/ TcpInsert(d) \/ TcpConnLost(d) \/ TcpClose(d)
             \/ PassLoop(d) \/ ReadFails(d)
    BY <1>3, <1>8 DEF TcpRefused, TcpReply, TcpInsert, TcpConnLost, TcpClose, PassLoop,
                      ReadFails
  <1>9. ASSUME NEW c \in Conns, c # d, TaskOf(c) PROVE WireOK(d)'
    BY <1>3, <1>9, TaskFrame
  <1>10. ASSUME NEW k \in Calls, CallStep(k), ConnOf[k] # d PROVE WireOK(d)'
    BY <1>3, <1>10, CallFrame
  <1>11. CASE GcLoop \/ ClockTick \/ UNCHANGED vars
    BY <1>3, <1>11 DEF GcLoop, ClockTick
  <1> QED
    BY <1>4, <1>5, <1>6, <1>7, <1>8, <1>9, <1>10, <1>11
    DEF Next, ConnTask, TaskOf, ServeStep, CallStep

-----------------------------------------------------------------------------
(* The lengths of the queues. *)

(* There are no more written calls than calls, and their number never falls. *)
LEMMA WrittenCount ==
    ASSUME Types
    PROVE  /\ IsFiniteSet(Written)
           /\ Cardinality(Written) \in Nat /\ Cardinality(Calls) \in Nat
           /\ Cardinality(Written) <= Cardinality(Calls)
  <1>1. IsFiniteSet(Calls) /\ Written \in SUBSET Calls
    BY TcpAssumption DEF Written
  <1>2. IsFiniteSet(Written) /\ Cardinality(Written) <= Cardinality(Calls)
    BY <1>1, FS_Subset
  <1> QED
    BY <1>1, <1>2, FS_CardinalityType

(* A call that writes adds itself. *)
LEMMA WrittenGrows ==
    ASSUME Types, HandshakeInv, WireInv, [Next]_vars
    PROVE  /\ Cardinality(Written)' \in Nat /\ Cardinality(Written) <= Cardinality(Written)'
           /\ \A k \in Calls :
                CallStep(k) /\ kpc[k] = "waiting" /\ kpc'[k] \in {"sent", "done"} =>
                   Cardinality(Written)' = Cardinality(Written) + 1
  <1>1. IsFiniteSet(Written) /\ IsFiniteSet(Written') /\ Cardinality(Written') \in Nat
    <2>1. Types'
      BY TypesNext
    <2> QED
      BY <2>1, WrittenCount, TcpAssumption, FS_Subset, FS_CardinalityType DEF Written
  <1>2. Written \in SUBSET Written'
    BY WrittenStays DEF Written
  <1>3. Cardinality(Written) <= Cardinality(Written')
    BY <1>1, <1>2, FS_Subset
  <1>4. ASSUME NEW k \in Calls, CallStep(k), kpc[k] = "waiting", kpc'[k] \in {"sent", "done"}
        PROVE  Cardinality(Written') = Cardinality(Written) + 1
    <2>1. Written' = Written \cup {k} /\ k \notin Written
      BY <1>4, CallFrame DEF Written
    <2> QED
      BY <1>1, <2>1, FS_AddElement
  <1> QED
    BY <1>1, <1>3, <1>4

(* A task that has left its loop does not enter it again. *)
LEMMA LeftForGood ==
    ASSUME Types, LoopInv, WireInv, [Next]_vars, NEW d \in Conns
    PROVE  tpc[d] \in {"closing", "panicked"} => tpc'[d] = tpc[d]
  <1>1. ASSUME TaskOf(d), tpc[d] \in {"closing", "panicked"} PROVE tpc'[d] = tpc[d]
    <2>1. ASSUME NEW k \in Calls PROVE ~ServeStep(d, k)
      BY <1>1, ServeShape DEF At
    <2>2. cpc[d] \notin {"none", "accepted", "replied"}
      BY <1>1 DEF LoopInv, LoopOK
    <2> QED
      BY <1>1, <2>1, <2>2 DEF TaskOf, ConnTask, ServeStep, TcpAccept, TcpRefused, TcpReply,
          TcpInsert, TcpConnLost, TcpClose, ExpireLoop, PassLoop, ReadFails, At, Goto,
          InsertSession
  <1>2. ASSUME NEW c \in Conns, c # d, TaskOf(c) PROVE tpc'[d] = tpc[d]
    BY <1>2, TaskFrame
  <1>3. ASSUME NEW k \in Calls, CallStep(k) PROVE tpc'[d] = tpc[d]
    BY <1>3, CallFrame
  <1> QED
    BY <1>1, <1>2, <1>3 DEF Next, TaskOf, CallStep, GcLoop, ClockTick

(* Each frame on the wire of a connection is that of a call which has        *)
(* written, but for the one a task may write before it stops and the rest of *)
(* a wrapped key id.                                                         *)
LEMMA BoundNext ==
    ASSUME Types, HandshakeInv, LoopInv, CallInv, WireInv, BoundInv, [Next]_vars
    PROVE  BoundInv'
  <1> SUFFICES ASSUME NEW d \in Conns PROVE Bounded(d)'
    BY DEF BoundInv
  <1> DEFINE in == inbox[d]
             out == outbox[d]
  <1>1. /\ Bounded(d) /\ WireOK(d)
        /\ in \in Seq(Calls \cup {Torn, Junk}) /\ out \in Seq(Responses)
    BY DEF BoundInv, WireInv, Types
  <1>2. /\ Cardinality(Written) \in Nat /\ Cardinality(Written)' \in Nat
        /\ Cardinality(Written) <= Cardinality(Written)'
    BY WrittenCount, WrittenGrows
  <1>3. PICK n0 \in Nat, n1 \in Nat :
          n0 = Cardinality(Written) /\ n1 = Cardinality(Written)' /\ n0 <= n1
    BY <1>2
  <1>4. Extra(d) \in {0, 1} /\ Extra(d)' \in {0, 1} /\ Extra(d) <= Extra(d)'
    BY LeftForGood DEF Extra
  <1>5. PICK e0 \in {0, 1}, e1 \in {0, 1} : e0 = Extra(d) /\ e1 = Extra(d)' /\ e0 <= e1
    BY <1>4
  <1>6. Truncated(cred[d])' <=> Truncated(cred[d])
    BY CredConstant, NextShared
  <1>7. /\ Len(in) \in Nat /\ Len(out) \in Nat /\ Len(in') \in Nat /\ Len(out') \in Nat
    <2>1. inbox' \in [Conns -> Seq(Calls \cup {Torn, Junk})] /\ outbox' \in [Conns -> Seq(Responses)]
      BY TypesNext DEF Types
    <2> QED
      BY <1>1, <2>1, Emptied
  <1>8. PICK a \in Nat, b \in Nat, a1 \in Nat, b1 \in Nat :
          a = Len(in) /\ b = Len(out) /\ a1 = Len(in') /\ b1 = Len(out')
    BY <1>7
  <1>9. /\ Truncated(cred[d]) /\ cpc[d] # "none" =>
             in # <<>> /\ Head(in) = Junk /\ a <= n0 + 1 /\ b <= e0
        /\ ~(Truncated(cred[d]) /\ cpc[d] # "none") => a + b <= n0 + e0
    BY <1>1, <1>3, <1>5, <1>8 DEF Bounded
  <1> DEFINE Goal ==
        /\ Truncated(cred[d]) /\ cpc'[d] # "none" =>
             in' # <<>> /\ Head(in') = Junk /\ a1 <= n1 + 1 /\ b1 <= e1
        /\ ~(Truncated(cred[d]) /\ cpc'[d] # "none") => a1 + b1 <= n1 + e1
  <1> SUFFICES Goal
    BY <1>3, <1>5, <1>6, <1>8 DEF Bounded
  <1>10. n0 <= n1 /\ e0 <= e1 /\ e0 \in Nat /\ e1 \in Nat
    BY <1>3, <1>5
  <1>11. ASSUME in' = in, out' = out, cpc'[d] = "none" <=> cpc[d] = "none"
         PROVE  Goal
    <2>1. a1 = a /\ b1 = b
      BY <1>8, <1>11
    <2> QED
      BY <1>9, <1>10, <1>11, <2>1
  <1>12. ASSUME NEW k \in Calls, CallStep(k), ConnOf[k] = d PROVE Goal
    <2>1. b1 <= b
      <3>1. \/ out' = out
            \/ out # <<>> /\ out' = Tail(out)
            \/ out' = <<>>
            \/ Len(out') = Len(out)
        BY <1>12, CallQueues
      <3>2. CASE out # <<>> /\ out' = Tail(out)
        BY <1>1, <1>8, <3>2, Taken
      <3>3. CASE out' = <<>>
        BY <1>8, <3>3
      <3>4. CASE out' = out \/ Len(out') = Len(out)
        BY <1>8, <3>4
      <3> QED
        BY <3>1, <3>2, <3>3, <3>4
    <2>2. cpc[d] # "none" /\ cpc' = cpc
      BY <1>12, CallDialed, CallFrame
    <2>3. CASE in' = in
      <3>1. a1 = a
        BY <1>8, <2>3
      <3> QED
        BY <1>9, <1>10, <2>1, <2>2, <2>3, <3>1
    <2>4. ASSUME NEW x \in {k, Torn}, in' = Append(in, x), n1 = n0 + 1 PROVE Goal
      <3>1. a1 = a + 1
        BY <1>1, <1>8, <2>4, Appended
      <3>2. in # <<>> => in' # <<>> /\ Head(in') = Head(in)
        BY <1>1, <2>4
      <3> QED
        BY <1>9, <1>10, <2>1, <2>2, <2>4, <3>1, <3>2
    <2>5. kpc[k] = "waiting" /\ kpc'[k] \in {"sent", "done"} => n1 = n0 + 1
      BY <1>3, <1>12, WrittenGrows
    <2>6. \/ in' = in
          \/ kpc[k] = "waiting" /\ kpc'[k] \in {"sent", "done"} /\ \E x \in {k, Torn} : in' = Append(in, x)
      <3>1. result'[k].status = "dropped" => kpc'[k] = "done"
        BY CallNext DEF CallInv, CallOK
      <3> QED
        BY <1>12, <3>1, CallQueues
    <2> QED
      BY <2>3, <2>4, <2>5, <2>6
  <1>13. CASE TcpAccept(d)
    <2>1. /\ in' = IF Truncated(cred[d]) THEN <<Junk>> ELSE <<>>
          /\ out' = out /\ cpc'[d] = "accepted" /\ cpc[d] = "none"
      BY <1>13 DEF TcpAccept, Accept, Types, HandshakeTypeOK
    <2>2. b = 0 /\ b1 = 0
      BY <1>1, <1>8, <2>1 DEF WireOK
    <2>3. CASE Truncated(cred[d])
      <3>1. in' = <<Junk>> /\ a1 = 1
        BY <1>8, <2>1, <2>3
      <3> QED
        BY <1>10, <2>1, <2>2, <2>3, <3>1
    <2>4. CASE ~Truncated(cred[d])
      <3>1. in' = <<>> /\ a1 = 0
        BY <1>8, <2>1, <2>4
      <3> QED
        BY <1>10, <2>1, <2>2, <2>4, <3>1
    <2> QED
      BY <2>3, <2>4
  <1>14. CASE ExpireLoop(d)
    <2>1. /\ in' = in /\ cpc' = cpc
          /\ Respond(d, "SessionExpired", NoCall)
          /\ tpc[d] = "check" /\ tpc'[d] = "closing"
      BY <1>14 DEF ExpireLoop, At, Goto, Types
    <2>2. e0 = 0 /\ e1 = 1
      BY <1>5, <2>1 DEF Extra
    <2>3. b1 \in {b, b + 1} /\ a1 = a
      <3>1. out' \in {out, Append(out, [status |-> "SessionExpired", of |-> NoCall])}
        BY <2>1, RespondType DEF Statuses
      <3>2. [status |-> "SessionExpired", of |-> NoCall] \in Responses
        BY DEF Responses, Statuses
      <3> QED
        BY <1>1, <1>8, <2>1, <3>1, <3>2, Appended
    <2> QED
      BY <1>9, <1>10, <2>1, <2>2, <2>3
  <1>15. ASSUME NEW k \in Calls, ServeStep(d, k) PROVE Goal
    <2>1. in # <<>> /\ in[1] = k /\ in' = Tail(in) /\ cpc[d] = "serving"
      BY <1>15, ServedOwn
    <2>2. Head(in) # Junk
      BY <1>1, <2>1, Taken, TcpAssumption
    <2>3. cpc'[d] # "none" /\ a1 = a - 1
      BY <1>1, <1>8, <2>1, Taken, Settled, NextShared DEF Types
    <2>4. b1 \in {b, b + 1}
      <3>1. outbox' = outbox \/ \E st \in Statuses : Respond(d, st, k)
        BY ONLY <1>15, ServeShape DEF Statuses
      <3>2. ASSUME NEW st \in Statuses, Respond(d, st, k) PROVE b1 \in {b, b + 1}
        <4>1. out' \in {out, Append(out, [status |-> st, of |-> k])}
          BY <3>2, RespondType
        <4>2. [status |-> st, of |-> k] \in Responses
          BY DEF Responses
        <4> QED
          BY <1>1, <1>8, <4>1, <4>2, Appended
      <3> QED
        BY <1>8, <3>1, <3>2
    <2> QED
      BY <1>9, <1>10, <2>1, <2>2, <2>3, <2>4
  <1>16. CASE TcpRefused(d) \/ TcpReply(d) \/ TcpInsert(d) \/ TcpConnLost(d) \/ TcpClose(d)
             \/ PassLoop(d) \/ ReadFails(d)
    <2>1. in' = in /\ out' = out
      BY <1>16 DEF TcpRefused, TcpReply, TcpInsert, TcpConnLost, TcpClose, PassLoop, ReadFails
    <2>2. cpc'[d] = "none" <=> cpc[d] = "none"
      BY <1>16 DEF TcpRefused, TcpReply, TcpInsert, TcpConnLost, TcpClose, PassLoop, ReadFails,
                   HelloRefused, HelloReply, InsertSession, ConnLost, CloseSession, Types,
                   HandshakeTypeOK
    <2> QED
      BY <1>11, <2>1, <2>2
  <1>17. ASSUME NEW c \in Conns, c # d, TaskOf(c) PROVE Goal
    BY <1>11, <1>17, TaskFrame
  <1>18. ASSUME NEW k \in Calls, CallStep(k), ConnOf[k] # d PROVE Goal
    BY <1>11, <1>18, CallFrame
  <1>19. CASE GcLoop \/ ClockTick \/ UNCHANGED vars
    BY <1>11, <1>19 DEF GcLoop, ClockTick
  <1> QED
    BY <1>12, <1>13, <1>14, <1>15, <1>16, <1>17, <1>18, <1>19
    DEF Next, ConnTask, TaskOf, ServeStep, CallStep

-----------------------------------------------------------------------------
(* Requests served past max_lifetime. *)

(* A task that serves served before, or inserts its session in this step.    *)
LEMMA ServingBefore ==
    ASSUME Types, WireInv, [Next]_vars, NEW d \in Conns, cpc'[d] = "serving"
    PROVE  cpc[d] = "serving" \/ TcpInsert(d)
  <1>1. CASE TaskOf(d) /\ ~TcpInsert(d)
    <2>1. ASSUME NEW k \in Calls, ServeStep(d, k) PROVE cpc[d] = "serving"
      BY <2>1, ServedOwn
    <2>2. CASE TcpAccept(d) \/ TcpConnLost(d) \/ TcpRefused(d) \/ TcpReply(d)
               \/ ExpireLoop(d) \/ PassLoop(d) \/ ReadFails(d) \/ TcpClose(d)
      BY <2>2 DEF TcpAccept, TcpConnLost, TcpRefused, TcpReply, ExpireLoop, PassLoop,
                  ReadFails, TcpClose, Accept, ConnLost, HelloRefused, HelloReply,
                  CloseSession, Types, HandshakeTypeOK
    <2> QED
      BY <1>1, <2>1, <2>2 DEF TaskOf, ConnTask, ServeStep
  <1>2. ASSUME NEW c \in Conns, c # d, TaskOf(c) PROVE cpc'[d] = cpc[d]
    BY <1>2, TaskFrame
  <1>3. ASSUME NEW k \in Calls, CallStep(k) PROVE cpc' = cpc
    BY <1>3, CallFrame
  <1> QED
    BY <1>1, <1>2, <1>3 DEF Next, TaskOf, CallStep, GcLoop, ClockTick

(* The check before the wait for a request bounds what is served late. *)
LEMMA LateNext ==
    ASSUME Types, HandshakeInv, TableInv, LoopInv, CallInv, WireInv, LateInv, [Next]_vars
    PROVE  LateInv'
  <1> SUFFICES ASSUME NEW d \in Conns, cpc'[d] = "serving", sid'[d] \in DOMAIN sessions'
               PROVE  /\ tpc'[d] = "read" => Late(d)' = {}
                      /\ \A k, q \in Late(d)' : k = q
    BY DEF LateInv, LateOK, Live
  <1>1. /\ HandshakeTypeOK
        /\ \A k \in Calls : ranAt[k] # Never =>
              HandshakeOver(ConnOf[k]) /\ ranAt[k] <= now
    BY DEF Types, CallInv, CallOK, Ran
  <1>2. CASE TcpInsert(d)
    <2>1. ~HandshakeOver(d) /\ ranAt' = ranAt
      BY <1>2 DEF TcpInsert, InsertSession, HandshakeOver
    <2>2. Late(d)' = {}
      BY <1>1, <2>1 DEF Late, Ran
    <2> QED
      BY <2>2
  <1>3. CASE cpc[d] = "serving"
    <2>1. sid'[d] = sid[d] /\ born'[d] = born[d] /\ Live(sid[d])
      BY <1>1, <1>3, Settled, NextShared DEF HandshakeOver
    <2>2. /\ tpc[d] = "read" => Late(d) = {}
          /\ \A k, q \in Late(d) : k = q
      BY <1>3, <2>1 DEF LateInv, LateOK
    <2>3. ASSUME NEW k \in Calls, ServeStep(d, k)
          PROVE  /\ tpc'[d] = "read" => Late(d)' = {}
                 /\ \A p, q \in Late(d)' : p = q
      <3>1. tpc[d] = "read" /\ tpc'[d] # "read"
        <4>1. /\ tpc[d] = "read"
              /\ tpc' \in {[tpc EXCEPT ![d] = "check"], [tpc EXCEPT ![d] = "panicked"]}
          BY ONLY <2>3, ServeShape DEF At
        <4> QED
          BY <4>1 DEF Types
      <3>2. ranAt' \in {ranAt, [ranAt EXCEPT ![k] = now]}
        BY ONLY <2>3, ServeShape
      <3>3. Late(d)' \subseteq Late(d) \cup {k}
        BY <2>1, <3>2 DEF Late, Ran, Types
      <3> QED
        BY <2>2, <3>1, <3>3
    <2>4. CASE \A k \in Calls : ConnOf[k] = d => ranAt'[k] = ranAt[k]
      <3>1. Late(d)' = Late(d)
        BY <2>1, <2>4 DEF Late, Ran
      <3>2. ASSUME PassLoop(d) PROVE Late(d) = {}
        <4>1. sessions[sid[d]] = OwnRecord(d) /\ ~is_expired(sessions[sid[d]])
          BY <1>3, <2>1, <3>2 DEF PassLoop, TableInv, HandshakeOver
        <4>2. now - born[d] <= MaxLifetime
          <5>1. sessions[sid[d]].created_at = born[d]
            BY <4>1 DEF OwnRecord
          <5> QED
            BY <1>1, <4>1, <5>1, Durations DEF is_expired, Elapsed, HandshakeTypeOK, Times
        <4>3. ASSUME NEW k \in Late(d) PROVE FALSE
          <5>1. k \in Calls /\ ranAt[k] # Never /\ ranAt[k] - born[d] > MaxLifetime
            BY DEF Late, Ran
          <5>2. ranAt[k] \in Int /\ now \in Int /\ born[d] \in Int /\ ranAt[k] <= now
            BY <1>1, <5>1 DEF Types, HandshakeTypeOK, Times, Never
          <5> QED
            BY <4>2, <5>1, <5>2, Durations
        <4> QED
          BY <4>3
      <3>3. tpc'[d] = "read" => tpc[d] = "read" \/ PassLoop(d)
        <4>1. ASSUME NEW k \in Calls, ServeStep(d, k) PROVE tpc[d] = "read"
          BY <4>1, ServedOwn
        <4>2. CASE TaskOf(d)
          BY <4>1, <4>2 DEF Types, TaskOf, ConnTask, ServeStep, TcpAccept, TcpConnLost, TcpRefused, TcpReply,
             TcpInsert, ExpireLoop, ReadFails, TcpClose, Goto
        <4>3. ASSUME NEW c \in Conns, c # d, TaskOf(c) PROVE tpc'[d] = tpc[d]
          BY <4>3, TaskFrame
        <4>4. ASSUME NEW k \in Calls, CallStep(k) PROVE tpc' = tpc
          BY <4>4, CallFrame
        <4> QED
          BY <4>2, <4>3, <4>4 DEF Next, TaskOf, CallStep, GcLoop, ClockTick
      <3> QED
        BY <2>2, <3>1, <3>2, <3>3
    <2> QED
      BY <2>3, <2>4, RunsServed
  <1> QED
    BY <1>2, <1>3, ServingBefore

-----------------------------------------------------------------------------
(* The stream is in step as long as nobody drops a call. *)

(* A dropped call stays dropped. *)
LEMMA CleanBefore ==
    ASSUME Types, CallInv, WireInv, [Next]_vars, NEW d \in Conns, Clean(d)'
    PROVE  Clean(d)
  <1> SUFFICES ASSUME NEW k \in Calls, ConnOf[k] = d, result[k].status = "dropped"
               PROVE  FALSE
    BY DEF Clean
  <1>1. kpc[k] = "done"
    BY DEF CallInv, CallOK
  <1>2. ASSUME NEW q \in Calls, CallStep(q) PROVE result'[k] = result[k]
    <2>1. CASE q # k
      BY <1>2, <2>1, CallFrame
    <2>2. CASE q = k
      BY <1>1, <1>2, <2>2 DEF CallStep, ClientTask, CallStart, CallWrite, CallRead, CallFails,
                              AbandonWrite, AbandonRead
    <2> QED
      BY <2>1, <2>2
  <1>3. ASSUME NEW c \in Conns, TaskOf(c) PROVE result' = result
    BY <1>3, TaskFrame
  <1>4. result'[k] = result[k]
    BY <1>2, <1>3 DEF Next, TaskOf, CallStep, GcLoop, ClockTick
  <1> QED
    BY <1>4 DEF Clean

(* Steps that leave the queues and the calls of a connection alone. *)
LEMMA TidyFrame ==
    ASSUME Types, WireInv, NEW d \in Conns, Tidy(d), cred' = cred,
           inbox'[d] = inbox[d], outbox'[d] = outbox[d],
           alive'[d] => alive[d], Reading(d)' => Reading(d),
           \A k \in Calls : ConnOf[k] = d =>
              kpc'[k] = kpc[k] /\ result'[k] = result[k] /\ ranAt'[k] = ranAt[k]
    PROVE  Tidy(d)'
  <1> DEFINE in == inbox[d]
             out == outbox[d]
  <1>1. /\ \A i \in 1 .. Len(in) : in[i] \in Calls => ConnOf[in[i]] = d
        /\ \A i \in 1 .. Len(out) : out[i].of \in Calls => ConnOf[out[i].of] = d
    BY DEF WireInv, WireOK
  <1>2. ASSUME NEW i \in 1 .. Len(out) PROVE FrameOK(d, i)'
    <2>1. FrameOK(d, i)
      BY DEF Tidy
    <2> QED
      BY <1>1, <2>1 DEF FrameOK, Ran
  <1>3. ASSUME NEW i \in 1 .. Len(in), PendingOK(d, in[i]) PROVE PendingOK(d, in[i])'
    BY <1>1, <1>3 DEF PendingOK, Ran
  <1>4. ASSUME NEW k \in Calls, ConnOf[k] = d
        PROVE  /\ result'[k].of \in {k, NoCall}
               /\ "oversize" \notin Faults /\ kpc'[k] = "sent" /\ Ran(k)' =>
                     IF outbox'[d] = <<>> THEN ~alive'[d] ELSE outbox'[d][1].of = k
    BY <1>4 DEF Tidy, Ran
  <1> QED
    BY <1>2, <1>3, <1>4 DEF Tidy

(* A connection is accepted with nothing on its wire but the rest of a       *)
(* wrapped key id.                                                           *)
LEMMA TidyAccept ==
    ASSUME Types, CallInv, WireInv, NEW d \in Conns, Tidy(d), TcpAccept(d)
    PROVE  Tidy(d)'
  <1>1. /\ cpc[d] = "none"
        /\ inbox'[d] = IF Truncated(cred[d]) THEN <<Junk>> ELSE <<>>
        /\ UNCHANGED <<cred, tpc, outbox, kpc, result, ranAt>>
    BY DEF TcpAccept, Accept, Types
  <1>2. outbox[d] = <<>>
    BY <1>1 DEF WireInv, WireOK
  <1>3. \A k \in Calls : ConnOf[k] = d => ~Ran(k)
    BY <1>1 DEF CallInv, CallOK, HandshakeOver
  <1> QED
    BY <1>1, <1>2, <1>3 DEF Tidy, Ran

(* An unasked SessionExpired is the last frame a task writes. *)
LEMMA TidyExpire ==
    ASSUME Types, WireInv, NEW d \in Conns, Tidy(d), ExpireLoop(d)
    PROVE  Tidy(d)'
  <1> DEFINE f == [status |-> "SessionExpired", of |-> NoCall]
             out == outbox[d]
  <1>1. /\ tpc[d] = "check" /\ tpc'[d] = "closing"
        /\ out' = IF alive[d] THEN Append(out, f) ELSE out
        /\ UNCHANGED <<alive, cred, inbox, kpc, result, ranAt>>
    BY DEF ExpireLoop, At, Goto, Types, Respond
  <1>2. Reading(d) /\ ~Reading(d)'
    BY <1>1 DEF Reading
  <1>3. CASE out' = out
    BY <1>1, <1>2, <1>3, TidyFrame
  <1>4. CASE alive[d] /\ out' = Append(out, f)
    <2>1. f \in Responses /\ f.status = "SessionExpired" /\ f.of = NoCall /\ NoCall \notin Calls
      BY TcpAssumption DEF Responses, Statuses
    <2> HIDE DEF f
    <2>2. PICK n \in Nat :
            /\ n = Len(out) /\ Len(out') = n + 1
            /\ out'[n + 1] = f
            /\ \A i \in 1 .. n : out'[i] = out[i]
      <3>1. /\ Len(out) \in Nat /\ Len(out') = Len(out) + 1
            /\ out'[Len(out) + 1] = f
            /\ \A i \in 1 .. Len(out) : out'[i] = out[i]
        BY <1>4, <2>1, Appended, Emptied DEF Types
      <3> QED
        BY <3>1
    <2>3. ASSUME NEW i \in 1 .. n PROVE FrameOK(d, i)'
      <3>1. FrameOK(d, i)
        BY <2>2 DEF Tidy
      <3> QED
        BY <1>1, <1>2, <2>2, <3>1 DEF FrameOK, Ran
    <2>4. FrameOK(d, n + 1)'
      BY <1>2, <2>1, <2>2 DEF FrameOK
    <2>5. ASSUME NEW i \in 1 .. Len(out') PROVE FrameOK(d, i)'
      <3>1. i \in 1 .. n \/ i = n + 1
        BY <2>2
      <3> QED
        BY <2>3, <2>4, <3>1
    <2>6. ASSUME NEW k \in Calls, ConnOf[k] = d, "oversize" \notin Faults,
                 kpc[k] = "sent", Ran(k)
          PROVE  out' # <<>> /\ out'[1].of = k
      <3>1. out # <<>> /\ out[1].of = k
        BY <1>4, <2>6 DEF Tidy
      <3>2. 1 \in 1 .. n
        BY <2>2, <3>1, Emptied DEF Types
      <3> QED
        BY <2>2, <3>1, <3>2
    <2> QED
      BY <1>1, <1>2, <2>5, <2>6 DEF Tidy, Ran
  <1> QED
    BY <1>1, <1>3, <1>4

(* The request that is served is all there is on the wire, so its answer is  *)
(* the only frame afterwards.                                                *)
LEMMA TidyServe ==
    ASSUME Types, CallInv, WireInv, BoundInv, NEW d \in Conns, Tidy(d),
           NEW k \in Calls, ServeStep(d, k)
    PROVE  Tidy(d)'
  <1> DEFINE in == inbox[d]
             out == outbox[d]
  <1>1. /\ ConnOf[k] = d /\ in # <<>> /\ in[1] = k /\ in' = Tail(in)
        /\ cpc[d] = "serving" /\ tpc[d] = "read"
    BY ServedOwn
  <1>2. in \in Seq(Calls \cup {Torn, Junk}) /\ out \in Seq(Responses)
    BY DEF Types
  <1>3. ~Truncated(cred[d]) /\ Reading(d)
    <2>1. Head(in) # Junk
      BY <1>1, <1>2, Taken, TcpAssumption
    <2> QED
      BY <1>1, <2>1 DEF BoundInv, Bounded, Reading
  <1>4. PICK a \in Nat \ {0}, b \in Nat : a = Len(in) /\ b = Len(out)
    BY <1>1, <1>2, Taken, Emptied
  <1>5. out = <<>> /\ in' = <<>>
    <2>1. a + b <= 1
      <3>1. Len(in) + Len(out) <= 1
        BY <1>3 DEF Tidy
      <3> QED
        BY ONLY <1>4, <3>1
    <2>2. a = 1 /\ b = 0
      BY <2>1
    <2>3. Len(Tail(in)) = 0 /\ Tail(in) \in Seq(Calls \cup {Torn, Junk})
      <3>1. Len(Tail(in)) = Len(in) - 1 /\ Tail(in) \in Seq(Calls \cup {Torn, Junk})
        BY <1>1, <1>2, Taken
      <3> QED
        BY ONLY <1>4, <2>2, <3>1
    <2> QED
      BY <1>1, <1>2, <1>4, <2>2, <2>3, Emptied
  <1>6. PendingOK(d, k)
    BY <1>1, <1>3, <1>4 DEF Tidy
  <1>7. UNCHANGED <<cred, kpc, result>>
    BY ONLY ServeShape, ServeStep(d, k), d \in Conns, k \in Calls
  <1>8. ASSUME NEW q \in Calls, ConnOf[q] = d, "oversize" \notin Faults, kpc[q] = "sent", Ran(q)
        PROVE  ~alive[d]
    BY <1>5, <1>8 DEF Tidy
  <1>9. ASSUME NEW st \in Statuses, Respond(d, st, k), alive' = alive,
               IF st \in {"Handled", "InternalError"} THEN ranAt' = [ranAt EXCEPT ![k] = now]
                                                     ELSE ranAt' = ranAt
        PROVE  Tidy(d)'
    <2> DEFINE f == [status |-> st, of |-> k]
    <2>1. out' = IF alive[d] THEN Append(out, f) ELSE out
      BY <1>9, RespondType
    <2>2. f.status = st /\ f.of = k /\ st # "torn" /\ k # NoCall
      BY TcpAssumption DEF Statuses
    <2>3. ranAt'[k] # Never <=> st \in {"Handled", "InternalError"}
      BY <1>6, <1>9 DEF PendingOK, Ran, Types, HandshakeTypeOK, Times, Never
    <2>4. \A q \in Calls \ {k} : ranAt'[q] = ranAt[q]
      BY <1>9 DEF Types
    <2> HIDE DEF f
    <2>5. CASE ~alive[d]
      <3>1. out' = <<>>
        BY <1>5, <2>1, <2>5
      <3> QED
        BY <1>5, <1>7, <1>9, <2>5, <3>1 DEF Tidy
    <2>6. CASE alive[d]
      <3>1. out' = <<f>> /\ Len(out') = 1 /\ out'[1] = f
        BY <1>5, <2>1, <2>6
      <3>2. kpc'[k] = "sent"
        BY <1>6, <1>7, <2>6 DEF PendingOK
      <3>3. FrameOK(d, 1)'
        BY <2>2, <2>3, <3>1, <3>2 DEF FrameOK, Ran
      <3>4. \A i \in 1 .. Len(out') : i = 1
        BY <3>1
      <3>5. Len(in') + Len(out') <= 1 /\ Len(in') = 0
        BY <1>5, <3>1
      <3>6. ASSUME NEW q \in Calls, ConnOf[q] = d, "oversize" \notin Faults, kpc[q] = "sent",
                   Ran(q)'
            PROVE  q = k
        BY <1>8, <2>4, <2>6, <3>6 DEF Ran
      <3>7. ASSUME NEW q \in Calls, ConnOf[q] = d
            PROVE  /\ result'[q].of \in {q, NoCall}
                   /\ "oversize" \notin Faults /\ kpc'[q] = "sent" /\ Ran(q)' =>
                         out' # <<>> /\ out'[1].of = q
        BY <1>7, <2>2, <3>1, <3>6, <3>7 DEF Tidy
      <3> QED
        BY <3>3, <3>4, <3>5, <3>7 DEF Tidy
    <2> QED
      BY <2>5, <2>6
  <1>10. ASSUME outbox' = outbox, "oversize" \in Faults \/ ~alive'[d] PROVE Tidy(d)'
    BY <1>5, <1>7, <1>10 DEF Tidy
  <1>11. \/ \E st \in Statuses :
               /\ Respond(d, st, k) /\ alive' = alive
               /\ IF st \in {"Handled", "InternalError"} THEN ranAt' = [ranAt EXCEPT ![k] = now]
                                                        ELSE ranAt' = ranAt
         \/ outbox' = outbox /\ "oversize" \in Faults
         \/ outbox' = outbox /\ alive' = [alive EXCEPT ![d] = FALSE]
    BY ONLY ServeShape, ServeStep(d, k), d \in Conns, k \in Calls DEF Statuses
  <1>12. CASE outbox' = outbox /\ alive' = [alive EXCEPT ![d] = FALSE]
    BY <1>10, <1>12 DEF Types, HandshakeTypeOK
  <1> QED
    BY <1>9, <1>10, <1>11, <1>12

(* The calls take turns: nothing is on the wire when one writes, and what is *)
(* there when one reads is its own answer.                                   *)
LEMMA TidyCall ==
    ASSUME Types, CallInv, WireInv, NEW d \in Conns, Tidy(d), Clean(d)',
           NEW k \in Calls, ConnOf[k] = d, CallStep(k)
    PROVE  Tidy(d)'
  <1> DEFINE in == inbox[d]
             out == outbox[d]
             Pending == /\ Len(in) + Len(out) <= 1
                        /\ \A i \in 1 .. Len(in) : PendingOK(d, in[i])
  <1>1. /\ UNCHANGED <<cred, alive, tpc, ranAt>>
        /\ \A q \in Calls \ {k} : kpc'[q] = kpc[q] /\ result'[q] = result[q]
    BY CallFrame
  <1>2. /\ in \in Seq(Calls \cup {Torn, Junk}) /\ out \in Seq(Responses)
        /\ kpc \in [Calls -> {"idle", "waiting", "sent", "done"}]
    BY DEF Types
  <1>3. /\ \A i \in 1 .. Len(in) : in[i] \in Calls =>
              ConnOf[in[i]] = d /\ kpc[in[i]] \in {"sent", "done"}
        /\ \A i \in 1 .. Len(out) : out[i].of \in Calls => ConnOf[out[i].of] = d
    BY DEF WireInv, WireOK
  <1>4. \A i \in 1 .. Len(out) : FrameOK(d, i)
    BY DEF Tidy
  <1>5. Reading(d)' = Reading(d)
    BY <1>1 DEF Reading
  <1>6. ASSUME NEW q \in Calls \ {k}, ConnOf[q] = d PROVE result'[q].of \in {q, NoCall}
    BY <1>1, <1>6 DEF Tidy
  <1>7. ASSUME in' = in, out' = out, kpc[k] \notin {"sent", "done"}, kpc'[k] # "sent",
               result'[k].of \in {k, NoCall}
        PROVE  Tidy(d)'
    <2>1. ASSUME NEW i \in 1 .. Len(out) PROVE FrameOK(d, i)'
      <3>1. FrameOK(d, i)
        BY <1>4
      <3> QED
        BY <1>1, <1>5, <1>7, <3>1 DEF FrameOK, Ran
    <2>2. ASSUME NEW i \in 1 .. Len(in), PendingOK(d, in[i]) PROVE PendingOK(d, in[i])'
      BY <1>1, <1>3, <1>7, <2>2 DEF PendingOK, Ran
    <2>3. ASSUME NEW q \in Calls, ConnOf[q] = d
          PROVE  /\ result'[q].of \in {q, NoCall}
                 /\ "oversize" \notin Faults /\ kpc'[q] = "sent" /\ Ran(q)' =>
                       IF outbox'[d] = <<>> THEN ~alive'[d] ELSE outbox'[d][1].of = q
      BY <1>1, <1>6, <1>7, <2>3 DEF Tidy, Ran
    <2> QED
      BY <1>1, <1>5, <1>7, <2>1, <2>2, <2>3 DEF Tidy
  <1>8. CASE CallStart(k)
    <2>1. in' = in /\ out' = out /\ kpc[k] = "idle" /\ kpc'[k] # "sent"
      BY <1>2, <1>8 DEF CallStart
    <2>2. result'[k].of \in {k, NoCall}
      BY <1>8 DEF CallStart, Tidy, Types
    <2> QED
      BY <1>7, <2>1, <2>2
  <1>9. CASE CallWrite(k)
    <2>1. /\ kpc[k] = "waiting" /\ kpc'[k] = "sent" /\ out' = out /\ result' = result
          /\ in' = IF alive[d] THEN Append(in, k) ELSE in
          /\ \A q \in Calls : ConnOf[q] = d => kpc[q] # "sent"
      BY <1>2, <1>9 DEF CallWrite, StreamFree, Types
    <2>2. ASSUME NEW i \in 1 .. Len(out) PROVE FrameOK(d, i)' /\ ~Reading(d)
      <3>1. FrameOK(d, i) /\ out[i].of = NoCall
        <4>1. out[i] \in Responses
          BY <1>2, Emptied
        <4>2. out[i].of \in Calls \cup {NoCall}
          BY <4>1 DEF Responses
        <4>3. FrameOK(d, i)
          BY <1>4
        <4>4. out[i].of \notin Calls
          BY <1>3, <2>1, <4>3 DEF FrameOK
        <4> QED
          BY <4>2, <4>3, <4>4
      <3> QED
        BY <1>1, <1>5, <2>1, <3>1, TcpAssumption DEF FrameOK
    <2>3. ~Ran(k) /\ result[k].status = "none"
      BY <2>1 DEF CallInv, CallOK, Types
    <2>4. ASSUME Reading(d), ~Truncated(cred[d])
          PROVE  Pending'
      <3>1. out = <<>>
        <4>1. Len(out) = 0
          BY <1>2, <2>2, <2>4, Emptied
        <4> QED
          BY <1>2, <4>1, Emptied
      <3>2. \A i \in 1 .. Len(in) : PendingOK(d, in[i])
        BY <2>4 DEF Tidy
      <3>3. CASE alive[d]
        <4>1. \A i \in 1 .. Len(in) : FALSE
          BY <1>3, <2>1, <3>2, <3>3 DEF PendingOK
        <4>2. in = <<>>
          BY <1>2, <4>1, Emptied
        <4>3. in' = <<k>>
          BY <2>1, <3>3, <4>2
        <4>4. Len(in') + Len(out') <= 1 /\ \A i \in 1 .. Len(in') : in'[i] = k
          <5>1. Len(in') = 1 /\ in'[1] = k
            BY <4>3
          <5>2. Len(out') = 0
            BY <2>1, <3>1
          <5> QED
            BY <5>1, <5>2
        <4>5. ASSUME NEW i \in 1 .. Len(in') PROVE PendingOK(d, in[i])'
          BY <1>1, <2>1, <2>3, <4>4 DEF PendingOK, Ran
        <4> QED
          BY <4>4, <4>5
      <3>4. CASE ~alive[d]
        <4>1. in' = in /\ Len(in) + Len(out) <= 1
          BY <2>1, <2>4, <3>4 DEF Tidy
        <4>2. ASSUME NEW i \in 1 .. Len(in) PROVE PendingOK(d, in[i])'
          BY <1>1, <2>1, <3>2, <3>4 DEF PendingOK, Ran
        <4> QED
          BY <2>1, <4>1, <4>2
      <3> QED
        BY <3>3, <3>4
    <2>5. ASSUME NEW q \in Calls, ConnOf[q] = d
          PROVE  result'[q].of \in {q, NoCall} /\ ~(kpc'[q] = "sent" /\ Ran(q)')
      BY <1>1, <2>1, <2>3, <2>5 DEF Tidy, Ran
    <2> QED
      BY <1>1, <1>5, <2>1, <2>2, <2>4, <2>5 DEF Tidy
  <1>10. CASE CallRead(k)
    <2>1. kpc[k] = "sent" /\ kpc'[k] = "done" /\ in' = in /\ out # <<>>
      BY <1>2, <1>10 DEF CallRead, Return
    <2>2. PICK n \in Nat \ {0} : n = Len(out)
      BY <1>2, <2>1, Taken
    <2>3. 1 \in 1 .. Len(out) /\ Head(out) = out[1] /\ out[1] \in Responses
      BY <1>2, <2>1, <2>2, Taken, Emptied
    <2>4. FrameOK(d, 1)
      BY <1>4, <2>3
    <2>5. out[1].status # "torn" /\ out[1].of \in {k, NoCall}
      BY <1>3, <2>1, <2>3, <2>4 DEF FrameOK, Responses, CallInv, CallOK
    <2>6. out' = Tail(out) /\ result' = [result EXCEPT ![k] = Decoded(d, out[1])]
      BY <1>10, <2>3, <2>5 DEF CallRead, Return, Types
    <2>7. result'[k].of \in {k, NoCall}
      BY <2>5, <2>6 DEF Decoded, Error, Types
    <2>8. PICK m \in Nat : /\ m = Len(out') /\ m = n - 1
                           /\ \A i \in 1 .. m : out'[i] = out[i + 1] /\ i + 1 \in 1 .. n
      <3>1. /\ Len(Tail(out)) = Len(out) - 1
            /\ \A i \in 1 .. Len(Tail(out)) : Tail(out)[i] = out[i + 1] /\ i + 1 \in 1 .. Len(out)
        BY <1>2, <2>1, Taken
      <3>2. n - 1 \in Nat
        BY <2>2
      <3> QED
        BY <2>2, <2>6, <3>1, <3>2
    <2>9. ASSUME NEW i \in 1 .. m PROVE FrameOK(d, i)'
      <3>1. i + 1 \in 1 .. Len(out) /\ i + 1 # 1 /\ out'[i] = out[i + 1]
        BY <2>2, <2>8
      <3>2. FrameOK(d, i + 1)
        BY <1>4, <3>1
      <3>3. out[i + 1].of \notin Calls
        BY <3>1, <3>2 DEF FrameOK
      <3>4. out[i + 1].of = NoCall
        <4>1. out[i + 1] \in Responses
          BY <1>2, <3>1, Emptied
        <4> QED
          BY <3>3, <4>1 DEF Responses
      <3>5. i + 1 = n
        BY <2>2, <3>2, <3>4 DEF FrameOK
      <3>6. i = m
        BY <2>8, <3>5
      <3>7. /\ out[i + 1].status # "torn" /\ out[i + 1].status = "SessionExpired"
            /\ ~Reading(d)
        BY <3>2, <3>4 DEF FrameOK
      <3> QED
        BY <1>5, <2>8, <3>1, <3>3, <3>6, <3>7 DEF FrameOK
    <2>10. ASSUME Reading(d), ~Truncated(cred[d])
           PROVE  Pending'
      <3>1. PICK a \in Nat : a = Len(in)
        BY <1>2, Emptied
      <3>a. Len(in) + Len(out) <= 1
        BY <2>10 DEF Tidy
      <3>b. a + n <= 1
        BY ONLY <2>2, <3>1, <3>a
      <3>2. a = 0 /\ m = 0
        BY <2>8, <3>b
      <3> QED
        BY <2>1, <2>8, <3>1, <3>2
    <2>11. ASSUME NEW q \in Calls, ConnOf[q] = d PROVE kpc'[q] # "sent"
      BY <1>1, <2>1, <2>11 DEF CallInv, CallOK
    <2> QED
      BY <1>1, <1>5, <1>6, <2>7, <2>8, <2>9, <2>10, <2>11 DEF Tidy
  <1>11. CASE CallFails(k)
    <2>1. /\ ~alive[d] /\ in' = in /\ kpc'[k] = "done" /\ result'[k] = Error
          /\ \/ kpc[k] = "waiting" /\ out' = out
             \/ kpc[k] = "sent" /\ out' = <<>>
      BY <1>2, <1>11 DEF CallFails, Return, Types
    <2>2. result'[k].of = NoCall /\ result'[k].status = "error"
      BY <2>1 DEF Error
    <2>3. CASE kpc[k] = "waiting" /\ out' = out
      BY <1>7, <2>1, <2>2, <2>3
    <2>4. CASE out' = <<>>
      <3>1. Len(out') = 0
        BY <2>4
      <3>2. ASSUME NEW i \in 1 .. Len(in), PendingOK(d, in[i]) PROVE PendingOK(d, in[i])'
        BY <1>1, <2>1, <2>2, <3>2 DEF PendingOK, Ran
      <3>3. ASSUME Reading(d), ~Truncated(cred[d])
            PROVE  Pending'
        <4>1. PICK a \in Nat, b \in Nat : a = Len(in) /\ b = Len(out)
          BY <1>2, Emptied
        <4>2. \A i \in 1 .. Len(in) : PendingOK(d, in[i])
          BY <3>3 DEF Tidy
        <4>a. Len(in) + Len(out) <= 1
          BY <3>3 DEF Tidy
        <4>b. a + b <= 1
          BY ONLY <4>1, <4>a
        <4>3. a + 0 <= 1
          BY <4>b
        <4>4. Len(in') + Len(out') <= 1
          BY <2>1, <3>1, <4>1, <4>3
        <4> QED
          BY <2>1, <3>2, <4>2, <4>4
      <3> QED
        BY <1>1, <1>5, <1>6, <2>1, <2>2, <2>4, <3>1, <3>3 DEF Tidy
    <2> QED
      BY <2>1, <2>3, <2>4
  <1>12. CASE AbandonWrite(k) \/ AbandonRead(k)
    BY <1>12 DEF AbandonWrite, AbandonRead, Drop, Return, Clean, Types
  <1> QED
    BY <1>8, <1>9, <1>10, <1>11, <1>12 DEF CallStep, ClientTask

(* As long as no call of a connection is dropped its stream is in step. *)
LEMMA TidyNext ==
    ASSUME Types, HandshakeInv, LoopInv, CallInv, WireInv, BoundInv, TidyInv, [Next]_vars
    PROVE  TidyInv'
  <1> SUFFICES ASSUME NEW d \in Conns, Clean(d)' PROVE Tidy(d)'
    BY DEF TidyInv
  <1>1. Tidy(d)
    BY CleanBefore DEF TidyInv
  <1>2. cred' = cred /\ (Reading(d)' => Reading(d))
    BY CredConstant, NextShared, LeftForGood DEF Reading
  <1>3. ASSUME inbox'[d] = inbox[d], outbox'[d] = outbox[d], alive'[d] => alive[d],
               \A k \in Calls : ConnOf[k] = d =>
                  kpc'[k] = kpc[k] /\ result'[k] = result[k] /\ ranAt'[k] = ranAt[k]
        PROVE  Tidy(d)'
    BY <1>1, <1>2, <1>3, TidyFrame
  <1>4. CASE TcpAccept(d)
    BY <1>1, <1>4, TidyAccept
  <1>5. CASE ExpireLoop(d)
    BY <1>1, <1>5, TidyExpire
  <1>6. ASSUME NEW k \in Calls, ServeStep(d, k) PROVE Tidy(d)'
    BY <1>1, <1>6, TidyServe
  <1>7. CASE TcpRefused(d) \/ TcpReply(d) \/ TcpInsert(d) \/ TcpConnLost(d) \/ TcpClose(d)
             \/ PassLoop(d) \/ ReadFails(d)
    <2>1. UNCHANGED <<inbox, outbox, kpc, result, ranAt>>
      BY <1>7 DEF TcpRefused, TcpReply, TcpInsert, TcpConnLost, TcpClose, PassLoop, ReadFails
    <2>2. alive'[d] => alive[d]
      BY <1>7 DEF TcpRefused, TcpReply, TcpInsert, TcpConnLost, TcpClose, PassLoop, ReadFails,
                  HelloRefused, HelloReply, InsertSession, ConnLost, CloseSession, Types,
                  HandshakeTypeOK
    <2> QED
      BY <1>3, <2>1, <2>2
  <1>8. ASSUME NEW c \in Conns, c # d, TaskOf(c) PROVE Tidy(d)'
    BY <1>3, <1>8, TaskFrame
  <1>9. ASSUME NEW k \in Calls, CallStep(k), ConnOf[k] # d PROVE Tidy(d)'
    BY <1>3, <1>9, CallFrame
  <1>10. ASSUME NEW k \in Calls, CallStep(k), ConnOf[k] = d PROVE Tidy(d)'
    BY <1>1, <1>10, TidyCall
  <1>11. CASE GcLoop \/ ClockTick \/ UNCHANGED vars
    BY <1>3, <1>11 DEF GcLoop, ClockTick
  <1> QED
    BY <1>4, <1>5, <1>6, <1>7, <1>8, <1>9, <1>10, <1>11
    DEF Next, ConnTask, TaskOf, ServeStep, CallStep

-----------------------------------------------------------------------------
(* The theorems. *)

(* The initial state satisfies the invariant. *)
LEMMA InvInit == Init => IndInv
  <1> SUFFICES ASSUME Init PROVE IndInv
    OBVIOUS
  <1>1. Types /\ HandshakeInv /\ TableInv
    BY TypesInit, SharedInit DEF Init
  <1>2. /\ \A c \in Conns : /\ cpc[c] = "none" /\ tpc[c] = "check"
                            /\ inbox[c] = <<>> /\ outbox[c] = <<>>
        /\ \A k \in Calls : /\ kpc[k] = "idle" /\ ~Ran(k) /\ ConnOf[k] \in Conns
                            /\ result[k].status = "none" /\ result[k].of = NoCall
    BY TcpAssumption DEF Init, HandshakeInit, Ran, None
  <1>3. LoopInv /\ CallInv /\ WireInv /\ LateInv /\ TidyInv
    <2>1. LoopInv /\ CallInv /\ LateInv
      BY <1>2 DEF LoopInv, LoopOK, CallInv, CallOK, LateInv, LateOK
    <2>2. \A c \in Conns : Len(inbox[c]) = 0 /\ Len(outbox[c]) = 0
      BY <1>2
    <2>3. WireInv
      BY <1>2, <2>2 DEF WireInv, WireOK
    <2>4. ASSUME NEW c \in Conns PROVE Tidy(c)
      <3> DEFINE a == Len(inbox[c])
                 b == Len(outbox[c])
      <3>1. a = 0 /\ b = 0
        BY <2>2
      <3> HIDE DEF a, b
      <3>2. a + b <= 1 /\ \A i \in 1 .. a : FALSE
        BY <3>1
      <3>3. \A i \in 1 .. b : FALSE
        BY <3>1
      <3>4. \A k \in Calls : result[k].of = NoCall /\ kpc[k] # "sent"
        BY <1>2
      <3> QED
        BY <3>2, <3>3, <3>4 DEF Tidy, a, b
    <2> QED
      BY <2>1, <2>3, <2>4 DEF TidyInv
  <1>4. ASSUME NEW c \in Conns PROVE Bounded(c)
    <2>1. PICK n \in Nat : n = Cardinality(Written)
      BY <1>1, WrittenCount
    <2>2. Extra(c) = 0 /\ Len(inbox[c]) = 0 /\ Len(outbox[c]) = 0 /\ cpc[c] = "none"
      BY <1>2 DEF Extra
    <2> QED
      BY <2>1, <2>2 DEF Bounded
  <1> QED
    BY <1>1, <1>3, <1>4 DEF IndInv, BoundInv

(* The invariant is inductive. *)
THEOREM TcpInductive == Spec => []IndInv
  <1>1. ASSUME IndInv, [Next]_vars PROVE IndInv'
    <2>1. Types' /\ HandshakeInv' /\ TableInv'
      BY <1>1, TypesNext, SharedHandshake, SharedTable, NextShared DEF IndInv, Types
    <2>2. LoopInv' /\ CallInv' /\ WireInv'
      BY <1>1, LoopNext, CallNext, WireNext DEF IndInv
    <2>3. BoundInv' /\ LateInv' /\ TidyInv'
      BY <1>1, BoundNext, LateNext, TidyNext DEF IndInv
    <2> QED
      BY <2>1, <2>2, <2>3 DEF IndInv
  <1> QED
    BY <1>1, InvInit, PTL DEF Spec

(* Every variable has its type, and the queues of a connection never hold    *)
(* more than one frame per call and one frame that no call asked for         *)
(* (handle_tcp_connection answers a request once).                           *)
THEOREM TcpTypeCorrect == Spec => []TypeOK
  <1>1. ASSUME IndInv, NEW c \in Conns
        PROVE  /\ Len(inbox[c]) <= Cardinality(Calls) + 1
               /\ Len(outbox[c]) <= Cardinality(Calls) + 1
    <2>1. PICK n \in Nat, m \in Nat : n = Cardinality(Written) /\ m = Cardinality(Calls) /\ n <= m
      BY <1>1, WrittenCount DEF IndInv
    <2>2. PICK a \in Nat, b \in Nat : a = Len(inbox[c]) /\ b = Len(outbox[c])
      BY <1>1, Emptied DEF IndInv, Types
    <2>3. PICK e \in {0, 1} : e = Extra(c)
      BY DEF Extra
    <2>4. a + b <= n + e \/ (a <= n + 1 /\ b <= e)
      BY <1>1, <2>1, <2>2, <2>3 DEF IndInv, BoundInv, Bounded
    <2>5. a <= m + 1 /\ b <= m + 1
      BY <2>1, <2>4
    <2> QED
      BY <2>1, <2>2, <2>5
  <1>2. IndInv => TypeOK
    BY <1>1 DEF IndInv, Types, TypeOK
  <1> QED
    BY <1>2, TcpInductive, PTL

(* Whoever a handler is told has called it did call it, and holds that id's  *)
(* secret, for any number of connections and any bytes left in their streams *)
(* (decode_request under the session's key).                                 *)
THEOREM TcpIdentity == Spec => []HandlerIdentity
  <1>1. ASSUME IndInv, NEW k \in Calls, Ran(k)
        PROVE  LET c == ConnOf[k] IN Derived(c) /\ skey[c] = ClientKey(c)
    <2>1. ConnOf[k] \in Conns
      BY TcpAssumption
    <2>2. ClientKey(ConnOf[k]) # NoKey
      BY <1>1, <2>1, ClientKeyType DEF IndInv, Types
    <2>3. skey[ConnOf[k]] = ClientKey(ConnOf[k])
      BY <1>1 DEF IndInv, CallInv, CallOK
    <2> QED
      BY <1>1, <2>1, <2>2, <2>3 DEF IndInv, HandshakeInv
  <1>2. IndInv => HandlerIdentity
    BY <1>1, EqualKeys, TcpAssumption DEF IndInv, Types, HandlerIdentity
  <1> QED
    BY <1>2, TcpInductive, PTL

(* Only a handler's panic leaves a session in the table whose task is gone   *)
(* (sessions.delete after the loop of handle_tcp_connection).                *)
THEOREM LeakCaused == Spec => []LeakOnlyByPanic
  <1>1. ASSUME IndInv, NEW i \in DOMAIN sessions
        PROVE  \E c \in Conns : /\ sid[c] = i
                                /\ cpc[c] = "serving" \/ tpc[c] = "panicked"
                                /\ sessions[i].key = skey[c]
    <2>1. PICK c \in Conns : sid[c] = i /\ HandshakeOver(c)
      BY <1>1 DEF IndInv, TableInv
    <2>2. sessions[i].key = skey[c]
      <3>1. sessions[i] = OwnRecord(c)
        BY <1>1, <2>1 DEF IndInv, TableInv, Live
      <3> QED
        BY <3>1 DEF OwnRecord
    <2>3. cpc[c] = "serving" \/ tpc[c] = "panicked"
      BY <1>1, <2>1 DEF IndInv, LoopInv, LoopOK, HandshakeOver, Live
    <2> QED
      BY <2>1, <2>2, <2>3
  <1>2. IndInv => LeakOnlyByPanic
    BY <1>1 DEF LeakOnlyByPanic
  <1> QED
    BY <1>2, TcpInductive, PTL

(* While its session is in the table, a connection is served at most one     *)
(* request past max_lifetime (the check precedes the read in                 *)
(* handle_tcp_connection).                                                   *)
THEOREM LateBounded == Spec => []LateOnlyAfterGc
  <1>1. ASSUME NEW S, \A x, y \in S : x = y PROVE Cardinality(S) \in {0, 1}
    <2>1. CASE S = {}
      BY <2>1, FS_EmptySet
    <2>2. ASSUME NEW x \in S PROVE Cardinality(S) = 1
      <3>1. S = {x}
        BY <1>1
      <3> QED
        BY <3>1, FS_Singleton
    <2> QED
      BY <2>1, <2>2
  <1>2. ASSUME IndInv, NEW c \in Conns, cpc[c] = "serving", Cardinality(Late(c)) > 1,
               Live(sid[c])
        PROVE  FALSE
    <2>1. \A k, q \in Late(c) : k = q
      BY <1>2 DEF IndInv, LateInv, LateOK
    <2>2. Cardinality(Late(c)) \in {0, 1}
      BY <1>1, <2>1
    <2> QED
      BY <1>2, <2>2
  <1>3. IndInv => LateOnlyAfterGc
    BY <1>2 DEF LateOnlyAfterGc
  <1> QED
    BY <1>3, TcpInductive, PTL

(* A call returns the answer of another only if some call of its connection  *)
(* was dropped (do_tcp reads the next frame, whatever its sequence number).  *)
THEOREM ShiftCaused == Spec => []ShiftOnlyByAbandon
  <1>1. ASSUME IndInv, NEW k \in Calls, result[k].of \notin {k, NoCall}
        PROVE  \E q \in Calls \ {k} : ConnOf[q] = ConnOf[k] /\ result[q].status = "dropped"
    <2>1. ConnOf[k] \in Conns
      BY TcpAssumption
    <2>2. ~Tidy(ConnOf[k])
      BY <1>1 DEF Tidy
    <2>3. ~Clean(ConnOf[k])
      BY <1>1, <2>1, <2>2 DEF IndInv, TidyInv
    <2>4. PICK q \in Calls : ConnOf[q] = ConnOf[k] /\ result[q].status = "dropped"
      BY <2>3 DEF Clean
    <2>5. result[q].of = NoCall
      BY <1>1, <2>4 DEF IndInv, CallInv, CallOK
    <2> QED
      BY <1>1, <2>4, <2>5
  <1>2. IndInv => ShiftOnlyByAbandon
    BY <1>1 DEF ShiftOnlyByAbandon
  <1> QED
    BY <1>2, TcpInductive, PTL

-----------------------------------------------------------------------------
(* The refinement. *)

(* Serving a request runs the handler of a call that may still run, or       *)
(* answers without running it.                                               *)
LEMMA ServeRefines ==
    ASSUME IndInv, "abandon" \notin Faults,
           NEW c \in Conns, NEW k \in Calls, ServeStep(c, k)
    PROVE  [Abstract!Next]_(Abstract!rpcVars)
  <1> DEFINE calledBar == [q \in Calls |-> kpc[q] # "idle"]
             ranBar == [q \in Calls |-> Ran(q)]
             resultBar == [q \in Calls |-> result[q].status]
  <1>1. UNCHANGED <<kpc, result>> /\ ranAt' \in {ranAt, [ranAt EXCEPT ![k] = now]}
    BY ONLY ServeShape, ServeStep(c, k), c \in Conns, k \in Calls
  <1>2. UNCHANGED <<calledBar, resultBar>>
    BY <1>1
  <1>3. CASE ranAt' = ranAt
    BY <1>2, <1>3 DEF Ran, Abstract!rpcVars
  <1>4. CASE ranAt' = [ranAt EXCEPT ![k] = now]
    <2>1. /\ ConnOf[k] = c /\ inbox[c] # <<>> /\ inbox[c][1] = k /\ tpc[c] = "read"
          /\ cpc[c] = "serving" /\ kpc[k] \in {"sent", "done"}
      BY ServedOwn DEF IndInv
    <2>2. inbox[c] \in Seq(Calls \cup {Torn, Junk})
      BY DEF IndInv, Types
    <2>3. 1 \in 1 .. Len(inbox[c]) /\ Head(inbox[c]) = k
      BY <2>1, <2>2, Taken
    <2>4. Reading(c) /\ ~Truncated(cred[c])
      BY <2>1, <2>3, TcpAssumption DEF IndInv, BoundInv, Bounded, Reading
    <2>5. Tidy(c)
      BY DEF IndInv, TidyInv, Clean, CallInv, CallOK
    <2>6. PendingOK(c, k)
      BY <2>1, <2>3, <2>4, <2>5 DEF Tidy
    <2>7. Ran(k)' /\ ~Ran(k) /\ \A q \in Calls \ {k} : Ran(q)' = Ran(q)
      BY <1>4, <2>6 DEF PendingOK, Ran, Never, IndInv, Types, HandshakeTypeOK, Times
    <2>8. ranBar' = [ranBar EXCEPT ![k] = TRUE] /\ ~ranBar[k] /\ calledBar[k]
      BY <2>1, <2>7
    <2>9. resultBar[k] \notin Abstract!Refusals
      BY <2>6 DEF PendingOK, Abstract!Refusals
    <2> QED
      BY <1>2, <2>8, <2>9 DEF Abstract!Next, Abstract!Run
  <1> QED
    BY <1>1, <1>3, <1>4

(* What a call does is a call, the return of one, or nothing to the abstract *)
(* state.                                                                    *)
LEMMA CallRefines ==
    ASSUME IndInv, "abandon" \notin Faults, "oversize" \notin Faults,
           NEW k \in Calls, CallStep(k)
    PROVE  [Abstract!Next]_(Abstract!rpcVars)
  <1> DEFINE c == ConnOf[k]
             calledBar == [q \in Calls |-> kpc[q] # "idle"]
             ranBar == [q \in Calls |-> Ran(q)]
             resultBar == [q \in Calls |-> result[q].status]
             out == outbox[c]
  <1>1. ranAt' = ranAt /\ \A q \in Calls \ {k} : kpc'[q] = kpc[q] /\ result'[q] = result[q]
    BY CallFrame DEF IndInv
  <1>2. ranBar' = ranBar
    BY <1>1 DEF Ran
  <1>3. c \in Conns /\ CallOK(k) /\ Tidy(c) /\ WireOK(c)
    BY TcpAssumption DEF IndInv, TidyInv, Clean, CallInv, CallOK, WireInv
  <1>4. /\ kpc \in [Calls -> {"idle", "waiting", "sent", "done"}]
        /\ out \in Seq(Responses)
        /\ result \in [Calls -> [status : Statuses \cup {"none", "error", "dropped"},
                                 of : Calls \cup {NoCall}]]
    BY <1>3 DEF IndInv, Types
  <1>5. \A v : result'[k].status = v => resultBar' = [resultBar EXCEPT ![k] = v]
    BY <1>1
  <1>6. ASSUME kpc'[k] # "idle", kpc[k] # "idle" PROVE calledBar' = calledBar /\ calledBar[k]
    BY <1>1, <1>6
  <1>7. CASE CallStart(k)
    <2>1. kpc[k] = "idle" /\ kpc'[k] # "idle"
      BY <1>4, <1>7 DEF CallStart
    <2>2. calledBar' = [calledBar EXCEPT ![k] = TRUE] /\ ~calledBar[k]
      BY <1>1, <2>1
    <2>3. resultBar' \in {resultBar, [resultBar EXCEPT ![k] = "error"]}
      <3>1. result' = result \/ result'[k].status = "error"
        BY <1>4, <1>7 DEF CallStart
      <3> QED
        BY <1>5, <3>1
    <2> QED
      BY <1>2, <2>2, <2>3 DEF Abstract!Next, Abstract!Call
  <1>8. CASE CallWrite(k)
    <2>1. kpc[k] # "idle" /\ kpc'[k] # "idle" /\ result' = result
      BY <1>4, <1>8 DEF CallWrite
    <2> QED
      BY <1>2, <1>6, <2>1 DEF Abstract!rpcVars
  <1>9. ASSUME NEW v, result'[k].status = v, kpc[k] \in {"waiting", "sent"}, kpc'[k] = "done",
               v \in Statuses \cup {"error"},
               v \in {"Handled", "InternalError"} => Ran(k),
               v \in {"NotFound", "BadRequest", "SessionExpired"} => ~Ran(k)
        PROVE  Abstract!Next
    <2>1. resultBar' = [resultBar EXCEPT ![k] = v] /\ resultBar[k] = "none"
      BY <1>3, <1>5, <1>9 DEF CallOK
    <2>2. calledBar' = calledBar /\ calledBar[k]
      BY <1>6, <1>9
    <2>3. ranBar[k] = Ran(k)
      OBVIOUS
    <2>4. v \in Abstract!Answers \cup Abstract!Refusals \cup Abstract!Unknown
      BY <1>9 DEF Statuses, Abstract!Answers, Abstract!Refusals, Abstract!Unknown
    <2>5. Abstract!Return(k, v)
      BY <1>2, <1>9, <2>1, <2>2, <2>3 DEF Abstract!Return, Abstract!Answers, Abstract!Refusals
    <2> QED
      BY <2>4, <2>5 DEF Abstract!Next
  <1>10. CASE CallRead(k)
    <2>1. kpc[k] = "sent" /\ kpc'[k] = "done" /\ out # <<>>
      BY <1>4, <1>10 DEF CallRead, Return
    <2>2. 1 \in 1 .. Len(out) /\ Head(out) = out[1] /\ out[1] \in Responses
      BY <1>4, <2>1, Taken, Emptied
    <2>3. FrameOK(c, 1)
      BY <1>3, <2>2 DEF Tidy
    <2>4. out[1].status \in Statuses /\ out[1].of \in {k, NoCall} /\ NoCall # k
      <3>1. out[1].status \in Statuses \cup {"torn"} /\ out[1].of \in Calls \cup {NoCall}
        BY <2>2 DEF Responses
      <3>2. out[1].of \in Calls => out[1].of = k
        BY <1>3, <2>1, <2>2, <2>3 DEF FrameOK, WireOK, CallOK
      <3> QED
        BY <2>3, <3>1, <3>2, TcpAssumption DEF FrameOK
    <2>5. /\ out[1].status \in {"Handled", "InternalError"} => Ran(k)
          /\ out[1].status \in {"NotFound", "BadRequest", "SessionExpired"} => ~Ran(k)
      <3>1. CASE out[1].of = k
        BY <2>3, <3>1 DEF FrameOK
      <3>2. CASE out[1].of = NoCall
        <4>1. out[1].status = "SessionExpired"
          BY <2>3, <3>2 DEF FrameOK
        <4>2. ~Ran(k)
          BY <1>3, <2>1, <2>4, <3>2 DEF Tidy
        <4> QED
          BY <4>1, <4>2
      <3> QED
        BY <2>4, <3>1, <3>2
    <2>6. result'[k] \in {out[1], Error}
      BY <1>4, <1>10, <2>2 DEF CallRead, Return, Decoded
    <2>7. CASE result'[k] = out[1]
      BY <1>9, <2>1, <2>4, <2>5, <2>7
    <2>8. CASE result'[k] = Error
      BY <1>9, <2>1, <2>8 DEF Error
    <2> QED
      BY <2>6, <2>7, <2>8
  <1>11. CASE CallFails(k)
    <2>1. kpc[k] \in {"waiting", "sent"} /\ kpc'[k] = "done" /\ result'[k].status = "error"
      BY <1>4, <1>11 DEF CallFails, Return, Error
    <2> QED
      BY <1>9, <2>1
  <1> QED
    BY <1>7, <1>8, <1>10, <1>11 DEF CallStep, ClientTask, AbandonWrite, AbandonRead

(* Where no caller drops a call and no handler's response is larger than a   *)
(* frame, the TCP service implements the abstract call whatever else fails:  *)
(* a handler runs at most once for a call, its answer is returned only if it *)
(* ran, and a caller that received a refusal, even an unasked                *)
(* SessionExpired, knows that it did not run and never will (do_tcp with     *)
(* handle_tcp_connection).                                                   *)
THEOREM TcpImplementsRpc ==
    ASSUME "abandon" \notin Faults, "oversize" \notin Faults
    PROVE  Spec => ImplementsRpc
  <1>1. ASSUME Init PROVE Abstract!Init
    <2>1. \A k \in Calls : (kpc[k] # "idle") = FALSE /\ Ran(k) = FALSE
      BY <1>1 DEF Init, Ran
    <2>2. /\ [k \in Calls |-> kpc[k] # "idle"] = [k \in Calls |-> FALSE]
          /\ [k \in Calls |-> Ran(k)] = [k \in Calls |-> FALSE]
      BY <2>1, Zenon
    <2>3. [k \in Calls |-> result[k].status] = [k \in Calls |-> "none"]
      BY <1>1 DEF Init, None
    <2> QED
      BY <2>2, <2>3 DEF Abstract!Init
  <1>2. ASSUME IndInv, [Next]_vars PROVE [Abstract!Next]_(Abstract!rpcVars)
    <2>1. ASSUME UNCHANGED <<kpc, result, ranAt>> PROVE UNCHANGED Abstract!rpcVars
      BY <2>1 DEF Abstract!rpcVars, Ran
    <2>2. ASSUME NEW c \in Conns, TaskOf(c), \A k \in Calls : ~ServeStep(c, k)
          PROVE  UNCHANGED <<kpc, result, ranAt>>
      BY <2>2 DEF TaskOf, ConnTask, ServeStep, TcpAccept, TcpConnLost, TcpRefused, TcpReply,
                  TcpInsert, ExpireLoop, PassLoop, ReadFails, TcpClose
    <2>3. CASE GcLoop \/ ClockTick \/ UNCHANGED vars
      BY <2>1, <2>3 DEF GcLoop, ClockTick
    <2> QED
      BY <1>2, <2>1, <2>2, <2>3, ServeRefines, CallRefines DEF Next, TaskOf, CallStep
  <1> QED
    BY <1>1, <1>2, TcpInductive, PTL DEF Spec, ImplementsRpc, Abstract!Spec

=============================================================================
