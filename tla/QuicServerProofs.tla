-------------------------- MODULE QuicServerProofs --------------------------
(***************************************************************************)
(* Proofs about QuicServer for every value of its constants.               *)
(***************************************************************************)
EXTENDS QuicServer, HandshakeProofs

USE DEF hsVars, reqVars, vars

-----------------------------------------------------------------------------
(* The request tasks and the clients leave the table, the connections and    *)
(* the clock alone.                                                          *)
LEMMA RequestFrame ==
    ASSUME NEW r \in Reqs, RequestStep(r)
    PROVE  UNCHANGED <<now, sessions, hsVars, op>>
  BY DEF RequestStep, RequestTask, ClientTask, OpenStream, OpenFails, AcceptStream,
         ExpireStream, PassCheck, FetchKey, touch, ReadFails, NotFound, RunSync,
         StartStream, StreamWrite, StreamEnd, ClientRecv, ClientLost, ClientCancel

(* Every step of the QUIC server is one that HandshakeProofs speaks of. *)
LEMMA NextShared ==
    ASSUME [Next]_vars
    PROVE  SharedStep
  <1>1. ASSUME NEW c \in Conns, ConnStep(c) PROVE SharedStep
    BY <1>1 DEF ConnStep, ConnTask, QuicAccept, QuicRefused, QuicReply, QuicInsert, EndLoop,
                QuicConnLost, SharedStep, TaskStep
  <1>2. ASSUME NEW r \in Reqs, RequestStep(r) PROVE SharedStep
    BY <1>2, RequestFrame DEF SharedStep
  <1> QED
    BY <1>1, <1>2 DEF Next, GcLoop, ClockTick, SharedStep

-----------------------------------------------------------------------------
(* Type correctness. *)

(* Respond leaves a frame of the stream's type, whatever the key. *)
LEMMA RespondType ==
    ASSUME NEW r \in Reqs, frame \in [Reqs -> Frames],
           NEW status \in Statuses, NEW key \in Keys \cup {NoKey},
           Respond(r, status, key)
    PROVE  frame' \in [Reqs -> Frames]
  BY DEF Respond, Frames, Fin

(* The initial state is well typed. *)
LEMMA TypeInit == Init => TypeOK
  BY ClockAssumption, HandshakeAssumption
  DEF Init, StoreInit, HandshakeInit, TypeOK, HandshakeTypeOK, Times, Frames,
      Pending, Results

(* Steps of the client and of the request tasks keep the types. *)
LEMMA TypeRequest ==
    ASSUME TypeOK, NEW r \in Reqs, RequestStep(r)
    PROVE  TypeOK'
  <1>1. HandshakeTypeOK' /\ op' \in Workloads
    BY RequestFrame DEF TypeOK, HandshakeTypeOK
  <1> USE QuicAssumption DEF TypeOK, Goto, Results
  <1>2. CASE OpenStream(r) \/ OpenFails(r)
    BY <1>1, <1>2 DEF OpenStream, OpenFails
  <1>3. CASE AcceptStream(r) \/ StartStream(r)
    BY <1>1, <1>3 DEF AcceptStream, StartStream
  <1>4. CASE ExpireStream(r)
    <2>1. sessions[sid[ConnOf[r]]].key \in Keys \cup {NoKey}
      BY <1>4 DEF ExpireStream, Live, HandshakeTypeOK, Session
    <2> QED
      BY <1>1, <1>4, <2>1, RespondType DEF ExpireStream, Statuses
  <1>5. CASE PassCheck(r)
    BY <1>1, <1>5 DEF PassCheck, HandshakeTypeOK
  <1>6. CASE FetchKey(r)
    BY <1>1, <1>6 DEF FetchKey, Live, HandshakeTypeOK, Session
  <1>7. CASE ReadFails(r) \/ NotFound(r)
    BY <1>1, <1>7, RespondType DEF ReadFails, NotFound, Statuses
  <1>8. CASE RunSync(r)
    <2>1. \/ Respond(r, "Handled", rkey[r])
          \/ Respond(r, "InternalError", rkey[r])
          \/ frame' = [frame EXCEPT ![r] = Fin]
      BY <1>8 DEF RunSync
    <2>2. CASE frame' = [frame EXCEPT ![r] = Fin]
      BY <1>1, <1>8, <2>2 DEF RunSync, Frames, Fin
    <2>3. CASE Respond(r, "Handled", rkey[r]) \/ Respond(r, "InternalError", rkey[r])
      BY <1>1, <1>8, <2>3, RespondType DEF RunSync, Statuses
    <2> QED
      BY <2>1, <2>2, <2>3
  <1>9. CASE StreamWrite(r)
    BY <1>1, <1>9, RespondType DEF StreamWrite, Statuses
  <1>10. CASE StreamEnd(r)
    BY <1>1, <1>10 DEF StreamEnd, Frames, Fin
  <1>11. CASE ClientRecv(r)
    BY <1>1, <1>11 DEF ClientRecv, Frames
  <1>12. CASE ClientLost(r) \/ ClientCancel(r)
    BY <1>1, <1>12 DEF ClientLost, ClientCancel
  <1> QED
    BY <1>2, <1>3, <1>4, <1>5, <1>6, <1>7, <1>8, <1>9, <1>10, <1>11, <1>12
    DEF RequestStep, RequestTask, ClientTask

(* Every step keeps the types. *)
LEMMA TypeNext ==
    ASSUME TypeOK, HandshakeInv, [Next]_vars
    PROVE  TypeOK'
  <1>1. HandshakeTypeOK'
    BY SharedType, NextShared DEF TypeOK
  <1>2. ASSUME UNCHANGED reqVars PROVE TypeOK'
    BY <1>1, <1>2 DEF TypeOK
  <1>3. ASSUME NEW c \in Conns, ConnStep(c) PROVE UNCHANGED reqVars
    BY <1>3 DEF ConnStep, ConnTask, QuicAccept, QuicRefused, QuicReply, QuicInsert,
                EndLoop, QuicConnLost
  <1> QED
    BY <1>2, <1>3, TypeRequest DEF Next, GcLoop, ClockTick

-----------------------------------------------------------------------------
(* The session table. *)

(* The owner of a record is unique, so its age is that of the connection.    *)
LEMMA OwnerAge ==
    ASSUME TypeOK, HandshakeInv, StoreInv, NEW c \in Conns,
           cpc[c] \in {"serving", "closed"}, Live(sid[c])
    PROVE  /\ cpc[c] = "serving"
           /\ sessions[sid[c]].created_at = born[c]
           /\ sessions[sid[c]].last_used = born[c]
           /\ sessions[sid[c]].key = skey[c]
  <1>1. sid[c] # 0
    BY DEF HandshakeInv
  <1>2. PICK d \in Conns :
          /\ sid[d] = sid[c] /\ cpc[d] = "serving"
          /\ sessions[sid[c]].key = skey[d]
          /\ sessions[sid[c]].created_at = born[d]
    BY DEF StoreInv, SessionsOwned, Live
  <1>3. d = c
    BY <1>1, <1>2 DEF HandshakeInv
  <1> QED
    BY <1>2, <1>3 DEF StoreInv, NeverTouched, Live

(* Every step keeps the table's sessions owned, untouched and present. *)
LEMMA StoreNext ==
    ASSUME TypeOK, HandshakeInv, StoreInv, [Next]_vars
    PROVE  StoreInv'
  <1> USE DEF TypeOK, HandshakeTypeOK
  <1>1. ASSUME UNCHANGED <<now, sessions, hsVars>> PROVE StoreInv'
    BY <1>1 DEF StoreInv, SessionsOwned, NeverTouched, ServedUntilOutlived, Live, Outlived
  <1>2. ASSUME NEW r \in Reqs, RequestStep(r) PROVE StoreInv'
    BY <1>1, <1>2, RequestFrame
  <1>3. ASSUME NEW c \in Conns, ConnStep(c) PROVE StoreInv'
    <2>1. CASE QuicAccept(c) \/ QuicRefused(c) \/ QuicReply(c) \/ QuicConnLost(c)
      <3>1. /\ UNCHANGED <<now, sessions, born>>
            /\ \A d \in Conns : cpc[d] = "serving" <=> cpc'[d] = "serving"
            /\ \A d \in Conns : cpc[d] = "serving" =>
                  /\ sid'[d] = sid[d] /\ skey'[d] = skey[d]
                  /\ api_key_id'[d] = api_key_id[d]
        BY <2>1 DEF QuicAccept, QuicRefused, QuicReply, QuicConnLost,
                    Accept, HelloRefused, HelloReply, ConnLost
      <3> QED
        BY <3>1 DEF StoreInv, SessionsOwned, NeverTouched, ServedUntilOutlived,
                    Live, Outlived
    <2>2. CASE QuicInsert(c)
      <3> DEFINE s == NewSession(api_key_id[c], skey[c])
      <3>1. /\ DOMAIN sessions' = DOMAIN sessions \cup {sid[c]}
            /\ sessions'[sid[c]] = s
            /\ \A i \in DOMAIN sessions \ {sid[c]} : sessions'[i] = sessions[i]
        BY <2>2 DEF QuicInsert, InsertSession, insert
      <3>2. /\ s.key = skey[c] /\ s.api_key_id = api_key_id[c]
            /\ s.created_at = now /\ s.last_used = now
        BY DEF NewSession
      <3>3. /\ cpc[c] = "replied" /\ cpc' = [cpc EXCEPT ![c] = "serving"]
            /\ born' = [born EXCEPT ![c] = now]
            /\ UNCHANGED <<now, sid, skey, api_key_id>>
        BY <2>2 DEF QuicInsert, InsertSession
      <3> HIDE DEF s
      <3>4. SessionsOwned'
        BY <3>1, <3>2, <3>3 DEF StoreInv, SessionsOwned
      <3>5. NeverTouched'
        BY <3>1, <3>2 DEF StoreInv, NeverTouched
      <3>6. ServedUntilOutlived'
        BY <3>1, <3>3 DEF StoreInv, ServedUntilOutlived, Live, Outlived
      <3> QED
        BY <3>4, <3>5, <3>6 DEF StoreInv
    <2>3. CASE EndLoop(c)
      <3>1. /\ DOMAIN sessions' = DOMAIN sessions \ {sid[c]}
            /\ \A i \in DOMAIN sessions' : sessions'[i] = sessions[i]
        BY <2>3, DeleteType DEF EndLoop, CloseSession
      <3>2. /\ cpc[c] = "serving" /\ cpc' = [cpc EXCEPT ![c] = "closed"]
            /\ UNCHANGED <<now, born, sid, skey, api_key_id>>
        BY <2>3 DEF EndLoop, CloseSession
      <3>3. SessionsOwned'
        BY <3>1, <3>2 DEF StoreInv, SessionsOwned
      <3>4. NeverTouched'
        BY <3>1 DEF StoreInv, NeverTouched
      <3>5. ServedUntilOutlived'
        BY <3>1, <3>2 DEF StoreInv, ServedUntilOutlived, HandshakeInv, Live, Outlived
      <3> QED
        BY <3>3, <3>4, <3>5 DEF StoreInv
    <2> QED
      BY <1>3, <2>1, <2>2, <2>3 DEF ConnStep, ConnTask
  <1>4. CASE GcLoop
    <2>1. /\ DOMAIN sessions' \subseteq DOMAIN sessions
          /\ \A i \in DOMAIN sessions' : sessions'[i] = sessions[i]
          /\ \A i \in DOMAIN sessions :
                i \in DOMAIN sessions' <=> Elapsed(sessions[i].created_at) <= MaxLifetime
      BY <1>4, GcType DEF GcLoop
    <2>2. UNCHANGED <<now, hsVars>>
      BY <1>4 DEF GcLoop
    <2>3. SessionsOwned' /\ NeverTouched'
      BY <2>1, <2>2 DEF StoreInv, SessionsOwned, NeverTouched
    <2>4. ASSUME NEW c \in Conns, cpc[c] = "serving", ~Outlived(c)
          PROVE  sid[c] \in DOMAIN sessions'
      <3>1. Live(sid[c])
        BY <2>4 DEF StoreInv, ServedUntilOutlived
      <3>2. sessions[sid[c]].created_at = born[c]
        BY <2>4, <3>1, OwnerAge
      <3>3. now - born[c] <= MaxLifetime
        BY <2>4, Durations DEF Outlived, Times
      <3> QED
        BY <2>1, <3>1, <3>2, <3>3 DEF Live, Elapsed
    <2>5. ServedUntilOutlived'
      BY <2>2, <2>4 DEF ServedUntilOutlived, Live, Outlived
    <2> QED
      BY <2>3, <2>5 DEF StoreInv
  <1>5. CASE ClockTick
    <2>1. /\ now' = now + 1
          /\ UNCHANGED <<sessions, hsVars>>
      BY <1>5 DEF ClockTick, Tick
    <2>2. \A c \in Conns : Outlived(c) => Outlived(c)'
      BY <2>1, Durations DEF Outlived, Times
    <2> QED
      BY <2>1, <2>2 DEF StoreInv, SessionsOwned, NeverTouched, ServedUntilOutlived, Live
  <1> QED
    BY <1>1, <1>2, <1>3, <1>4, <1>5 DEF Next


-----------------------------------------------------------------------------
(* The requests. *)

(* A step that is not one of the request's task keeps what is known of it.   *)
LEMMA Bystander ==
    ASSUME TypeOK, HandshakeInv, [Next]_vars, NEW r \in Reqs, RequestOK(r),
           rpc'[r] = rpc[r], rkey'[r] = rkey[r], passed'[r] = passed[r]
    PROVE  RequestOK(r)'
  <1> DEFINE d == ConnOf[r]
  <1>1. d \in Conns
    BY QuicAssumption
  <1>2. ClientKey(d)' = ClientKey(d)
    BY CredConstant, NextShared DEF ClientKey
  <1>3. CASE rpc[r] \in {"none", "failed", "opened"}
    BY <1>3 DEF RequestOK, Ran
  <1>4. CASE rpc[r] \notin {"none", "failed", "opened"}
    <2>1. cpc[d] \in {"serving", "closed"}
      BY <1>4 DEF RequestOK
    <2>2. /\ cpc'[d] \in {"serving", "closed"}
          /\ sid'[d] = sid[d] /\ skey'[d] = skey[d] /\ born'[d] = born[d]
          /\ ~Live(sid[d]) => sid[d] \notin DOMAIN sessions'
      BY <1>1, <2>1, Settled, NextShared DEF TypeOK, HandshakeOver
    <2> QED
      BY <1>2, <1>4, <2>2 DEF RequestOK, Ran, Fresh, Live
  <1> QED
    BY <1>3, <1>4

(* A step of a request's own task keeps what is known of the request. *)
LEMMA RequestTaskNext ==
    ASSUME TypeOK, HandshakeInv, StoreInv, NEW r \in Reqs, RequestStep(r), RequestOK(r)
    PROVE  RequestOK(r)'
  <1> DEFINE d == ConnOf[r]
  <1>1. d \in Conns
    BY QuicAssumption
  <1>2. /\ UNCHANGED <<now, sessions, hsVars>>
        /\ ClientKey(d)' = ClientKey(d)
    BY RequestFrame DEF ClientKey
  <1>3. ClientKey(d) # NoKey
    BY <1>1, ClientKeyType DEF TypeOK
  <1> USE DEF TypeOK, Goto, Ran, Fresh
  <1>4. CASE OpenStream(r) \/ OpenFails(r)
    BY <1>2, <1>4 DEF OpenStream, OpenFails, RequestOK, Live
  <1>5. CASE AcceptStream(r)
    BY <1>2, <1>5 DEF AcceptStream, RequestOK, Live
  <1>6. CASE ExpireStream(r) \/ ReadFails(r) \/ NotFound(r)
    <2>1. rpc[r] \in {"spawned", "keyed"} /\ rpc'[r] = "refused" /\ rkey' = rkey
      BY <1>6 DEF ExpireStream, ReadFails, NotFound, ReadOk
    <2> QED
      BY <1>2, <2>1 DEF RequestOK, Live
  <1>7. CASE PassCheck(r)
    <2>1. cpc[d] \in {"serving", "closed"}
      BY <1>7 DEF PassCheck, RequestOK
    <2>2. ASSUME Live(sid[d])
          PROVE  now - born[d] <= MaxLifetime /\ now - born[d] <= IdleTimeout
      <3>1. /\ sessions[sid[d]].created_at = born[d]
            /\ sessions[sid[d]].last_used = born[d]
        BY <1>1, <2>1, <2>2, OwnerAge
      <3>2. ~is_expired(sessions[sid[d]]) /\ ~is_idle_dead(sessions[sid[d]])
        BY <1>7, <2>2 DEF PassCheck
      <3> QED
        BY <1>1, <3>1, <3>2, Durations
        DEF is_expired, is_idle_dead, Elapsed, HandshakeTypeOK, Times
    <2>3. /\ passed'[r] = now /\ rpc'[r] = "checked" /\ rkey' = rkey
      BY <1>7 DEF PassCheck
    <2> QED
      BY <1>2, <2>1, <2>2, <2>3 DEF RequestOK, Live
  <1>8. CASE FetchKey(r)
    <2>1. cpc[d] \in {"serving", "closed"}
      BY <1>8 DEF FetchKey, RequestOK
    <2>2. rkey'[r] = IF Live(sid[d]) THEN sessions[sid[d]].key ELSE NoKey
      BY <1>8 DEF FetchKey
    <2>3. Live(sid[d]) => sessions[sid[d]].key = skey[d]
      BY <1>1, <2>1, OwnerAge
    <2>4. /\ rpc[r] = "checked" /\ rpc'[r] = "keyed" /\ passed' = passed
      BY <1>8 DEF FetchKey
    <2> QED
      BY <1>2, <2>1, <2>2, <2>3, <2>4 DEF RequestOK, Live
  <1>9. CASE RunSync(r) \/ StartStream(r)
    BY <1>2, <1>3, <1>9 DEF RunSync, StartStream, ReadOk, decrypts, RequestOK, Live
  <1>10. CASE StreamWrite(r) \/ StreamEnd(r)
    BY <1>2, <1>10 DEF StreamWrite, StreamEnd, RequestOK, Live
  <1>11. CASE ClientTask(r) \/ ClientCancel(r)
    BY <1>2, <1>11 DEF ClientTask, ClientRecv, ClientLost, ClientCancel, RequestOK, Live
  <1> QED
    BY <1>4, <1>5, <1>6, <1>7, <1>8, <1>9, <1>10, <1>11
    DEF RequestStep, RequestTask

(* Every step keeps what is known of every request. *)
LEMMA RequestNext ==
    ASSUME TypeOK, HandshakeInv, StoreInv, RequestInv, [Next]_vars
    PROVE  RequestInv'
  <1> SUFFICES ASSUME NEW r \in Reqs
               PROVE  RequestOK(r)'
    BY DEF RequestInv
  <1>1. RequestOK(r)
    BY DEF RequestInv
  <1>2. CASE RequestStep(r)
    BY <1>1, <1>2, RequestTaskNext
  <1>3. ASSUME NEW q \in Reqs, q # r, RequestStep(q)
        PROVE  rpc'[r] = rpc[r] /\ rkey'[r] = rkey[r] /\ passed'[r] = passed[r]
    BY <1>3
    DEF TypeOK, Goto, RequestStep, RequestTask, ClientTask, OpenStream, OpenFails,
        AcceptStream, ExpireStream, PassCheck, FetchKey, ReadFails, NotFound, RunSync,
        StartStream, StreamWrite, StreamEnd, ClientRecv, ClientLost, ClientCancel
  <1>4. ASSUME NEW c \in Conns, ConnStep(c)
        PROVE  UNCHANGED <<rpc, rkey, passed>>
    BY <1>4 DEF ConnStep, ConnTask, QuicAccept, QuicRefused, QuicReply, QuicInsert,
                EndLoop, QuicConnLost
  <1>5. CASE GcLoop \/ ClockTick \/ UNCHANGED vars
    BY <1>1, <1>5, Bystander DEF GcLoop, ClockTick
  <1> QED
    BY <1>1, <1>2, <1>3, <1>4, <1>5, Bystander DEF Next


-----------------------------------------------------------------------------
(* The answers. *)

(* A step that is not one of the request's own keeps what is known of its    *)
(* answer.                                                                   *)
LEMMA AnswerBystander ==
    ASSUME TypeOK, HandshakeInv, [Next]_vars, NEW r \in Reqs, RequestOK(r), AnswerOK(r),
           rpc'[r] = rpc[r], rkey'[r] = rkey[r], frame'[r] = frame[r],
           result'[r] = result[r]
    PROVE  AnswerOK(r)'
  <1> DEFINE d == ConnOf[r]
  <1>1. d \in Conns
    BY QuicAssumption
  <1>2. ClientKey(d)' = ClientKey(d)
    BY CredConstant, NextShared DEF ClientKey
  <1>3. CASE rpc[r] = "none"
    BY <1>3 DEF AnswerOK, Ran, Refusals, Statuses
  <1>4. CASE rpc[r] # "none"
    <2>1. skey'[d] = skey[d] /\ (~alive[d] => ~alive'[d])
      BY <1>1, <1>4, Settled, NextShared DEF AnswerOK, TypeOK, HandshakeInv
    <2>2. rpc[r] \in {"refused", "keyed"} /\ Outlived(d) => Outlived(d)'
      BY <1>1, Settled, NextShared DEF RequestOK, TypeOK, HandshakeOver
    <2>3. Caused(r) => Caused(r)'
      BY <1>2, <2>1, <2>2 DEF Caused
    <2>4. Gone(d) /\ rpc[r] \in {"refused", "keyed"} => Gone(d)'
      BY <2>1, <2>2 DEF Gone
    <2> QED
      BY <1>2, <1>4, <2>1, <2>2, <2>3, <2>4 DEF AnswerOK, Ran, Refusals
  <1> QED
    BY <1>3, <1>4

(* What Respond leaves on the stream: the frame, or its end if the key is    *)
(* empty or the connection is lost.                                          *)
LEMMA RespondFrame ==
    ASSUME NEW r \in Reqs, frame \in [Reqs -> Frames], NEW status \in Statuses,
           NEW key, Respond(r, status, key)
    PROVE  \/ frame'[r] = Fin /\ (key = NoKey \/ ~alive[ConnOf[r]])
           \/ /\ frame'[r].status = status /\ frame'[r].key = key
              /\ key # NoKey /\ alive[ConnOf[r]]
  BY DEF Respond, encrypts

(* A step of a request's own task, or of its caller, keeps what is known of  *)
(* its answer.                                                               *)
LEMMA AnswerTaskNext ==
    ASSUME TypeOK, HandshakeInv, StoreInv, NEW r \in Reqs, RequestStep(r),
           RequestOK(r), AnswerOK(r)
    PROVE  AnswerOK(r)'
  <1> DEFINE d == ConnOf[r]
  <1>1. d \in Conns
    BY QuicAssumption
  <1>2. /\ UNCHANGED <<now, sessions, hsVars>>
        /\ ClientKey(d)' = ClientKey(d)
        /\ Outlived(d)' = Outlived(d) /\ Gone(d)' = Gone(d)
    BY RequestFrame DEF ClientKey, Outlived, Gone
  <1>3. frame[r] \in Frames /\ result[r] \in Results
    BY DEF TypeOK
  <1> USE DEF Goto, Ran, Refusals, Statuses
  <1>4. CASE OpenStream(r)
    <2>1. /\ skey[d] # NoKey /\ rpc[r] = "none" /\ rpc'[r] = "opened"
          /\ UNCHANGED <<frame, result, rkey>>
      BY <1>4 DEF OpenStream, Dialed, TypeOK
    <2> QED
      BY <1>2, <2>1 DEF AnswerOK
  <1>5. CASE OpenFails(r)
    <2>1. /\ skey[d] # NoKey /\ rpc[r] = "none" /\ rpc'[r] = "failed"
          /\ result'[r] = "error" /\ UNCHANGED <<frame, rkey>>
      BY <1>5 DEF OpenFails, Dialed, TypeOK
    <2> QED
      BY <1>2, <2>1 DEF AnswerOK, Caused
  <1>6. CASE AcceptStream(r) \/ PassCheck(r) \/ StartStream(r)
    <2>1. /\ rpc[r] \in {"opened", "spawned", "keyed"}
          /\ rpc'[r] \in {"spawned", "checked", "streaming"}
          /\ UNCHANGED <<frame, result, rkey>>
      BY <1>6 DEF AcceptStream, PassCheck, StartStream, ReadOk, TypeOK
    <2>2. Caused(r) => Caused(r)'
      BY <1>2, <2>1 DEF Caused
    <2> QED
      BY <1>2, <2>1, <2>2 DEF AnswerOK
  <1>7. CASE ExpireStream(r)
    <2>1. /\ rpc[r] = "spawned" /\ rpc'[r] = "refused"
          /\ UNCHANGED <<result, rkey>>
          /\ Live(sid[d]) /\ Respond(r, "SessionExpired", sessions[sid[d]].key)
      BY <1>7 DEF ExpireStream, TypeOK
    <2>2. sessions[sid[d]].key = skey[d] /\ skey[d] # NoKey
      BY <1>1, <2>1, OwnerAge DEF RequestOK, AnswerOK
    <2>3. \/ frame'[r] = Fin /\ ~alive[d]
          \/ frame'[r].status = "SessionExpired" /\ frame'[r].key = skey[d]
      BY <2>1, <2>2, RespondFrame DEF TypeOK
    <2>4. Caused(r)'
      BY <1>2, <2>3 DEF Caused
    <2> QED
      BY <1>2, <2>1, <2>3, <2>4 DEF AnswerOK, Fin
  <1>8. CASE FetchKey(r)
    <2>1. /\ rpc[r] = "checked" /\ rpc'[r] = "keyed"
          /\ rkey'[r] = IF Live(sid[d]) THEN sessions[sid[d]].key ELSE NoKey
          /\ UNCHANGED <<frame, result>>
      BY <1>8 DEF FetchKey, TypeOK
    <2>2. cpc[d] \in {"serving", "closed"}
      BY <2>1 DEF RequestOK
    <2>3. rkey'[r] = NoKey => Gone(d)
      <3>1. Live(sid[d]) => rkey'[r] # NoKey
        BY <1>1, <2>1, <2>2, OwnerAge DEF HandshakeInv
      <3> QED
        BY <1>1, <2>2, <3>1 DEF StoreInv, ServedUntilOutlived, HandshakeInv, Gone
    <2>4. Caused(r) => Caused(r)'
      BY <1>2, <2>1 DEF Caused
    <2> QED
      BY <1>2, <2>1, <2>3, <2>4 DEF AnswerOK
  <1>9. CASE ReadFails(r)
    <2>1. /\ rpc[r] = "keyed" /\ rpc'[r] = "refused" /\ UNCHANGED <<result, rkey>>
          /\ Respond(r, "BadRequest", rkey[r])
          /\ \/ ~decrypts(rkey[r], ClientKey(d))
             \/ ~alive[d]
             \/ result[r] = "dropped"
      BY <1>9 DEF ReadFails, TypeOK
    <2>2. \/ frame'[r] = Fin /\ (rkey[r] = NoKey \/ ~alive[d])
          \/ /\ frame'[r].status = "BadRequest" /\ frame'[r].key = rkey[r]
             /\ rkey[r] # NoKey
      BY <2>1, RespondFrame DEF TypeOK
    <2>3. rkey[r] # NoKey => rkey[r] = skey[d]
      BY DEF RequestOK
    <2>4. rkey[r] = NoKey => Gone(d)
      BY <2>1 DEF AnswerOK
    <2>5. Caused(r) => Caused(r)'
      BY <1>2, <2>1 DEF Caused, AnswerOK
    <2>6. frame'[r].status = "BadRequest" =>
             result[r] = "dropped" \/ Gone(d) \/ skey[d] # ClientKey(d)
      BY <2>1, <2>2, <2>3 DEF decrypts, Gone, Fin
    <2>7. frame'[r].status = "fin" =>
             frame'[r] = Fin /\ (~alive[d] \/ Outlived(d))
      BY <2>2, <2>4 DEF Gone
    <2> QED
      BY <1>2, <2>1, <2>2, <2>3, <2>5, <2>6, <2>7 DEF AnswerOK, Fin
  <1>10. CASE NotFound(r)
    <2>1. /\ rpc[r] = "keyed" /\ rpc'[r] = "refused" /\ UNCHANGED <<result, rkey>>
          /\ Respond(r, "NotFound", rkey[r]) /\ rkey[r] # NoKey
      BY <1>10 DEF NotFound, ReadOk, decrypts, TypeOK
    <2>2. rkey[r] = skey[d]
      BY <2>1 DEF RequestOK
    <2>3. \/ frame'[r] = Fin /\ ~alive[d]
          \/ frame'[r].status = "NotFound" /\ frame'[r].key = skey[d]
      BY <2>1, <2>2, RespondFrame DEF TypeOK
    <2>4. Caused(r) => Caused(r)'
      BY <1>2, <2>1 DEF Caused, AnswerOK
    <2> QED
      BY <1>2, <2>1, <2>3, <2>4 DEF AnswerOK, Fin
  <1>11. CASE RunSync(r)
    <2>1. /\ rpc[r] = "keyed" /\ rpc'[r] = "handled" /\ UNCHANGED <<result, rkey>>
          /\ rkey[r] # NoKey
          /\ \/ Respond(r, "Handled", rkey[r])
             \/ Respond(r, "InternalError", rkey[r])
             \/ frame' = [frame EXCEPT ![r] = Fin]
      BY <1>11 DEF RunSync, ReadOk, decrypts, TypeOK
    <2>2. rkey[r] = skey[d]
      BY <2>1 DEF RequestOK
    <2>3. \/ frame'[r] = Fin
          \/ frame'[r].status \in {"Handled", "InternalError"} /\ frame'[r].key = skey[d]
      BY <2>1, <2>2, RespondFrame DEF TypeOK
    <2>4. Caused(r) => Caused(r)'
      BY <1>2, <2>1 DEF Caused, AnswerOK
    <2> QED
      BY <1>2, <2>1, <2>3, <2>4 DEF AnswerOK, Fin
  <1>12. CASE StreamWrite(r)
    <2>1. /\ rpc[r] = "streaming" /\ UNCHANGED <<rpc, result, rkey>>
          /\ Respond(r, "Handled", rkey[r])
      BY <1>12 DEF StreamWrite
    <2>2. rkey[r] = skey[d] /\ rkey[r] # NoKey
      BY <1>1, <2>1, ClientKeyType DEF RequestOK, TypeOK
    <2>3. \/ frame'[r] = Fin /\ ~alive[d]
          \/ frame'[r].status = "Handled" /\ frame'[r].key = skey[d]
      BY <2>1, <2>2, RespondFrame DEF TypeOK
    <2>4. Caused(r) => Caused(r)'
      BY <1>2, <2>1 DEF Caused, AnswerOK
    <2> QED
      BY <1>2, <2>1, <2>3, <2>4 DEF AnswerOK, Fin
  <1>13. CASE StreamEnd(r)
    <2>1. /\ rpc[r] = "streaming" /\ rpc'[r] = "handled" /\ UNCHANGED <<result, rkey>>
          /\ frame'[r] = IF frame[r] = Pending THEN Fin ELSE frame[r]
      BY <1>13 DEF StreamEnd, TypeOK
    <2>2. Caused(r) => Caused(r)'
      BY <1>2, <2>1 DEF Caused, AnswerOK
    <2> QED
      BY <1>2, <2>1, <2>2 DEF AnswerOK, Fin
  <1>14. CASE ClientRecv(r)
    <2>1. /\ result[r] = "none" /\ frame[r].status # "pending"
          /\ UNCHANGED <<rpc, rkey, frame>>
          /\ result'[r] = IF frame[r].status # "fin" /\ decrypts(ClientKey(d), frame[r].key)
                          THEN frame[r].status ELSE "error"
      BY <1>14 DEF ClientRecv, TypeOK
    <2>2. frame[r].status \in Statuses \cup {"fin"}
      BY <1>3, <2>1 DEF Frames
    <2>3. ClientKey(d) # NoKey
      BY <1>1, ClientKeyType DEF TypeOK
    <2>4. result'[r] = "error" => Caused(r)'
      BY <1>2, <2>1, <2>2, <2>3 DEF AnswerOK, Caused, decrypts
    <2>5. result'[r] = "BadRequest" => Caused(r)'
      BY <1>2, <2>1, <2>2 DEF AnswerOK, Caused, Gone
    <2> QED
      BY <1>2, <2>1, <2>2, <2>4, <2>5 DEF AnswerOK
  <1>15. CASE ClientLost(r) \/ ClientCancel(r)
    <2>1. /\ result[r] = "none" /\ rpc[r] # "none" /\ UNCHANGED <<rpc, rkey, frame>>
          /\ \/ result'[r] = "error" /\ (~alive[d] \/ frame[r].status = "SessionExpired")
             \/ result'[r] = "dropped"
      BY <1>15 DEF ClientLost, ClientCancel, TypeOK
    <2> QED
      BY <1>2, <2>1 DEF AnswerOK, Caused
  <1> QED
    BY <1>4, <1>5, <1>6, <1>7, <1>8, <1>9, <1>10, <1>11, <1>12, <1>13, <1>14, <1>15
    DEF RequestStep, RequestTask, ClientTask

(* Every step keeps what is known of every answer. *)
LEMMA AnswerNext ==
    ASSUME TypeOK, HandshakeInv, StoreInv, RequestInv, AnswerInv, [Next]_vars
    PROVE  AnswerInv'
  <1> SUFFICES ASSUME NEW r \in Reqs
               PROVE  AnswerOK(r)'
    BY DEF AnswerInv
  <1>1. RequestOK(r) /\ AnswerOK(r)
    BY DEF RequestInv, AnswerInv
  <1>2. CASE RequestStep(r)
    BY <1>1, <1>2, AnswerTaskNext
  <1>3. ASSUME NEW q \in Reqs, q # r, RequestStep(q)
        PROVE  /\ rpc'[r] = rpc[r] /\ rkey'[r] = rkey[r]
               /\ frame'[r] = frame[r] /\ result'[r] = result[r]
    BY <1>3
    DEF TypeOK, Goto, Respond, RequestStep, RequestTask, ClientTask, OpenStream, OpenFails,
        AcceptStream, ExpireStream, PassCheck, FetchKey, ReadFails, NotFound, RunSync,
        StartStream, StreamWrite, StreamEnd, ClientRecv, ClientLost, ClientCancel
  <1>4. ASSUME NEW c \in Conns, ConnStep(c)
        PROVE  UNCHANGED <<rpc, rkey, frame, result>>
    BY <1>4 DEF ConnStep, ConnTask, QuicAccept, QuicRefused, QuicReply, QuicInsert,
                EndLoop, QuicConnLost
  <1>5. CASE GcLoop \/ ClockTick \/ UNCHANGED vars
    BY <1>1, <1>5, AnswerBystander DEF GcLoop, ClockTick
  <1> QED
    BY <1>1, <1>2, <1>3, <1>4, <1>5, AnswerBystander DEF Next

-----------------------------------------------------------------------------
(* The theorems. *)

(* The initial state satisfies the inductive invariant. *)
LEMMA InvInit == Init => IndInv
  <1> SUFFICES ASSUME Init PROVE IndInv
    OBVIOUS
  <1>1. TypeOK
    BY TypeInit
  <1>2. HandshakeInv
    BY DEF Init, HandshakeInit, HandshakeInv
  <1>3. StoreInv
    BY DEF Init, StoreInit, HandshakeInit, StoreInv, SessionsOwned, NeverTouched,
           ServedUntilOutlived
  <1>4. RequestInv
    BY DEF Init, RequestInv, RequestOK, Ran
  <1>5. AnswerInv
    BY DEF Init, AnswerInv, AnswerOK, Pending, Refusals, Statuses
  <1> QED
    BY <1>1, <1>2, <1>3, <1>4, <1>5 DEF IndInv

(* The inductive invariant holds of every behaviour of the QUIC service, for *)
(* any number of connections, requests, keys and any time-outs.              *)
THEOREM Inductive == Spec => []IndInv
  <1>1. Init => IndInv
    BY InvInit
  <1>2. IndInv /\ [Next]_vars => IndInv'
    BY TypeNext, SharedHandshake, NextShared, StoreNext, RequestNext, AnswerNext
    DEF IndInv, TypeOK
  <1> QED
    BY <1>1, <1>2, PTL DEF Spec

(* Every variable keeps its type; in particular no session is stored without *)
(* a key or under the id 0.                                                  *)
THEOREM TypeCorrect == Spec => []TypeOK
  <1>1. IndInv => TypeOK
    BY DEF IndInv
  <1> QED
    BY <1>1, Inductive, PTL

(* The table never holds the session of a task that does not serve, and what *)
(* it holds is what that task inserted (handle_connection).                  *)
THEOREM OwnedAlways == Spec => []SessionsOwned
  <1>1. IndInv => SessionsOwned
    BY DEF IndInv, StoreInv
  <1> QED
    BY <1>1, Inductive, PTL

(* Nothing but age takes the session of a served connection from the table   *)
(* (SessionStore::gc).                                                       *)
THEOREM ServedAlways == Spec => []ServedUntilOutlived
  <1>1. IndInv => ServedUntilOutlived
    BY DEF IndInv, StoreInv
  <1> QED
    BY <1>1, Inductive, PTL

(* No handler runs for a request whose expiry check was late, although the   *)
(* check and the key fetch are separate critical sections                    *)
(* (handle_request_stream).                                                  *)
THEOREM ExpiryRespected == Spec => []NoHandlerAfterExpiry
  <1>1. ASSUME IndInv, NEW r \in Reqs, Ran(r) PROVE Fresh(r)
    <2>1. ClientKey(ConnOf[r]) # NoKey
      BY <1>1, ClientKeyType, QuicAssumption DEF IndInv, TypeOK
    <2> QED
      BY <1>1, <2>1 DEF IndInv, RequestInv, RequestOK, Ran
  <1>2. IndInv => NoHandlerAfterExpiry
    BY <1>1 DEF NoHandlerAfterExpiry, Fresh
  <1> QED
    BY <1>2, Inductive, PTL

(* A handler is told the identity its caller proved by its key, for every    *)
(* key store and every length of key ids (handle_connection).                *)
THEOREM IdentityAlways == Spec => []HandlerIdentity
  <1>1. ASSUME IndInv, NEW r \in Reqs, Ran(r)
        PROVE  LET c == ConnOf[r] IN Derived(c) /\ skey[c] = ClientKey(c)
    <2>1. ConnOf[r] \in Conns
      BY QuicAssumption
    <2>2. ClientKey(ConnOf[r]) # NoKey
      BY <1>1, <2>1, ClientKeyType DEF IndInv, TypeOK
    <2>3. rkey[r] = ClientKey(ConnOf[r]) /\ rkey[r] = skey[ConnOf[r]]
      BY <1>1, <2>2 DEF IndInv, RequestInv, RequestOK
    <2> QED
      BY <1>1, <2>1, <2>2, <2>3 DEF IndInv, HandshakeInv
  <1>2. IndInv => HandlerIdentity
    BY <1>1, EqualKeys, QuicAssumption DEF IndInv, TypeOK, HandlerIdentity
  <1> QED
    BY <1>2, Inductive, PTL

(* No step puts a session back into the table that has left it. *)
THEOREM GoneForGood == Spec => NoResurrection
  <1>1. IndInv /\ [Next]_vars =>
          [\A c \in Conns : cpc[c] \in {"serving", "closed"} /\ ~Live(sid[c])
                               => ~Live(sid[c])']_vars
    BY Settled, NextShared DEF IndInv, TypeOK, HandshakeOver, Live
  <1> QED
    BY <1>1, Inductive, PTL DEF Spec, NoResurrection

(* A call fails only for one of the causes the code has, whatever the order  *)
(* of collections, losses and request tasks: never because a task fetched an *)
(* empty key for a session that should be live (unwrap_or_default in         *)
(* handle_request_stream).                                                   *)
THEOREM FailureCaused == Spec => []FailureHasCause
  <1>1. IndInv => FailureHasCause
    BY DEF IndInv, AnswerInv, AnswerOK, Caused, FailureHasCause
  <1> QED
    BY <1>1, Inductive, PTL

(* A call that is made is marked in the abstract state, and no other. *)
LEMMA CallMarked ==
    ASSUME NEW r \in Reqs, NEW to \in {"opened", "failed"},
           rpc \in [Reqs -> {"none", "failed", "opened", "spawned", "checked", "keyed",
                             "streaming", "handled", "refused"}],
           rpc[r] = "none", rpc' = [rpc EXCEPT ![r] = to]
    PROVE  LET calledBar == [q \in Reqs |-> rpc[q] # "none"] IN
           /\ ~calledBar[r]
           /\ calledBar' = [calledBar EXCEPT ![r] = TRUE]
           /\ UNCHANGED [q \in Reqs |-> Ran(q)]
  <1> DEFINE calledBar == [q \in Reqs |-> rpc[q] # "none"]
             marked == [calledBar EXCEPT ![r] = TRUE]
  <1>1. /\ \A q \in Reqs : q # r => rpc'[q] = rpc[q]
        /\ rpc'[r] # "none" /\ ~Ran(r) /\ ~Ran(r)'
    BY DEF Ran
  <1>2. \A q \in Reqs : (rpc'[q] # "none") = marked[q]
    <2> TAKE q \in Reqs
    <2>1. CASE q = r
      BY <1>1, <2>1, Zenon
    <2>2. CASE q # r
      BY <1>1, <2>2, Zenon
    <2> QED
      BY <2>1, <2>2
  <1>3. calledBar' = marked
    <2> HIDE DEF marked
    <2>1. marked = [q \in Reqs |-> marked[q]]
      BY Zenon DEF marked
    <2> QED
      BY <1>2, <2>1, Zenon
  <1>4. \A q \in Reqs : Ran(q)' = Ran(q)
    BY <1>1 DEF Ran
  <1>5. UNCHANGED [q \in Reqs |-> Ran(q)]
    BY <1>4, Zenon
  <1> QED
    BY <1>1, <1>3, <1>5, Zenon

(* A step of a request is a step of the abstract call, or leaves it as it is.*)
LEMMA RequestRefines ==
    ASSUME IndInv, NEW r \in Reqs, RequestStep(r)
    PROVE  [Abstract!Next]_(Abstract!rpcVars)
  <1> USE DEF Abstract!Next, Abstract!rpcVars, Abstract!Answers, Abstract!Refusals,
              Abstract!Unknown
  <1> DEFINE calledBar == [q \in Reqs |-> rpc[q] # "none"]
             ranBar == [q \in Reqs |-> Ran(q)]
  <1>0. /\ rpc \in [Reqs -> {"none", "failed", "opened", "spawned", "checked", "keyed",
                              "streaming", "handled", "refused"}]
        /\ result \in [Reqs -> Results] /\ AnswerOK(r)
    BY DEF IndInv, TypeOK, AnswerInv
  <1>1. CASE OpenStream(r)
    <2>1. /\ rpc[r] = "none" /\ rpc' = [rpc EXCEPT ![r] = "opened"]
          /\ result' = result
      BY <1>1 DEF OpenStream, Goto
    <2>2. /\ ~calledBar[r]
          /\ calledBar' = [calledBar EXCEPT ![r] = TRUE]
          /\ ranBar' = ranBar
      BY <1>0, <2>1, CallMarked
    <2> QED
      BY <2>1, <2>2 DEF Abstract!Call
  <1>2. CASE OpenFails(r)
    <2>1. /\ rpc[r] = "none" /\ rpc' = [rpc EXCEPT ![r] = "failed"]
          /\ result' = [result EXCEPT ![r] = "error"]
      BY <1>2 DEF OpenFails, Goto
    <2>2. /\ ~calledBar[r]
          /\ calledBar' = [calledBar EXCEPT ![r] = TRUE]
          /\ ranBar' = ranBar
      BY <1>0, <2>1, CallMarked
    <2> QED
      BY <2>1, <2>2 DEF Abstract!Call
  <1>3. CASE \/ AcceptStream(r) \/ ExpireStream(r) \/ PassCheck(r) \/ FetchKey(r)
             \/ ReadFails(r) \/ NotFound(r) \/ StreamWrite(r) \/ StreamEnd(r)
    <2>1. /\ result' = result /\ rpc[r] # "none"
          /\ \/ rpc' = rpc
             \/ rpc[r] = "streaming" /\ rpc' = [rpc EXCEPT ![r] = "handled"]
             \/ \E to \in {"spawned", "checked", "keyed", "refused"} :
                   ~Ran(r) /\ rpc' = [rpc EXCEPT ![r] = to]
      BY <1>3 DEF AcceptStream, ExpireStream, PassCheck, FetchKey, ReadFails, NotFound,
                  StreamWrite, StreamEnd, ReadOk, Goto, Ran
    <2>2. calledBar' = calledBar /\ ranBar' = ranBar
      BY <1>0, <2>1 DEF Ran
    <2> QED
      BY <2>1, <2>2
  <1>4. CASE RunSync(r) \/ StartStream(r)
    <2>1. /\ rpc[r] = "keyed" /\ result' = result
          /\ \E to \in {"handled", "streaming"} : rpc' = [rpc EXCEPT ![r] = to]
      BY <1>4 DEF RunSync, StartStream, ReadOk, Goto
    <2>2. /\ calledBar[r] /\ ~ranBar[r]
          /\ calledBar' = calledBar
          /\ ranBar' = [ranBar EXCEPT ![r] = TRUE]
      BY <1>0, <2>1 DEF Ran
    <2>3. result[r] \notin Abstract!Refusals
      BY <1>0, <2>1 DEF AnswerOK, Refusals
    <2> QED
      BY <2>1, <2>2, <2>3 DEF Abstract!Run
  <1>5. CASE ClientTask(r) \/ ClientCancel(r)
    <2>1. /\ result[r] = "none" /\ rpc' = rpc
          /\ \E v \in Statuses \cup {"error", "dropped"} :
                /\ result' = [result EXCEPT ![r] = v]
                /\ v \in Statuses => frame[r].status = v
          /\ rpc[r] # "none"
      <3>1. CASE ClientRecv(r)
        <4>1. frame[r].status \in Statuses \cup {"fin"}
          BY <3>1 DEF ClientRecv, IndInv, TypeOK, Frames
        <4> DEFINE v == IF frame[r].status # "fin" /\ decrypts(ClientKey(ConnOf[r]), frame[r].key)
                        THEN frame[r].status ELSE "error"
        <4>2. /\ result[r] = "none" /\ frame[r].status # "pending" /\ rpc' = rpc
              /\ result' = [result EXCEPT ![r] = v]
          BY <3>1 DEF ClientRecv
        <4>3. v \in Statuses \cup {"error"} /\ (v \in Statuses => frame[r].status = v)
          BY <4>1 DEF Statuses
        <4>4. rpc[r] # "none"
          BY <1>0, <4>2 DEF AnswerOK
        <4> HIDE DEF v
        <4> QED
          BY <4>2, <4>3, <4>4
      <3>2. CASE ClientLost(r) \/ ClientCancel(r)
        BY <3>2 DEF ClientLost, ClientCancel, Statuses
      <3> QED
        BY <1>5, <3>1, <3>2 DEF ClientTask
    <2>2. PICK v \in Statuses \cup {"error", "dropped"} :
            /\ result' = [result EXCEPT ![r] = v]
            /\ v \in Statuses => frame[r].status = v
      BY <2>1
    <2>3. /\ calledBar[r] /\ calledBar' = calledBar /\ ranBar' = ranBar
          /\ ranBar[r] = Ran(r)
      BY <2>1 DEF Ran
    <2>4. /\ v \in Abstract!Answers => ranBar[r]
          /\ v \in Abstract!Refusals => ~ranBar[r]
      BY <1>0, <2>2, <2>3 DEF AnswerOK, Ran, Refusals, Statuses
    <2>5. v \in Abstract!Answers \cup Abstract!Refusals \cup Abstract!Unknown
      BY <2>2 DEF Statuses
    <2> QED
      BY <2>1, <2>2, <2>3, <2>4, <2>5 DEF Abstract!Return
  <1> QED
    BY <1>1, <1>2, <1>3, <1>4, <1>5 DEF RequestStep, RequestTask

(* The QUIC service implements the abstract call for any number of           *)
(* connections and requests: the handler of a call runs at most once, its    *)
(* answer is returned only if it ran, and a refusal that the caller received *)
(* means that it did not run and never will (do_quinn with                   *)
(* handle_request_stream).                                                   *)
THEOREM QuicImplementsRpc == Spec => ImplementsRpc
  <1>1. ASSUME Init PROVE Abstract!Init
    <2>1. \A r \in Reqs : (rpc[r] # "none") = FALSE /\ Ran(r) = FALSE
      BY <1>1 DEF Init, Ran
    <2>2. /\ [r \in Reqs |-> rpc[r] # "none"] = [r \in Reqs |-> FALSE]
          /\ [r \in Reqs |-> Ran(r)] = [r \in Reqs |-> FALSE]
      BY <2>1, Zenon
    <2> QED
      BY <1>1, <2>2 DEF Init, Abstract!Init
  <1>2. ASSUME IndInv, [Next]_vars PROVE [Abstract!Next]_(Abstract!rpcVars)
    <2>1. ASSUME UNCHANGED <<rpc, result>> PROVE UNCHANGED Abstract!rpcVars
      BY <2>1 DEF Abstract!rpcVars, Ran
    <2>2. ASSUME NEW c \in Conns, ConnStep(c) PROVE UNCHANGED <<rpc, result>>
      BY <2>2 DEF ConnStep, ConnTask, QuicAccept, QuicRefused, QuicReply, QuicInsert,
                  EndLoop, QuicConnLost
    <2>3. CASE GcLoop \/ ClockTick \/ UNCHANGED vars
      BY <2>1, <2>3 DEF GcLoop, ClockTick
    <2> QED
      BY <1>2, <2>1, <2>2, <2>3, RequestRefines DEF Next
  <1> QED
    BY <1>1, <1>2, Inductive, PTL DEF Spec, ImplementsRpc, Abstract!Spec

=============================================================================
