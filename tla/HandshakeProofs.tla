--------------------------- MODULE HandshakeProofs ---------------------------
(***************************************************************************)
(* What both transports rest on: lemmas about the session table and the    *)
(* connection tasks, for every value of the constants.  SharedStep is all  *)
(* that any step of either server does to the state they share.            *)
(***************************************************************************)
EXTENDS Handshake, TLAPS

USE DEF hsVars

(* A connection task that panics, or is killed in some other way: it drops   *)
(* its connection and deletes nothing.                                       *)
Dies(c) ==
    /\ cpc[c] = "serving"
    /\ cpc' = [cpc EXCEPT ![c] = "closed"]
    /\ alive' = [alive EXCEPT ![c] = FALSE]
    /\ UNCHANGED <<sessions, next_id, cred, sid, api_key_id, skey, born>>

TaskStep(c) ==
    \/ (Accept(c) \/ HelloRefused(c) \/ HelloReply(c) \/ ConnLost(c)) /\ UNCHANGED sessions
    \/ InsertSession(c)
    \/ CloseSession(c)
    \/ Dies(c)

(* The endpoint of some connections goes away. *)
EndpointLost ==
    /\ alive' \in [Conns -> BOOLEAN]
    /\ \A c \in Conns : alive'[c] => alive[c]
    /\ UNCHANGED <<sessions, next_id, cred, cpc, sid, api_key_id, skey, born>>

SharedStep ==
    \/ (\E c \in Conns : TaskStep(c)) /\ UNCHANGED now
    \/ EndpointLost /\ UNCHANGED now
    \/ gc /\ UNCHANGED <<now, hsVars>>
    \/ Tick /\ UNCHANGED <<sessions, hsVars>>
    \/ UNCHANGED <<now, sessions, hsVars>>

(* The session a task inserts. *)
OwnRecord(c) ==
    [api_key_id |-> api_key_id[c], key |-> skey[c],
     created_at |-> born[c], last_used |-> born[c]]

(* The task serves, or has returned. *)
HandshakeOver(c) == cpc[c] \in {"serving", "closed"}

(* The table holds sessions that tasks inserted, as they inserted them, and  *)
(* a session is there while its task serves and it has not outlived          *)
(* max_lifetime.                                                             *)
TableInv ==
    /\ \A i \in DOMAIN sessions : \E c \in Conns : sid[c] = i /\ HandshakeOver(c)
    /\ \A c \in Conns : HandshakeOver(c) /\ Live(sid[c]) => sessions[sid[c]] = OwnRecord(c)
    /\ \A c \in Conns : cpc[c] = "serving" => Live(sid[c]) \/ Outlived(c)

-----------------------------------------------------------------------------
(* Facts about the constants. *)

(* The two time-outs are numbers of ticks, whatever fill() replaced. *)
LEMMA Durations == MaxLifetime \in Nat /\ IdleTimeout \in Nat
  BY ClockAssumption DEF MaxLifetime, IdleTimeout, fill

(* What the client's dial derives is a key, never the empty Vec. *)
LEMMA ClientKeyType ==
    ASSUME NEW c \in Conns, HandshakeTypeOK
    PROVE  ClientKey(c) \in Keys /\ ClientKey(c) # NoKey
  BY HandshakeAssumption DEF ClientKey, SessionKey, Keys, HandshakeTypeOK

(* What the handshake derives is a key. *)
LEMMA ServerKeyType ==
    ASSUME NEW c \in Conns, HandshakeTypeOK,
           NEW aid \in SeenIds(cred[c]), KnownId(aid)
    PROVE  /\ aid \in ApiKeyIds \cup {Anonymous}
           /\ SessionKey(SeenEph(c), ServerSecret(aid)) \in Keys
  <1>1. cred[c] \in [id : ApiKeyIds \cup {Anonymous}, secret : Secrets]
    BY HandshakeAssumption DEF HandshakeTypeOK
  <1>2. aid \in ApiKeyIds \cup {Anonymous}
    BY <1>1, HandshakeAssumption DEF SeenIds
  <1>3. ServerSecret(aid) \in Secrets \cup {AnonSecret}
    BY HandshakeAssumption DEF ServerSecret, KnownId
  <1>4. SeenEph(c) \in Conns \cup {Garbage}
    BY DEF SeenEph
  <1> QED
    BY <1>2, <1>3, <1>4 DEF SessionKey, Keys

(* A server key that equals the client's comes from an id that was read      *)
(* right: the lengths of the two halves of the handshake agreed.             *)
LEMMA EqualKeys ==
    ASSUME HandshakeTypeOK, NEW c \in Conns, Derived(c), skey[c] = ClientKey(c)
    PROVE  /\ api_key_id[c] = cred[c].id
           /\ cred[c].id # Anonymous =>
                 /\ cred[c].id \in DOMAIN KeyStore
                 /\ KeyStore[cred[c].id] = cred[c].secret
  <1>1. /\ SeenEph(c) = c
        /\ ServerSecret(api_key_id[c]) =
              IF cred[c].id = Anonymous THEN AnonSecret ELSE cred[c].secret
    BY DEF Derived, ClientKey, SessionKey
  <1>2. ~Truncated(cred[c])
    BY <1>1, HandshakeAssumption DEF SeenEph
  <1>3. cred[c] \in [id : ApiKeyIds \cup {Anonymous}, secret : Secrets]
    BY HandshakeAssumption DEF HandshakeTypeOK
  <1>4. cred[c].id # Anonymous => KeyLen(cred[c]) # 0
    <2> SUFFICES ASSUME cred[c].id # Anonymous PROVE KeyLen(cred[c]) # 0
      OBVIOUS
    <2>1. IdLen[cred[c].id] \in Nat \ {0} /\ IdLen[cred[c].id] < LenModulus
      BY <1>2, <1>3, HandshakeAssumption DEF Truncated, LenModulus
    <2> QED
      BY <2>1 DEF KeyLen, LenModulus
  <1>5. api_key_id[c] = cred[c].id
    <2>1. CASE cred[c].id = Anonymous
      BY <2>1 DEF Derived, SeenIds, KeyLen
    <2>2. CASE cred[c].id # Anonymous
      BY <1>2, <1>4, <2>2 DEF Derived, SeenIds
    <2> QED
      BY <2>1, <2>2
  <1> QED
    BY <1>1, <1>5 DEF Derived, KnownId, ServerSecret

-----------------------------------------------------------------------------
(* The session store. *)

(* The collector leaves a well-typed table (SessionStore::gc). *)
LEMMA GcType ==
    ASSUME sessions \in [DOMAIN sessions -> Session], gc
    PROVE  /\ DOMAIN sessions' \subseteq DOMAIN sessions
           /\ sessions' \in [DOMAIN sessions' -> Session]
           /\ \A i \in DOMAIN sessions' : sessions'[i] = sessions[i]
           /\ \A i \in DOMAIN sessions :
                 i \in DOMAIN sessions' <=> Elapsed(sessions[i].created_at) <= MaxLifetime
  BY DEF gc

(* A delete leaves a well-typed table (SessionStore::delete). *)
LEMMA DeleteType ==
    ASSUME sessions \in [DOMAIN sessions -> Session], NEW id, delete(id)
    PROVE  /\ DOMAIN sessions' = DOMAIN sessions \ {id}
           /\ sessions' \in [DOMAIN sessions' -> Session]
           /\ \A i \in DOMAIN sessions' : sessions'[i] = sessions[i]
  BY DEF delete

(* An insert of a well-typed session leaves a well-typed table. *)
LEMMA InsertType ==
    ASSUME sessions \in [DOMAIN sessions -> Session], NEW id, NEW s \in Session,
           insert(id, s)
    PROVE  /\ DOMAIN sessions' = DOMAIN sessions \cup {id}
           /\ sessions' \in [DOMAIN sessions' -> Session]
           /\ sessions'[id] = s
           /\ \A i \in DOMAIN sessions \ {id} : sessions'[i] = sessions[i]
  BY DEF insert
-----------------------------------------------------------------------------
(* The steps on the shared state. *)

(* Nothing changes the credentials of a client, and time goes on by ticks.   *)
LEMMA CredConstant ==
    ASSUME SharedStep
    PROVE  cred' = cred /\ now' \in {now, now + 1}
  BY DEF Tick, SharedStep, TaskStep, EndpointLost, Accept, HelloRefused, HelloReply, ConnLost,
         InsertSession, CloseSession, Dies

(* HandshakeInv is needed here: the record that InsertSession puts in the    *)
(* table has a key, and a positive id, because the task replied.             *)
LEMMA SharedType ==
    ASSUME HandshakeTypeOK, HandshakeInv, SharedStep
    PROVE  HandshakeTypeOK'
  <1> USE DEF HandshakeTypeOK
  <1>1. ASSUME NEW c \in Conns, TaskStep(c), UNCHANGED now PROVE HandshakeTypeOK'
    <2>1. CASE Accept(c) /\ UNCHANGED sessions
      BY <1>1, <2>1 DEF Accept
    <2>2. CASE HelloRefused(c) /\ UNCHANGED sessions
      BY <1>1, <2>2 DEF HelloRefused
    <2>3. CASE HelloReply(c) /\ UNCHANGED sessions
      <3>1. PICK aid \in SeenIds(cred[c]) :
              /\ KnownId(aid)
              /\ api_key_id' = [api_key_id EXCEPT ![c] = aid]
              /\ skey' = [skey EXCEPT ![c] = SessionKey(SeenEph(c), ServerSecret(aid))]
        BY <2>3 DEF HelloReply
      <3>2. /\ api_key_id' \in [Conns -> ApiKeyIds \cup {Anonymous}]
            /\ skey' \in [Conns -> Keys \cup {NoKey}]
        BY <3>1, ServerKeyType
      <3> QED
        BY <1>1, <2>3, <3>2 DEF HelloReply
    <2>4. CASE ConnLost(c) /\ UNCHANGED sessions
      BY <1>1, <2>4 DEF ConnLost
    <2>5. CASE InsertSession(c)
      <3>1. /\ NewSession(api_key_id[c], skey[c]) \in Session
            /\ sid[c] \in Nat \ {0}
        BY <2>5 DEF InsertSession, HandshakeInv, NewSession, Session
      <3>2. insert(sid[c], NewSession(api_key_id[c], skey[c]))
        BY <2>5 DEF InsertSession
      <3>3. sessions \in [DOMAIN sessions -> Session]
        OBVIOUS
      <3>4. /\ sessions' \in [DOMAIN sessions' -> Session]
            /\ DOMAIN sessions' = DOMAIN sessions \cup {sid[c]}
        BY ONLY <3>1, <3>2, <3>3, InsertType
      <3> QED
        BY <1>1, <2>5, <3>1, <3>4 DEF InsertSession
    <2>6. CASE CloseSession(c)
      BY <1>1, <2>6, DeleteType DEF CloseSession
    <2>7. CASE Dies(c)
      BY <1>1, <2>7 DEF Dies
    <2> QED
      BY <1>1, <2>1, <2>2, <2>3, <2>4, <2>5, <2>6, <2>7 DEF TaskStep
  <1>2. CASE EndpointLost /\ UNCHANGED now
    BY <1>2 DEF EndpointLost
  <1>3. CASE gc /\ UNCHANGED <<now, hsVars>>
    <2>1. /\ sessions' \in [DOMAIN sessions' -> Session]
          /\ DOMAIN sessions' \subseteq DOMAIN sessions
      BY <1>3, GcType
    <2> QED
      BY <1>3, <2>1
  <1>4. CASE Tick /\ UNCHANGED <<sessions, hsVars>>
    BY <1>4, ClockAssumption DEF Tick, Times
  <1>5. CASE UNCHANGED <<now, sessions, hsVars>>
    BY <1>5
  <1> QED
    BY <1>1, <1>2, <1>3, <1>4, <1>5 DEF SharedStep

(* Ids stay unique and keys stay those of the handshake in every step. *)
LEMMA SharedHandshake ==
    ASSUME HandshakeTypeOK, HandshakeInv, SharedStep
    PROVE  HandshakeInv'
  <1> USE DEF HandshakeTypeOK
  <1>1. ASSUME NEW c \in Conns, TaskStep(c) PROVE HandshakeInv'
    <2>1. CASE Accept(c)
      BY <2>1 DEF Accept, HandshakeInv, Derived, SeenEph
    <2>2. CASE HelloRefused(c)
      BY <2>2 DEF HelloRefused, HandshakeInv, Derived, SeenEph
    <2>3. CASE HelloReply(c)
      <3>1. PICK aid \in SeenIds(cred[c]) :
              /\ KnownId(aid)
              /\ api_key_id' = [api_key_id EXCEPT ![c] = aid]
              /\ skey' = [skey EXCEPT ![c] = SessionKey(SeenEph(c), ServerSecret(aid))]
        BY <2>3 DEF HelloReply
      <3>2. SessionKey(SeenEph(c), ServerSecret(aid)) # NoKey
        BY <3>1, ServerKeyType, HandshakeAssumption
      <3> QED
        BY <2>3, <3>1, <3>2 DEF HelloReply, HandshakeInv, Derived, SeenEph
    <2>4. CASE ConnLost(c)
      BY <2>4 DEF ConnLost, HandshakeInv, Derived, SeenEph
    <2>5. CASE InsertSession(c)
      BY <2>5 DEF InsertSession, HandshakeInv, Derived, SeenEph
    <2>6. CASE CloseSession(c)
      BY <2>6 DEF CloseSession, HandshakeInv, Derived, SeenEph
    <2>7. CASE Dies(c)
      BY <2>7 DEF Dies, HandshakeInv, Derived, SeenEph
    <2> QED
      BY <1>1, <2>1, <2>2, <2>3, <2>4, <2>5, <2>6, <2>7 DEF TaskStep
  <1>2. CASE EndpointLost
    BY <1>2 DEF EndpointLost, HandshakeInv, Derived, SeenEph
  <1>3. CASE UNCHANGED hsVars
    BY <1>3 DEF HandshakeInv, Derived, SeenEph
  <1> QED
    BY <1>1, <1>2, <1>3 DEF SharedStep

(* Once a connection task has inserted its session, its id, key and age stay *)
(* what they are, and its session never enters the table again.  The key of  *)
(* a connection that was dialed, its loss and the age of its session last.   *)
LEMMA Settled ==
    ASSUME HandshakeTypeOK, HandshakeInv, SharedStep, NEW d \in Conns
    PROVE  /\ HandshakeOver(d) =>
                /\ HandshakeOver(d)'
                /\ sid'[d] = sid[d] /\ skey'[d] = skey[d] /\ born'[d] = born[d]
                /\ api_key_id'[d] = api_key_id[d]
                /\ ~Live(sid[d]) => sid[d] \notin DOMAIN sessions'
                /\ Outlived(d) => Outlived(d)'
           /\ cpc[d] = "closed" => cpc'[d] = "closed"
           /\ cpc[d] # "none" => cpc'[d] # "none"
           /\ skey[d] # NoKey => skey'[d] = skey[d]
           /\ cpc[d] # "none" /\ ~alive[d] => ~alive'[d]
  <1> USE DEF HandshakeTypeOK, Live, HandshakeOver, Outlived
  <1>1. ASSUME NEW c \in Conns, TaskStep(c), UNCHANGED now
        PROVE  /\ HandshakeOver(d) =>
                    /\ HandshakeOver(d)'
                    /\ sid'[d] = sid[d] /\ skey'[d] = skey[d] /\ born'[d] = born[d]
                    /\ api_key_id'[d] = api_key_id[d]
                    /\ ~Live(sid[d]) => sid[d] \notin DOMAIN sessions'
                    /\ Outlived(d) => Outlived(d)'
               /\ cpc[d] = "closed" => cpc'[d] = "closed"
               /\ cpc[d] # "none" => cpc'[d] # "none"
               /\ skey[d] # NoKey => skey'[d] = skey[d]
               /\ cpc[d] # "none" /\ ~alive[d] => ~alive'[d]
    <2>1. CASE (Accept(c) \/ HelloRefused(c) \/ HelloReply(c) \/ ConnLost(c))
               /\ UNCHANGED sessions
      BY <1>1, <2>1 DEF Accept, HelloRefused, HelloReply, ConnLost, HandshakeInv
    <2>2. CASE InsertSession(c)
      <3>1. DOMAIN sessions' = DOMAIN sessions \cup {sid[c]}
        BY <2>2 DEF InsertSession, insert
      <3>2. HandshakeOver(d) => c # d
        BY <2>2 DEF InsertSession
      <3>3. HandshakeOver(d) => sid[c] # sid[d]
        BY <3>2 DEF HandshakeInv
      <3> QED
        BY <1>1, <2>2, <3>1, <3>2, <3>3 DEF InsertSession
    <2>3. CASE CloseSession(c)
      BY <1>1, <2>3, DeleteType DEF CloseSession
    <2>4. CASE Dies(c)
      BY <1>1, <2>4 DEF Dies
    <2> QED
      BY <1>1, <2>1, <2>2, <2>3, <2>4 DEF TaskStep
  <1>2. CASE EndpointLost /\ UNCHANGED now
    BY <1>2 DEF EndpointLost
  <1>3. CASE gc /\ UNCHANGED <<now, hsVars>>
    BY <1>3, GcType
  <1>4. CASE Tick /\ UNCHANGED <<sessions, hsVars>>
    BY <1>4, Durations DEF Tick, Times
  <1>5. CASE UNCHANGED <<now, sessions, hsVars>>
    BY <1>5
  <1> QED
    BY <1>1, <1>2, <1>3, <1>4, <1>5 DEF SharedStep

-----------------------------------------------------------------------------
(* The session table. *)

(* Nothing is served and nothing is in the table at the start. *)
LEMMA SharedInit ==
    ASSUME StoreInit, HandshakeInit
    PROVE  HandshakeTypeOK /\ HandshakeInv /\ TableInv
  BY ClockAssumption, HandshakeAssumption
  DEF StoreInit, HandshakeInit, HandshakeTypeOK, HandshakeInv, TableInv, HandshakeOver, Live,
      Times

(* A session belongs to one task at most, and to none that has not yet       *)
(* inserted it.                                                              *)
LEMMA NotYetLive ==
    ASSUME HandshakeTypeOK, HandshakeInv, TableInv, NEW c \in Conns, ~HandshakeOver(c)
    PROVE  ~Live(sid[c])
  BY DEF HandshakeTypeOK, HandshakeInv, TableInv, HandshakeOver, Live

(* Every step keeps each session its task's, untouched and, while the task   *)
(* serves and max_lifetime has not passed, in the table.                     *)
LEMMA SharedTable ==
    ASSUME HandshakeTypeOK, HandshakeInv, TableInv, SharedStep
    PROVE  TableInv'
  <1> USE DEF HandshakeTypeOK, HandshakeOver
  <1>1. ASSUME NEW c \in Conns, TaskStep(c), UNCHANGED now PROVE TableInv'
    <2>1. CASE /\ Accept(c) \/ HelloReply(c) \/ ConnLost(c) \/ Dies(c)
               /\ UNCHANGED sessions
      <3>1. \A d \in Conns : /\ HandshakeOver(d)' <=> HandshakeOver(d)
                             /\ cpc'[d] = "serving" => cpc[d] = "serving"
                             /\ HandshakeOver(d) => OwnRecord(d)' = OwnRecord(d) /\ sid'[d] = sid[d]
                             /\ Outlived(d)' = Outlived(d)
        BY <1>1, <2>1 DEF Accept, HelloReply, ConnLost, Dies, OwnRecord, Outlived
      <3> QED
        BY <2>1, <3>1 DEF TableInv, Live
    <2>2. CASE HelloRefused(c) /\ UNCHANGED sessions
      <3>1. ~Live(sid[c])
        BY <2>2, NotYetLive DEF HelloRefused
      <3>2. \A d \in Conns : OwnRecord(d)' = OwnRecord(d) /\ Outlived(d)' = Outlived(d)
        BY <1>1, <2>2 DEF HelloRefused, OwnRecord, Outlived
      <3> QED
        BY <2>2, <3>1, <3>2 DEF HelloRefused, TableInv, Live
    <2>3. CASE InsertSession(c)
      <3>1. /\ DOMAIN sessions' = DOMAIN sessions \cup {sid[c]}
            /\ sessions'[sid[c]] = NewSession(api_key_id[c], skey[c])
            /\ \A i \in DOMAIN sessions \ {sid[c]} : sessions'[i] = sessions[i]
        BY <2>3 DEF InsertSession, insert
      <3>2. OwnRecord(c)' = NewSession(api_key_id[c], skey[c])
        BY <2>3 DEF InsertSession, OwnRecord, NewSession
      <3>3. \A d \in Conns \ {c} :
              /\ OwnRecord(d)' = OwnRecord(d) /\ Outlived(d)' = Outlived(d)
              /\ cpc'[d] = cpc[d]
              /\ HandshakeOver(d) => sid[d] # sid[c]
        BY <1>1, <2>3 DEF InsertSession, OwnRecord, Outlived, HandshakeInv
      <3>4. cpc'[c] = "serving" /\ UNCHANGED sid
        BY <2>3 DEF InsertSession
      <3> QED
        BY <3>1, <3>2, <3>3, <3>4 DEF TableInv, Live
    <2>4. CASE CloseSession(c)
      <3>1. /\ DOMAIN sessions' = DOMAIN sessions \ {sid[c]}
            /\ \A i \in DOMAIN sessions' : sessions'[i] = sessions[i]
        BY <2>4, DeleteType DEF CloseSession
      <3>2. \A d \in Conns :
              /\ OwnRecord(d)' = OwnRecord(d) /\ Outlived(d)' = Outlived(d)
              /\ d # c => cpc'[d] = cpc[d]
              /\ d # c /\ HandshakeOver(d) => sid[d] # sid[c]
        BY <1>1, <2>4 DEF CloseSession, OwnRecord, Outlived, HandshakeInv
      <3>3. cpc[c] = "serving" /\ cpc'[c] = "closed" /\ UNCHANGED sid
        BY <2>4 DEF CloseSession
      <3> QED
        BY <3>1, <3>2, <3>3 DEF TableInv, Live
    <2> QED
      BY <1>1, <2>1, <2>2, <2>3, <2>4 DEF TaskStep, Dies
  <1>2. CASE gc /\ UNCHANGED <<now, hsVars>>
    <2>1. /\ DOMAIN sessions' \subseteq DOMAIN sessions
          /\ \A i \in DOMAIN sessions' : sessions'[i] = sessions[i]
          /\ \A i \in DOMAIN sessions :
                i \in DOMAIN sessions' <=> Elapsed(sessions[i].created_at) <= MaxLifetime
      BY <1>2, GcType
    <2>2. \A c \in Conns : OwnRecord(c)' = OwnRecord(c) /\ Outlived(c)' = Outlived(c)
      BY <1>2 DEF OwnRecord, Outlived
    <2>3. ASSUME NEW c \in Conns, cpc[c] = "serving", ~Outlived(c)
          PROVE  sid[c] \in DOMAIN sessions'
      <3>1. Live(sid[c]) /\ sessions[sid[c]] = OwnRecord(c)
        BY <2>3 DEF TableInv
      <3>2. sessions[sid[c]].created_at = born[c]
        BY <3>1 DEF OwnRecord
      <3>3. now - born[c] <= MaxLifetime
        BY <2>3, Durations DEF Outlived, Times
      <3> QED
        BY <2>1, <3>1, <3>2, <3>3 DEF Live, Elapsed
    <2> QED
      BY <1>2, <2>1, <2>2, <2>3 DEF TableInv, Live
  <1>3. CASE \/ EndpointLost /\ UNCHANGED now
             \/ Tick /\ UNCHANGED <<sessions, hsVars>>
             \/ UNCHANGED <<now, sessions, hsVars>>
    <2>1. UNCHANGED <<sessions, cpc, sid, api_key_id, skey, born>>
      BY <1>3 DEF EndpointLost
    <2>2. \A c \in Conns : OwnRecord(c)' = OwnRecord(c)
      BY <2>1 DEF OwnRecord
    <2>3. \A c \in Conns : HandshakeOver(c) /\ Outlived(c) => Outlived(c)'
      BY Settled
    <2> QED
      BY <2>1, <2>2, <2>3 DEF TableInv, Live
  <1> QED
    BY <1>1, <1>2, <1>3 DEF SharedStep

=============================================================================
