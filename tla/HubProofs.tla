------------------------------ MODULE HubProofs ------------------------------
(***************************************************************************)
(* Registered and DeliveredToPresent of Hub for any number of topics,       *)
(* receivers and events and any channel capacity.                           *)
(***************************************************************************)
EXTENDS Hub, FiniteSetTheorems, TLAPS

(* What is known of a publish in flight: it holds the sender of the channel  *)
(* on which every receiver it must reach, and that is still live, listens.   *)
InFlight ==
    \A e \in Events :
        /\ \A s \in present[e] : rst[s] # "none"
        /\ ppc[e] \in {"cloned", "counted"} => tx[e] \in Subs
        /\ ppc[e] \in {"cloned", "counted"} =>
              \A s \in present[e] : rst[s] = "live" => chan[s] = tx[e]

HubInv == TypeOK /\ Registered /\ InFlight

(* The initial state satisfies the invariant. *)
LEMMA HubInit == Init => HubInv
  <1> SUFFICES ASSUME Init PROVE HubInv
    OBVIOUS
  <1>1. TypeOK
    BY DEF Init, TypeOK
  <1>2. Registered /\ InFlight
    BY DEF Init, Registered, InFlight
  <1> QED  BY <1>1, <1>2 DEF HubInv

(* A topic's receivers are those of its channel, so that unsubscribe forgets *)
(* a topic only when no receiver of it is live.                              *)
LEMMA HubNext == HubInv /\ [Next]_vars => HubInv'
  <1> SUFFICES ASSUME HubInv, [Next]_vars PROVE HubInv'
    OBVIOUS
  <1> USE DEF HubInv
  <1>1. ASSUME NEW s \in Subs, subscribe(s) PROVE HubInv'
    <2> DEFINE t == TopicOf[s]
               ch == IF t \in DOMAIN topics THEN topics[t] ELSE s
    <2>1. t \in Topics /\ ch \in Subs
      BY HubAssumption DEF TypeOK
    <2>2. TypeOK'
      BY <1>1, <2>1 DEF subscribe, TypeOK, pubVars
    <2>3. Registered'
      BY <1>1, <2>1 DEF subscribe, TypeOK, Registered
    <2>4. InFlight'
      BY <1>1, <2>1 DEF subscribe, TypeOK, InFlight, pubVars
    <2> QED  BY <2>2, <2>3, <2>4
  <1>2. ASSUME NEW s \in Subs, DropReceiver(s) PROVE HubInv'
    BY <1>2 DEF DropReceiver, TypeOK, Registered, InFlight, pubVars
  <1>3. ASSUME NEW s \in Subs, recv(s) PROVE HubInv'
    <2>1. TypeOK'
      <3>1. log[chan[s]] \in Seq(Events)
        BY <1>3 DEF recv, TypeOK, Registered
      <3>2. CASE /\ got' = [got EXCEPT ![s] = Append(@, log[chan[s]][pos[s]])]
                 /\ pos' = [pos EXCEPT ![s] = @ + 1]
                 /\ UNCHANGED lagged
        <4>1. log[chan[s]][pos[s]] \in Events
          BY <1>3, <3>1 DEF recv, TypeOK
        <4> QED  BY <1>3, <3>2, <4>1 DEF recv, TypeOK, pubVars
      <3>3. CASE /\ pos[s] < Oldest(chan[s])
                 /\ pos' = [pos EXCEPT ![s] = Oldest(chan[s])]
                 /\ lagged' = [lagged EXCEPT ![s] = TRUE]
                 /\ UNCHANGED got
        <4>1. Oldest(chan[s]) \in Nat \ {0}
          BY <3>1, HubAssumption DEF Oldest
        <4> QED  BY <1>3, <3>3, <4>1 DEF recv, TypeOK, pubVars
      <3> QED  BY <1>3, <3>2, <3>3 DEF recv
    <2>2. UNCHANGED <<topics, rst, chan, pubVars>>
      BY <1>3 DEF recv
    <2>3. Registered' /\ InFlight'
      BY <2>2 DEF Registered, InFlight, pubVars
    <2> QED  BY <2>1, <2>3
  <1>4. ASSUME NEW t \in Topics, unsubscribe(t) PROVE HubInv'
    <2>1. TypeOK' /\ InFlight'
      BY <1>4 DEF unsubscribe, TypeOK, InFlight, rxVars, pubVars
    <2>2. Registered'
      BY <1>4 DEF unsubscribe, Receivers, TypeOK, Registered, rxVars
    <2> QED  BY <2>1, <2>2
  <1>5. ASSUME NEW e \in Events, PublishClone(e) PROVE HubInv'
    <2>1. TopicOf[e] \in Topics
      BY HubAssumption
    <2>2. TypeOK'
      BY <1>5, <2>1 DEF PublishClone, TypeOK, rxVars
    <2>3. Registered'
      BY <1>5 DEF PublishClone, TypeOK, Registered, rxVars
    <2>4. InFlight'
      BY <1>5, <2>1 DEF PublishClone, TypeOK, Registered, InFlight, rxVars
    <2> QED  BY <2>2, <2>3, <2>4
  <1>6. ASSUME NEW e \in Events, PublishCount(e) PROVE HubInv'
    <2>1. Cardinality(Receivers(tx[e])) \in Nat
      <3>1. Receivers(tx[e]) \subseteq Subs
        BY DEF Receivers
      <3> QED  BY <3>1, FS_Subset, FS_CardinalityType, HubAssumption
    <2> QED
      BY <1>6, <2>1 DEF PublishCount, TypeOK, Registered, InFlight, rxVars
  <1>7. ASSUME NEW e \in Events, PublishSend(e) PROVE HubInv'
    BY <1>7 DEF PublishSend, TypeOK, Registered, InFlight, rxVars
  <1>8. CASE UNCHANGED vars
    BY <1>8 DEF vars, rxVars, pubVars, TypeOK, Registered, InFlight
  <1> QED
    BY <1>1, <1>2, <1>3, <1>4, <1>5, <1>6, <1>7, <1>8 DEF Next

(* Every variable keeps its type: in particular the count that a publish     *)
(* returns is a number of receivers, also between the count and the send.     *)
THEOREM HubTypeCorrect == Spec => []TypeOK
  <1>1. HubInv => TypeOK
    BY DEF HubInv
  <1> QED  BY <1>1, HubInit, HubNext, PTL DEF Spec

(* A live receiver always listens where publishers will look for its topic,  *)
(* whoever subscribes and unsubscribes meanwhile (hub.rs).                   *)
THEOREM RegisteredAlways == Spec => []Registered
  <1>1. HubInv => Registered
    BY DEF HubInv
  <1> QED  BY <1>1, HubInit, HubNext, PTL DEF Spec

-----------------------------------------------------------------------------
(* A live receiver is at most at the end of its channel: its next event is   *)
(* the next one that is sent.                                                *)
Backlog ==
    \A s \in Subs : rst[s] = "live" => pos[s] <= Len(log[chan[s]]) + 1

(* No step moves a receiver past the end of its channel. *)
LEMMA BacklogNext == HubInv /\ Backlog /\ [Next]_vars => Backlog'
  <1> SUFFICES ASSUME HubInv, Backlog, [Next]_vars, NEW r \in Subs, rst'[r] = "live"
               PROVE  pos'[r] <= Len(log'[chan'[r]]) + 1
    BY DEF Backlog
  <1> USE DEF HubInv
  <1>1. ASSUME NEW s \in Subs, subscribe(s) PROVE pos'[r] <= Len(log'[chan'[r]]) + 1
    <2> DEFINE t == TopicOf[s]
               ch == IF t \in DOMAIN topics THEN topics[t] ELSE s
    <2>1. ch \in Subs
      BY HubAssumption DEF TypeOK
    <2>2. Len(log[ch]) \in Nat
      BY <2>1 DEF TypeOK
    <2> QED  BY <1>1, <2>1, <2>2 DEF subscribe, TypeOK, Backlog
  <1>2. ASSUME NEW s \in Subs, DropReceiver(s) PROVE pos'[r] <= Len(log'[chan'[r]]) + 1
    BY <1>2 DEF DropReceiver, TypeOK, Backlog
  <1>3. ASSUME NEW s \in Subs, recv(s) PROVE pos'[r] <= Len(log'[chan'[r]]) + 1
    <2>1. log[chan[s]] \in Seq(Events)
      BY <1>3 DEF recv, TypeOK, Registered
    <2>2. Len(log[chan[s]]) \in Nat
      BY <2>1
    <2>3. Oldest(chan[s]) <= Len(log[chan[s]]) + 1
      BY <2>2, HubAssumption DEF Oldest
    <2>4. log' = log /\ chan' = chan /\ rst' = rst /\ pos[s] \in Nat \ {0}
      BY <1>3 DEF recv, TypeOK
    <2>5. CASE r # s
      <3>1. pos'[r] = pos[r]
        BY <1>3, <2>5 DEF recv, TypeOK
      <3> QED  BY <2>4, <3>1 DEF Backlog
    <2>6. CASE r = s
      <3>1. CASE pos' = [pos EXCEPT ![s] = @ + 1]
        <4>1. pos'[s] = pos[s] + 1 /\ pos[s] <= Len(log[chan[s]])
          BY <1>3, <3>1 DEF recv, TypeOK
        <4> QED  BY <2>2, <2>4, <2>6, <4>1
      <3>2. CASE pos[s] < Oldest(chan[s]) /\ pos' = [pos EXCEPT ![s] = Oldest(chan[s])]
        <4>1. pos'[s] = Oldest(chan[s])
          BY <3>2 DEF TypeOK
        <4> QED  BY <2>3, <2>4, <2>6, <4>1
      <3> QED  BY <1>3, <3>1, <3>2 DEF recv
    <2> QED  BY <2>5, <2>6
  <1>4. ASSUME NEW e \in Events, PublishSend(e) PROVE pos'[r] <= Len(log'[chan'[r]]) + 1
    <2>1. tx[e] \in Subs /\ chan[r] \in Subs
      BY <1>4 DEF PublishSend, InFlight, TypeOK, Registered, rxVars
    <2> QED  BY <1>4, <2>1 DEF PublishSend, TypeOK, Backlog, rxVars
  <1>5. CASE \E t \in Topics : unsubscribe(t)
    BY <1>5 DEF unsubscribe, Backlog, rxVars
  <1>6. CASE \E e \in Events : PublishClone(e) \/ PublishCount(e)
    BY <1>6 DEF PublishClone, PublishCount, Backlog, rxVars
  <1>7. CASE UNCHANGED vars
    BY <1>7 DEF vars, rxVars, Backlog
  <1> QED
    BY <1>1, <1>2, <1>3, <1>4, <1>5, <1>6, <1>7 DEF Next

(* An event is with a receiver, before it, or it lagged. *)
Has(e, s) == e \in ToSet(got[s]) \/ e \in Unread(s) \/ lagged[s]

(* A step by which a receiver goes on reading its channel loses no event     *)
(* unless it reports it.                                                     *)
LEMMA RecvKeeps ==
    ASSUME HubInv, NEW s \in Subs, recv(s), NEW e \in Events, Has(e, s)
    PROVE  Has(e, s)'
  <1> USE DEF HubInv
  <1>1. log[chan[s]] \in Seq(Events) /\ got[s] \in Seq(Events)
    BY DEF recv, TypeOK, Registered
  <1>2. CASE lagged[s]
    BY <1>2 DEF recv, TypeOK, Has
  <1>3. CASE pos[s] < Oldest(chan[s]) /\ lagged' = [lagged EXCEPT ![s] = TRUE]
    BY <1>3 DEF recv, TypeOK, Has
  <1>4. CASE /\ got' = [got EXCEPT ![s] = Append(@, log[chan[s]][pos[s]])]
             /\ pos' = [pos EXCEPT ![s] = @ + 1]
    <2>1. got'[s] = Append(got[s], log[chan[s]][pos[s]]) /\ pos'[s] = pos[s] + 1
      BY <1>4 DEF TypeOK
    <2>2. log' = log /\ chan' = chan
      BY DEF recv
    <2>3. CASE e \in ToSet(got[s])
      <3>1. PICK i \in DOMAIN got[s] : e = got[s][i]
        BY <2>3 DEF ToSet
      <3>2. i \in DOMAIN got'[s] /\ got'[s][i] = e
        BY <1>1, <2>1, <3>1
      <3> QED  BY <3>2 DEF Has, ToSet
    <2>4. CASE e \in Unread(s)
      <3>1. PICK i \in pos[s] .. Len(log[chan[s]]) : e = log[chan[s]][i]
        BY <2>4 DEF Unread
      <3>2. CASE i = pos[s]
        <4>1. /\ Len(got[s]) + 1 \in DOMAIN got'[s]
              /\ got'[s][Len(got[s]) + 1] = e
          BY <1>1, <2>1, <3>1, <3>2
        <4> QED  BY <4>1 DEF Has, ToSet
      <3>3. CASE i # pos[s]
        <4>1. i \in pos'[s] .. Len(log'[chan'[s]])
          BY <1>1, <2>1, <2>2, <3>1, <3>3 DEF TypeOK
        <4> QED  BY <2>2, <3>1, <4>1 DEF Has, Unread
      <3> QED  BY <3>2, <3>3
    <2> QED  BY <1>2, <2>3, <2>4 DEF Has
  <1> QED  BY <1>3, <1>4 DEF recv

(* Sending on a channel adds the event behind what its receivers have yet to *)
(* read.                                                                     *)
LEMMA SendReaches ==
    ASSUME HubInv, Backlog, NEW e \in Events, PublishSend(e),
           NEW s \in Subs, rst[s] = "live"
    PROVE  /\ chan[s] = tx[e] => Has(e, s)'
           /\ \A f \in Events : Has(f, s) => Has(f, s)'
  <1> USE DEF HubInv
  <1>1. tx[e] \in Subs /\ chan[s] \in Subs
    BY DEF PublishSend, InFlight, Registered, TypeOK
  <1>2. log[chan[s]] \in Seq(Events) /\ pos[s] \in Nat \ {0}
    BY <1>1 DEF TypeOK
  <1>3. chan' = chan /\ pos' = pos /\ got' = got /\ lagged' = lagged
    BY DEF PublishSend, rxVars
  <1>4. ASSUME chan[s] = tx[e] PROVE Has(e, s)'
    <2>1. log'[chan[s]] = Append(log[chan[s]], e)
      BY <1>1, <1>4 DEF PublishSend, Receivers, TypeOK
    <2>2. /\ Len(log[chan[s]]) + 1 \in pos[s] .. Len(log'[chan[s]])
          /\ log'[chan[s]][Len(log[chan[s]]) + 1] = e
      BY <1>2, <2>1 DEF Backlog
    <2> QED  BY <1>3, <2>2 DEF Has, Unread
  <1>5. ASSUME NEW f \in Events, Has(f, s) PROVE Has(f, s)'
    <2>1. CASE f \in Unread(s)
      <3>1. PICK i \in pos[s] .. Len(log[chan[s]]) : f = log[chan[s]][i]
        BY <2>1 DEF Unread
      <3>2. log'[chan[s]] = log[chan[s]] \/ log'[chan[s]] = Append(log[chan[s]], e)
        BY <1>1 DEF PublishSend, TypeOK
      <3>3. i \in pos[s] .. Len(log'[chan[s]]) /\ log'[chan[s]][i] = f
        BY <1>2, <3>1, <3>2
      <3> QED  BY <1>3, <3>3 DEF Has, Unread
    <2>2. CASE f \in ToSet(got[s]) \/ lagged[s]
      BY <1>3, <2>2 DEF Has
    <2> QED  BY <1>5, <2>1, <2>2 DEF Has
  <1> QED  BY <1>4, <1>5

(* Every step keeps what was delivered. *)
LEMMA DeliveredNext ==
    HubInv /\ Backlog /\ DeliveredToPresent /\ [Next]_vars => DeliveredToPresent'
  <1> SUFFICES ASSUME HubInv, Backlog, DeliveredToPresent, [Next]_vars,
                      NEW f \in Events, NEW r \in present'[f],
                      ppc'[f] = "done", rst'[r] = "live"
               PROVE  Has(f, r)'
    BY DEF DeliveredToPresent, Has
  <1>1. TypeOK /\ TypeOK' /\ Registered /\ InFlight
    BY HubNext DEF HubInv
  <1>2. r \in Subs
    BY <1>1 DEF TypeOK
  <1>3. ASSUME NEW s \in Subs, subscribe(s) PROVE Has(f, r)'
    <2>1. r \in present[f] /\ ppc[f] = "done" /\ rst[r] # "none"
      BY <1>1, <1>3 DEF subscribe, pubVars, InFlight
    <2>2. r # s /\ rst[r] = "live"
      BY <1>1, <1>2, <1>3, <2>1 DEF subscribe, TypeOK
    <2>3. /\ chan'[r] = chan[r] /\ pos'[r] = pos[r]
          /\ log' = log /\ got' = got /\ lagged' = lagged
      BY <1>1, <1>2, <1>3, <2>2 DEF subscribe, TypeOK
    <2> QED  BY <2>1, <2>2, <2>3 DEF DeliveredToPresent, Has, Unread
  <1>4. ASSUME NEW s \in Subs, DropReceiver(s) PROVE Has(f, r)'
    <2>1. r \in present[f] /\ ppc[f] = "done" /\ rst[r] = "live"
      BY <1>1, <1>2, <1>4 DEF DropReceiver, pubVars, TypeOK
    <2> QED  BY <1>4, <2>1 DEF DropReceiver, DeliveredToPresent, Has, Unread
  <1>5. ASSUME NEW s \in Subs, recv(s) PROVE Has(f, r)'
    <2>1. r \in present[f] /\ Has(f, r) /\ log' = log /\ chan' = chan
      BY <1>5 DEF recv, pubVars, DeliveredToPresent, Has
    <2>2. CASE r = s
      BY <1>5, <2>1, <2>2, RecvKeeps
    <2>3. CASE r # s
      <3>1. pos'[r] = pos[r] /\ got'[r] = got[r] /\ lagged'[r] = lagged[r]
        BY <1>1, <1>2, <1>5, <2>3 DEF recv, TypeOK
      <3> QED  BY <2>1, <3>1 DEF Has, Unread
    <2> QED  BY <2>2, <2>3
  <1>6. ASSUME NEW e \in Events, PublishSend(e) PROVE Has(f, r)'
    <2>1. r \in present[f] /\ rst[r] = "live"
      BY <1>6 DEF PublishSend, rxVars
    <2>2. CASE e = f
      BY <1>1, <1>2, <1>6, <2>1, <2>2, SendReaches DEF PublishSend, InFlight
    <2>3. CASE e # f
      <3>1. ppc[f] = "done"
        BY <1>1, <1>6, <2>3 DEF PublishSend, TypeOK
      <3>2. Has(f, r)
        BY <2>1, <3>1 DEF DeliveredToPresent, Has
      <3> QED  BY <1>2, <1>6, <2>1, <3>2, SendReaches
    <2> QED  BY <2>2, <2>3
  <1>7. ASSUME NEW e \in Events, PublishClone(e) PROVE Has(f, r)'
    <2>1. rst[r] = "live" /\ UNCHANGED <<log, rxVars>>
      BY <1>7 DEF PublishClone, rxVars
    <2>2. e # f
      <3> SUFFICES ASSUME e = f PROVE FALSE
        OBVIOUS
      <3>1. TopicOf[f] \notin DOMAIN topics /\ TopicOf[r] = TopicOf[f]
        BY <1>1, <1>7 DEF PublishClone, TypeOK
      <3> QED  BY <1>1, <1>2, <2>1, <3>1 DEF Registered
    <2>3. r \in present[f] /\ ppc[f] = "done"
      BY <1>1, <1>7, <2>2 DEF PublishClone, TypeOK
    <2> QED  BY <2>1, <2>3 DEF DeliveredToPresent, Has, Unread, rxVars
  <1>8. ASSUME NEW e \in Events, PublishCount(e) PROVE Has(f, r)'
    <2>1. r \in present[f] /\ ppc[f] = "done" /\ UNCHANGED <<log, rxVars>>
      BY <1>1, <1>8 DEF PublishCount, TypeOK
    <2> QED  BY <2>1 DEF DeliveredToPresent, Has, Unread, rxVars
  <1>9. CASE (\E t \in Topics : unsubscribe(t)) \/ UNCHANGED vars
    <2>1. UNCHANGED <<log, rxVars, pubVars>>
      BY <1>9 DEF unsubscribe, vars
    <2> QED  BY <2>1 DEF DeliveredToPresent, Has, Unread, rxVars, pubVars
  <1> QED
    BY <1>3, <1>4, <1>5, <1>6, <1>7, <1>8, <1>9 DEF Next

(* A publish that has returned has reached every receiver that was           *)
(* subscribed when it started and is still live, or that receiver lagged.    *)
THEOREM DeliveredAlways == Spec => []DeliveredToPresent
  <1>1. Init => Backlog /\ DeliveredToPresent
    BY DEF Init, Backlog, DeliveredToPresent
  <1> QED
    BY <1>1, HubInit, HubNext, BacklogNext, DeliveredNext, PTL DEF Spec

=============================================================================
