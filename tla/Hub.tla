--------------------------------- MODULE Hub ---------------------------------
(***************************************************************************)
(* The event hub (hub.rs): a mutex around a map from topics to tokio        *)
(* broadcast senders.  subscribe and unsubscribe are one critical section   *)
(* each; publish clones the sender under the lock and sends without it, so  *)
(* a topic may be dropped and created again in between.                     *)
(***************************************************************************)
EXTENDS Integers, Sequences, FiniteSets, SequencesExt

CONSTANTS
    Topics,
    Subs,       \* receivers, each subscribed once; a channel is named after
                \* the receiver whose subscribe created it
    Events,     \* calls of publish, each with an event of its own
    TopicOf,    \* the topic of each receiver and of each event
    Capacity,   \* broadcast::channel(64)
    NoChan      \* the None of topics.get

ASSUME HubAssumption ==
    /\ TopicOf \in [Subs \cup Events -> Topics]
    /\ Capacity \in Nat \ {0}
    /\ NoChan \notin Subs
    /\ IsFiniteSet(Subs)

VARIABLES
    topics,   \* Hub.topics: a function from the present topics to channels
    log,      \* the events sent on each channel; it retains the last Capacity
    rst,      \* state of a receiver: "none", "live", "dropped"
    chan,     \* channel of a receiver
    pos,      \* index in the log of the event it reads next
    got,      \* the events it has received
    lagged,   \* a receive of it has reported lost events
    ppc,      \* where a publish is
    tx,       \* the sender it cloned
    count,    \* the receiver count it returns
    present   \* history: receivers of its topic when it started

rxVars == <<rst, chan, pos, got, lagged>>
pubVars == <<ppc, tx, count, present>>
vars == <<topics, log, rxVars, pubVars>>

Receivers(ch) == {s \in Subs : rst[s] = "live" /\ chan[s] = ch}

-----------------------------------------------------------------------------
(* Mutant of subscribe: a topic's channel is replaced, not shared. *)
subscribe_Replaces(s) ==
    /\ rst[s] = "none"
    /\ rst' = [rst EXCEPT ![s] = "live"]
    /\ topics' = [u \in DOMAIN topics \cup {TopicOf[s]} |->
                     IF u = TopicOf[s] THEN s ELSE topics[u]]
    /\ chan' = [chan EXCEPT ![s] = s]
    /\ pos' = [pos EXCEPT ![s] = Len(log[s]) + 1]
    /\ UNCHANGED <<log, got, lagged, pubVars>>

(* entry().or_insert_with().subscribe(): the receiver starts at the tail of  *)
(* the topic's channel, which is created if the topic is absent.             *)
subscribe(s) ==
    LET t  == TopicOf[s]
        ch == IF t \in DOMAIN topics THEN topics[t] ELSE s
    IN
    /\ rst[s] = "none"
    /\ rst' = [rst EXCEPT ![s] = "live"]
    /\ topics' = [u \in DOMAIN topics \cup {t} |-> IF u = t THEN ch ELSE topics[u]]
    /\ chan' = [chan EXCEPT ![s] = ch]
    /\ pos' = [pos EXCEPT ![s] = Len(log[ch]) + 1]
    /\ UNCHANGED <<log, got, lagged, pubVars>>

(* The receiver is dropped; the topic stays in the map. *)
DropReceiver(s) ==
    /\ rst[s] = "live"
    /\ rst' = [rst EXCEPT ![s] = "dropped"]
    /\ UNCHANGED <<topics, log, chan, pos, got, lagged, pubVars>>

(* Mutant of unsubscribe: the topic goes although it has receivers. *)
unsubscribe_Unchecked(t) ==
    /\ t \in DOMAIN topics
    /\ topics' = [u \in DOMAIN topics \ {t} |-> topics[u]]
    /\ UNCHANGED <<log, rxVars, pubVars>>

(* Anyone may call unsubscribe at any time; it forgets a topic that has no   *)
(* receiver, and does nothing otherwise.                                     *)
unsubscribe(t) ==
    /\ t \in DOMAIN topics
    /\ Receivers(topics[t]) = {}
    /\ topics' = [u \in DOMAIN topics \ {t} |-> topics[u]]
    /\ UNCHANGED <<log, rxVars, pubVars>>

-----------------------------------------------------------------------------
(* publish, under the lock: clone the sender, or return 0 if there is none.  *)
PublishClone(e) ==
    LET t == TopicOf[e] IN
    /\ ppc[e] = "idle"
    /\ IF t \in DOMAIN topics
       THEN /\ tx' = [tx EXCEPT ![e] = topics[t]]
            /\ ppc' = [ppc EXCEPT ![e] = "cloned"]
       ELSE /\ ppc' = [ppc EXCEPT ![e] = "done"]
            /\ UNCHANGED tx
    /\ present' = [present EXCEPT ![e] =
                      {s \in Subs : rst[s] = "live" /\ TopicOf[s] = t}]
    /\ UNCHANGED <<topics, log, rxVars, count>>

(* Mutant of PublishCount: the publisher's own handle is counted as one. *)
PublishCount_OffByOne(e) ==
    /\ ppc[e] = "cloned"
    /\ count' = [count EXCEPT ![e] = Cardinality(Receivers(tx[e])) - 1]
    /\ ppc' = [ppc EXCEPT ![e] = "counted"]
    /\ UNCHANGED <<topics, log, rxVars, tx, present>>

(* Without the lock: count the receivers ... *)
PublishCount(e) ==
    /\ ppc[e] = "cloned"
    /\ count' = [count EXCEPT ![e] = Cardinality(Receivers(tx[e]))]
    /\ ppc' = [ppc EXCEPT ![e] = "counted"]
    /\ UNCHANGED <<topics, log, rxVars, tx, present>>

(* Mutant of PublishSend: the count decides whether there is one to send to. *)
PublishSend_SkipsOne(e) ==
    /\ ppc[e] = "counted"
    /\ log' = IF count[e] <= 1 THEN log
              ELSE [log EXCEPT ![tx[e]] = Append(@, e)]
    /\ ppc' = [ppc EXCEPT ![e] = "done"]
    /\ UNCHANGED <<topics, rxVars, tx, count, present>>

(* ... and send.  A send to no receiver is an error, which is ignored.       *)
PublishSend(e) ==
    /\ ppc[e] = "counted"
    /\ log' = IF Receivers(tx[e]) = {} THEN log
              ELSE [log EXCEPT ![tx[e]] = Append(@, e)]
    /\ ppc' = [ppc EXCEPT ![e] = "done"]
    /\ UNCHANGED <<topics, rxVars, tx, count, present>>

(* Receiver::recv of tokio: the next event, or Lagged if the channel no      *)
(* longer retains it; the receiver then resumes at the oldest retained one.  *)
Oldest(ch) == IF Len(log[ch]) > Capacity THEN Len(log[ch]) - Capacity + 1 ELSE 1

recv(s) ==
    /\ rst[s] = "live" /\ pos[s] <= Len(log[chan[s]])
    /\ \/ /\ pos[s] >= Oldest(chan[s])
          /\ got' = [got EXCEPT ![s] = Append(@, log[chan[s]][pos[s]])]
          /\ pos' = [pos EXCEPT ![s] = @ + 1]
          /\ UNCHANGED lagged
       \/ /\ pos[s] < Oldest(chan[s])
          /\ pos' = [pos EXCEPT ![s] = Oldest(chan[s])]
          /\ lagged' = [lagged EXCEPT ![s] = TRUE]
          /\ UNCHANGED got
    /\ UNCHANGED <<topics, log, rst, chan, pubVars>>

Init ==
    /\ topics = [t \in {} |-> NoChan]
    /\ log = [s \in Subs |-> <<>>]
    /\ rst = [s \in Subs |-> "none"]
    /\ chan = [s \in Subs |-> NoChan]
    /\ pos = [s \in Subs |-> 1]
    /\ got = [s \in Subs |-> <<>>]
    /\ lagged = [s \in Subs |-> FALSE]
    /\ ppc = [e \in Events |-> "idle"]
    /\ tx = [e \in Events |-> NoChan]
    /\ count = [e \in Events |-> 0]
    /\ present = [e \in Events |-> {}]

Next ==
    \/ \E s \in Subs : subscribe(s) \/ DropReceiver(s) \/ recv(s)
    \/ \E t \in Topics : unsubscribe(t)
    \/ \E e \in Events : PublishClone(e) \/ PublishCount(e) \/ PublishSend(e)

(* A publish that started returns, and a task that holds a receiver polls it.*)
Fairness ==
    /\ \A e \in Events : WF_vars(PublishCount(e) \/ PublishSend(e))
    /\ \A s \in Subs : WF_vars(recv(s))

Spec == Init /\ [][Next]_vars /\ Fairness

-----------------------------------------------------------------------------
(* Properties. *)

(* Every variable has its type. *)
TypeOK ==
    /\ DOMAIN topics \subseteq Topics
    /\ topics \in [DOMAIN topics -> Subs]
    /\ log \in [Subs -> Seq(Events)]
    /\ rst \in [Subs -> {"none", "live", "dropped"}]
    /\ chan \in [Subs -> Subs \cup {NoChan}]
    /\ pos \in [Subs -> Nat \ {0}]
    /\ got \in [Subs -> Seq(Events)]
    /\ lagged \in [Subs -> BOOLEAN]
    /\ ppc \in [Events -> {"idle", "cloned", "counted", "done"}]
    /\ tx \in [Events -> Subs \cup {NoChan}]
    /\ count \in [Events -> Nat]
    /\ present \in [Events -> SUBSET Subs]

(* A live receiver listens on the channel that the map holds for its topic:  *)
(* no unsubscribe by another subscriber, and no publish in flight, leaves it *)
(* on a channel that publishers no longer find (Hub::unsubscribe racing      *)
(* Hub::subscribe).                                                          *)
Registered ==
    \A s \in Subs : rst[s] = "live" =>
        /\ TopicOf[s] \in DOMAIN topics
        /\ topics[TopicOf[s]] = chan[s]

Unread(s) == {log[chan[s]][i] : i \in pos[s] .. Len(log[chan[s]])}

(* "Messages are delivered to all active subscribers" (Hub): an event whose  *)
(* publish has returned was received by, or waits for, every receiver that   *)
(* was subscribed when the publish started, unless that one fell behind.     *)
DeliveredToPresent ==
    \A e \in Events : \A s \in present[e] :
        ppc[e] = "done" /\ rst[s] = "live" =>
            e \in ToSet(got[s]) \/ e \in Unread(s) \/ lagged[s]

(* An event that was published with a receiver present gets to it, or the    *)
(* receiver is told that it lagged, or it is dropped (Hub::publish and the   *)
(* broadcast channel's bound).                                               *)
EventuallyReceived ==
    \A e \in Events, s \in Subs :
        (s \in present[e]) ~> (e \in ToSet(got[s]) \/ lagged[s] \/ rst[s] = "dropped")

=============================================================================
