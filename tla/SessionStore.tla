---------------------------- MODULE SessionStore ----------------------------
(***************************************************************************)
(* The server's session table (session.rs, SessionStore): a mutex around a *)
(* map from session ids to Session records, with two time-outs read off a  *)
(* monotonic clock.  Every operation below is one critical section of that *)
(* mutex.  Instant::now() is the variable now; a Duration is a number of   *)
(* clock ticks, and all comparisons keep the strictness of the code.       *)
(***************************************************************************)
EXTENDS Integers

CONSTANTS
    IdleCfg,          \* SessionConfig.idle_timeout as passed; 0 is "unset"
    LifetimeCfg,      \* SessionConfig.max_lifetime as passed; 0 is "unset"
    DefaultIdle,      \* DEFAULT_IDLE_TIMEOUT
    DefaultLifetime,  \* DEFAULT_MAX_LIFETIME
    MaxTime           \* bound: the clock stops here

ASSUME ClockAssumption ==
    /\ IdleCfg \in Nat /\ LifetimeCfg \in Nat
    /\ DefaultIdle \in Nat \ {0} /\ DefaultLifetime \in Nat \ {0}
    /\ MaxTime \in Nat

VARIABLES
    now,       \* the monotonic clock
    sessions   \* SessionStore.sessions: a function from the live ids to records

-----------------------------------------------------------------------------
(* SessionConfig::fill replaces a zero duration by its default. *)
fill(configured, default) == IF configured <= 0 THEN default ELSE configured

IdleTimeout == fill(IdleCfg, DefaultIdle)
MaxLifetime == fill(LifetimeCfg, DefaultLifetime)

Times == 0 .. MaxTime

(* Session::new stamps both times with the same instant. *)
NewSession(aid, key) ==
    [api_key_id |-> aid, key |-> key, created_at |-> now, last_used |-> now]

Elapsed(t) == now - t

Live(id) == id \in DOMAIN sessions

is_expired(s)   == Elapsed(s.created_at) > MaxLifetime
is_idle_dead(s) == Elapsed(s.last_used) > IdleTimeout

-----------------------------------------------------------------------------
insert(id, s) ==
    sessions' = [i \in DOMAIN sessions \cup {id} |->
                    IF i = id THEN s ELSE sessions[i]]

delete(id) == sessions' = [i \in DOMAIN sessions \ {id} |-> sessions[i]]

(* `if let Some(mut sess) = sessions.get(id) { sess.touch(); }`: get returns *)
(* a clone, so touch() stamps a copy that is dropped at the closing brace.   *)
touch(id) == UNCHANGED sessions

(* Mutants of gc: it keeps everything, or drops a session one tick early.    *)
gc_KeepsAll == UNCHANGED sessions
gc_Early == sessions' = [i \in {j \in DOMAIN sessions :
                                   Elapsed(sessions[j].created_at) < MaxLifetime}
                             |-> sessions[i]]

(* SessionStore::gc keeps what is younger than max_lifetime; the idle        *)
(* time-out plays no part in it.                                             *)
gc == sessions' = [i \in {j \in DOMAIN sessions :
                              Elapsed(sessions[j].created_at) <= MaxLifetime}
                        |-> sessions[i]]

(* Time passes.  The bound MaxTime keeps the instance finite. *)
Tick == now < MaxTime /\ now' = now + 1

StoreInit ==
    /\ now = 0
    /\ sessions = [i \in {} |-> 0]

=============================================================================
