----------------------------- MODULE MediaTokens -----------------------------
(***************************************************************************)
(* Media tokens (media.rs, TokenStore) of a server (with_media,             *)
(* issue_media_token): random ids bound to a session, honoured while the    *)
(* validator finds the session and for at most max_token_ttl.  The          *)
(* validator captures the session table the server has when with_media is   *)
(* called; with_session_config gives the server a new one.                  *)
(***************************************************************************)
EXTENDS SessionStore

CONSTANTS
    Tokens,       \* token ids: each is issued at most once
    MaxSessions,  \* bound: sessions opened
    MaxTables,    \* bound: session tables the builder makes
    MaxTokenTtl,  \* TokenStore.max_token_ttl
    NoClient      \* the part of a session that tokens do not look at

ASSUME MediaAssumption ==
    /\ MaxSessions \in Nat /\ MaxTables \in Nat \ {0} /\ MaxTokenTtl \in Nat

VARIABLES
    phase,    \* the server is being built, or serves
    table,    \* Server.sessions: which of the tables made so far
    vtable,   \* the table the validator captured; 0 without with_media
    next_id,  \* Server.next_id
    tokens,   \* TokenStore.tokens: a function from the present ids to tokens
    issuedAt, \* history: when a token was issued, Never before
    verdict,  \* the last answer of validate for a token that was issued
    answerAt  \* history: when it was given

buildVars == <<phase, table, vtable>>
tokenVars == <<tokens, issuedAt, verdict, answerAt>>
vars == <<now, sessions, buildVars, next_id, tokenVars>>

Never == -1

-----------------------------------------------------------------------------
(* The builder. *)

with_media ==
    /\ phase = "building"
    /\ vtable' = table
    /\ UNCHANGED <<now, sessions, phase, table, next_id, tokenVars>>

with_session_config ==
    /\ phase = "building" /\ table < MaxTables
    /\ table' = table + 1
    /\ UNCHANGED <<now, sessions, phase, vtable, next_id, tokenVars>>

Serve ==
    /\ phase = "building"
    /\ phase' = "serving"
    /\ UNCHANGED <<now, sessions, table, vtable, next_id, tokenVars>>

-----------------------------------------------------------------------------
(* Sessions come and go in the server's table. *)

(* Mutant of OpenSession: the id is used but not taken. *)
OpenSession_NoTake ==
    /\ phase = "serving" /\ next_id <= MaxSessions
    /\ insert(next_id, NewSession(NoClient, NoClient))
    /\ UNCHANGED <<now, buildVars, next_id, tokenVars>>

OpenSession ==
    /\ phase = "serving" /\ next_id <= MaxSessions
    /\ insert(next_id, NewSession(NoClient, NoClient))
    /\ next_id' = next_id + 1
    /\ UNCHANGED <<now, buildVars, tokenVars>>

CloseSession(i) ==
    /\ Live(i)
    /\ delete(i)
    /\ UNCHANGED <<now, buildVars, next_id, tokenVars>>

GcLoop == gc /\ UNCHANGED <<now, buildVars, next_id, tokenVars>>

ClockTick == Tick /\ UNCHANGED <<sessions, buildVars, next_id, tokenVars>>

-----------------------------------------------------------------------------
(* issue_media_token fails without with_media.  A handler may issue a token  *)
(* for a session that has gone while it ran.                                 *)
issue(t, i) ==
    /\ phase = "serving" /\ vtable # 0
    /\ issuedAt[t] = Never
    /\ i \in 1 .. next_id - 1
    /\ tokens' = [u \in DOMAIN tokens \cup {t} |->
                     IF u = t THEN [session_id |-> i, created_at |-> now, issued_at |-> now]
                              ELSE tokens[u]]
    /\ issuedAt' = [issuedAt EXCEPT ![t] = now]
    /\ UNCHANGED <<now, sessions, buildVars, next_id, verdict, answerAt>>

(* The validator: a table that the server no longer uses stays empty. *)
validate_session(i) == vtable = table /\ Live(i)

remove(t) == tokens' = [u \in DOMAIN tokens \ {t} |-> tokens[u]]

Answer(t, v) ==
    /\ verdict' = [verdict EXCEPT ![t] = v]
    /\ answerAt' = [answerAt EXCEPT ![t] = now]

(* Mutants of Expired: the age counts from the last use, or is off by one.   *)
Expired_Sliding(tok) == Elapsed(tok.created_at) > MaxTokenTtl
Expired_Early(tok) == Elapsed(tok.issued_at) >= MaxTokenTtl

Expired(tok) == Elapsed(tok.issued_at) > MaxTokenTtl

(* Mutant of validate: a refused token is not removed. *)
validate_Keeps(t) ==
    /\ issuedAt[t] # Never
    /\ \/ t \notin DOMAIN tokens /\ Answer(t, "refused") /\ UNCHANGED tokens
       \/ /\ t \in DOMAIN tokens
          /\ IF Expired(tokens[t]) \/ ~validate_session(tokens[t].session_id)
             THEN UNCHANGED tokens /\ Answer(t, "refused")
             ELSE tokens' = [tokens EXCEPT ![t].created_at = now] /\ Answer(t, "accepted")
    /\ UNCHANGED <<now, sessions, buildVars, next_id, issuedAt>>

(* One critical section of the token store, with one of the session table    *)
(* inside it: an unknown token is refused, an expired one or one whose       *)
(* session has gone is removed as well, any other is extended.               *)
validate(t) ==
    /\ issuedAt[t] # Never
    /\ \/ t \notin DOMAIN tokens /\ Answer(t, "refused") /\ UNCHANGED tokens
       \/ /\ t \in DOMAIN tokens
          /\ IF Expired(tokens[t]) \/ ~validate_session(tokens[t].session_id)
             THEN remove(t) /\ Answer(t, "refused")
             ELSE tokens' = [tokens EXCEPT ![t].created_at = now] /\ Answer(t, "accepted")
    /\ UNCHANGED <<now, sessions, buildVars, next_id, issuedAt>>

(* TokenStore::gc, which only the application calls. *)
TokenGc ==
    /\ tokens' = [u \in {t \in DOMAIN tokens : ~Expired(tokens[t])} |-> tokens[u]]
    /\ UNCHANGED <<now, sessions, buildVars, next_id, issuedAt, verdict, answerAt>>

Init ==
    /\ StoreInit
    /\ phase = "building"
    /\ table = 1
    /\ vtable = 0
    /\ next_id = 1
    /\ tokens = [t \in {} |-> 0]
    /\ issuedAt = [t \in Tokens |-> Never]
    /\ verdict = [t \in Tokens |-> "none"]
    /\ answerAt = [t \in Tokens |-> 0]

Next ==
    \/ with_media \/ with_session_config \/ Serve
    \/ OpenSession \/ GcLoop \/ ClockTick \/ TokenGc
    \/ \E i \in 1 .. MaxSessions : CloseSession(i)
    \/ \E t \in Tokens : validate(t) \/ \E i \in 1 .. MaxSessions : issue(t, i)

Spec == Init /\ [][Next]_vars

-----------------------------------------------------------------------------
(* Properties. *)

Token == [session_id : Nat, created_at : Times, issued_at : Times]

(* Every variable has its type, and a token in the store was issued before   *)
(* it was last used.                                                         *)
TypeOK ==
    /\ now \in Times
    /\ DOMAIN sessions \subseteq 1 .. next_id - 1
    /\ phase \in {"building", "serving"}
    /\ table \in 1 .. MaxTables /\ vtable \in 0 .. table
    /\ next_id \in 1 .. MaxSessions + 1
    /\ DOMAIN tokens \subseteq Tokens
    /\ tokens \in [DOMAIN tokens -> Token]
    /\ \A t \in DOMAIN tokens : tokens[t].issued_at <= tokens[t].created_at
    /\ issuedAt \in [Tokens -> Times \cup {Never}]
    /\ verdict \in [Tokens -> {"none", "accepted", "refused"}]
    /\ answerAt \in [Tokens -> Times]

(* The time to live is absolute ("Absolute TTL" in the README): however      *)
(* often a token is validated, and extended, it is not accepted later than   *)
(* max_token_ttl after it was issued (TokenStore::validate).                 *)
AbsoluteTtl ==
    \A t \in Tokens :
        verdict[t] = "accepted" => answerAt[t] - issuedAt[t] <= MaxTokenTtl

(* A refused token has gone, for validate as for exists and lookup_hls, and  *)
(* stays so: a session that has left the table does not return, and the      *)
(* store forgets what it refused.                                            *)
RefusedForGood ==
    \A t \in Tokens : verdict[t] = "refused" => t \notin DOMAIN tokens

(* Why a token in the store must be refused: it is older than max_token_ttl, *)
(* its session has left the server's table, or the builder called            *)
(* with_session_config after with_media, so that the validator asks a table  *)
(* the server has replaced.                                                  *)
Cause(t) ==
    \/ now - issuedAt[t] > MaxTokenTtl
    \/ ~Live(tokens[t].session_id)
    \/ vtable < table

(* A token in the store is refused when there is a cause, counted from its   *)
(* issue and not from its last use, and otherwise accepted: at the boundary  *)
(* of the time to live, however often it was extended, and while sessions    *)
(* come and go.  With the builder calls in the wrong order every token is    *)
(* refused (TokenStore::validate, Server::with_media).                       *)
RefusedWithCause ==
    [][\A t \in DOMAIN tokens :
          <<verdict[t], answerAt[t]>>' # <<verdict[t], answerAt[t]>> =>
             (verdict'[t] = "refused" <=> Cause(t))]_vars

=============================================================================
