-------------------------- MODULE MediaTokensProofs --------------------------
(***************************************************************************)
(* The properties of MediaTokens for any number of tokens, sessions and     *)
(* tables and any time to live.                                             *)
(***************************************************************************)
EXTENDS MediaTokens, TLAPS

USE DEF buildVars, tokenVars, vars

(* A token in the store was issued, and keeps the time of its issue however  *)
(* often validate extends it.                                                *)
IssueKept ==
    \A t \in DOMAIN tokens : tokens[t].issued_at = issuedAt[t] /\ tokens[t].created_at <= now

(* Only a token that was issued has a verdict. *)
AnswersIssued == \A t \in Tokens : verdict[t] # "none" => issuedAt[t] # Never

MediaInv == TypeOK /\ IssueKept /\ AnswersIssued /\ AbsoluteTtl /\ RefusedForGood

(* The initial state satisfies the invariant. *)
LEMMA MediaInit == Init => MediaInv
  BY MediaAssumption, ClockAssumption
  DEF Init, StoreInit, MediaInv, TypeOK, IssueKept, AnswersIssued, AbsoluteTtl,
      RefusedForGood, Times, Never

(* A step that leaves the tokens alone keeps what is known of them. *)
LEMMA TokensAlone ==
    ASSUME TypeOK, IssueKept, AnswersIssued, AbsoluteTtl, RefusedForGood,
           UNCHANGED tokenVars, now' \in Nat, now <= now'
    PROVE  IssueKept' /\ AnswersIssued' /\ AbsoluteTtl' /\ RefusedForGood'
  BY DEF TypeOK, Token, Times, IssueKept, AnswersIssued, AbsoluteTtl, RefusedForGood

(* The builder, the sessions and the clock. *)
LEMMA OtherNext ==
    ASSUME MediaInv,
           \/ with_media \/ with_session_config \/ Serve
           \/ OpenSession \/ GcLoop \/ ClockTick
           \/ \E i \in 1 .. MaxSessions : CloseSession(i)
           \/ UNCHANGED vars
    PROVE  MediaInv'
  <1>1. UNCHANGED tokenVars
    BY DEF with_media, with_session_config, Serve, OpenSession, GcLoop, ClockTick,
           CloseSession
  <1>2. now' \in Nat /\ now <= now'
    BY ClockAssumption
    DEF MediaInv, TypeOK, Times, with_media, with_session_config, Serve, OpenSession,
        GcLoop, ClockTick, Tick, CloseSession
  <1>3. IssueKept' /\ AnswersIssued' /\ AbsoluteTtl' /\ RefusedForGood'
    BY <1>1, <1>2, TokensAlone DEF MediaInv
  <1>4. TypeOK'
    <2> USE MediaAssumption, ClockAssumption DEF MediaInv, TypeOK
    <2>1. CASE with_media \/ with_session_config \/ Serve
      BY <2>1 DEF with_media, with_session_config, Serve
    <2>2. CASE OpenSession
      BY <2>2 DEF OpenSession, insert
    <2>3. CASE GcLoop
      BY <2>3 DEF GcLoop, gc
    <2>4. CASE ClockTick
      BY <2>4 DEF ClockTick, Tick, Times
    <2>5. CASE \E i \in 1 .. MaxSessions : CloseSession(i)
      BY <2>5 DEF CloseSession, delete
    <2>6. CASE UNCHANGED vars
      BY <2>6
    <2> QED
      BY <2>1, <2>2, <2>3, <2>4, <2>5, <2>6
  <1> QED
    BY <1>3, <1>4 DEF MediaInv

(* A token enters the store with the time of its issue, once. *)
LEMMA IssueNext ==
    ASSUME MediaInv, NEW t \in Tokens, NEW i \in 1 .. MaxSessions, issue(t, i)
    PROVE  MediaInv'
  <1> DEFINE tok == [session_id |-> i, created_at |-> now, issued_at |-> now]
  <1>1. /\ tokens' = [u \in DOMAIN tokens \cup {t} |-> IF u = t THEN tok ELSE tokens[u]]
        /\ issuedAt' = [issuedAt EXCEPT ![t] = now]
        /\ issuedAt[t] = Never
        /\ UNCHANGED <<now, sessions, buildVars, next_id, verdict, answerAt>>
    BY DEF issue
  <1>2. tok \in Token /\ tok.issued_at = now /\ tok.created_at = now
    BY MediaAssumption DEF MediaInv, TypeOK, Token
  <1>3. verdict[t] = "none"
    BY <1>1 DEF MediaInv, AnswersIssued, TypeOK
  <1> HIDE DEF tok
  <1>4. TypeOK'
    BY <1>1, <1>2 DEF MediaInv, TypeOK, Times
  <1>5. IssueKept'
    BY <1>1, <1>2, ClockAssumption DEF MediaInv, IssueKept, TypeOK, Times
  <1>6. AnswersIssued' /\ AbsoluteTtl' /\ RefusedForGood'
    BY <1>1, <1>3 DEF MediaInv, TypeOK, AnswersIssued, AbsoluteTtl, RefusedForGood, Times,
                      Never
  <1> QED
    BY <1>4, <1>5, <1>6 DEF MediaInv

(* The age that validate compares is counted from the issue. *)
LEMMA ExpiredByIssue ==
    ASSUME MediaInv, NEW t \in DOMAIN tokens
    PROVE  Expired(tokens[t]) <=> now - issuedAt[t] > MaxTokenTtl
  BY DEF MediaInv, IssueKept, Expired, Elapsed

(* A refusal removes the token, an acceptance extends it, and neither        *)
(* changes when it was issued.                                               *)
LEMMA ValidateNext ==
    ASSUME MediaInv, NEW t \in Tokens, validate(t)
    PROVE  MediaInv'
  <1> USE DEF MediaInv, TypeOK
  <1>1. /\ issuedAt[t] # Never
        /\ UNCHANGED <<now, sessions, buildVars, next_id, issuedAt>>
    BY DEF validate
  <1>2. CASE /\ t \notin DOMAIN tokens'
             /\ DOMAIN tokens' \subseteq DOMAIN tokens
             /\ tokens' \in [DOMAIN tokens' -> Token]
             /\ \A u \in DOMAIN tokens' : tokens'[u] = tokens[u]
             /\ Answer(t, "refused")
    BY <1>1, <1>2
    DEF Answer, IssueKept, AnswersIssued, AbsoluteTtl, RefusedForGood
  <1>3. CASE /\ t \in DOMAIN tokens /\ ~Expired(tokens[t])
             /\ tokens' = [tokens EXCEPT ![t].created_at = now]
             /\ Answer(t, "accepted")
    <2>1. now - issuedAt[t] <= MaxTokenTtl
      BY <1>1, <1>3, ExpiredByIssue, MediaAssumption DEF Times
    <2>2. /\ tokens' \in [DOMAIN tokens -> Token]
          /\ \A u \in DOMAIN tokens : tokens'[u].issued_at = tokens[u].issued_at
          /\ \A u \in DOMAIN tokens \ {t} : tokens'[u] = tokens[u]
          /\ tokens'[t].created_at = now
      BY <1>3 DEF Token
    <2>3. tokens[t].issued_at <= now
      BY <1>3, ClockAssumption DEF IssueKept, Token, Times
    <2>4. TypeOK'
      BY <1>1, <1>3, <2>2, <2>3 DEF Answer
    <2>5. IssueKept' /\ AnswersIssued' /\ AbsoluteTtl' /\ RefusedForGood'
      BY <1>1, <1>3, <2>1, <2>2, ClockAssumption
      DEF Times, Answer, IssueKept, AnswersIssued, AbsoluteTtl, RefusedForGood
    <2> QED
      BY <2>4, <2>5
  <1> QED
    BY <1>2, <1>3 DEF validate, remove

(* TokenStore::gc only removes. *)
LEMMA TokenGcNext ==
    ASSUME MediaInv, TokenGc
    PROVE  MediaInv'
  <1>1. /\ DOMAIN tokens' \subseteq DOMAIN tokens
        /\ \A u \in DOMAIN tokens' : tokens'[u] = tokens[u]
        /\ tokens' \in [DOMAIN tokens' -> Token]
    BY DEF TokenGc, MediaInv, TypeOK
  <1> QED
    BY <1>1 DEF TokenGc, MediaInv, TypeOK, IssueKept, AnswersIssued, AbsoluteTtl,
                RefusedForGood

-----------------------------------------------------------------------------
(* The theorems. *)

(* The invariant behind the properties holds of every behaviour. *)
THEOREM MediaInductive == Spec => []MediaInv
  <1>1. MediaInv /\ [Next]_vars => MediaInv'
    BY OtherNext, IssueNext, ValidateNext, TokenGcNext DEF Next
  <1> QED
    BY <1>1, MediaInit, PTL DEF Spec

(* Every variable keeps its type, and no token is used before its issue. *)
THEOREM MediaTypeCorrect == Spec => []TypeOK
  <1>1. MediaInv => TypeOK
    BY DEF MediaInv
  <1> QED
    BY <1>1, MediaInductive, PTL

(* However often a token is validated and extended, it is not accepted past  *)
(* max_token_ttl from its issue (TokenStore::validate).                      *)
THEOREM TtlAbsolute == Spec => []AbsoluteTtl
  <1>1. MediaInv => AbsoluteTtl
    BY DEF MediaInv
  <1> QED
    BY <1>1, MediaInductive, PTL

(* A token that was refused is in the store no more, whatever is issued,     *)
(* validated or collected after that (TokenStore::validate, exists).         *)
THEOREM RefusalFinal == Spec => []RefusedForGood
  <1>1. MediaInv => RefusedForGood
    BY DEF MediaInv
  <1> QED
    BY <1>1, MediaInductive, PTL

(* Of the tokens in the store validate refuses those for which there is a    *)
(* cause, and no other (TokenStore::validate, Server::with_media).           *)
THEOREM RefusalCaused == Spec => RefusedWithCause
  <1>1. ASSUME MediaInv, [Next]_vars, NEW t \in DOMAIN tokens,
               ~(verdict'[t] = verdict[t] /\ answerAt'[t] = answerAt[t])
        PROVE  verdict'[t] = "refused" <=> Cause(t)
    <2>1. t \in Tokens
      BY <1>1 DEF MediaInv, TypeOK
    <2>2. validate(t)
      <3>1. CASE \E u \in Tokens : validate(u)
        BY <1>1, <2>1, <3>1 DEF validate, Answer, MediaInv, TypeOK
      <3>2. CASE UNCHANGED <<verdict, answerAt>>
        BY <1>1, <2>1, <3>2
      <3> QED
        BY <1>1, <3>1, <3>2
        DEF Next, with_media, with_session_config, Serve, OpenSession, GcLoop, ClockTick,
            TokenGc, CloseSession, issue
    <2>3. Cause(t) <=> Expired(tokens[t]) \/ ~validate_session(tokens[t].session_id)
      <3>1. vtable < table <=> vtable # table
        BY <1>1, MediaAssumption DEF MediaInv, TypeOK
      <3> QED
        BY <1>1, <3>1, ExpiredByIssue DEF Cause, validate_session
    <2> QED
      BY <1>1, <2>1, <2>2, <2>3 DEF validate, Answer, MediaInv, TypeOK
  <1>2. MediaInv /\ [Next]_vars =>
          [\A t \in DOMAIN tokens :
              <<verdict[t], answerAt[t]>>' # <<verdict[t], answerAt[t]>> =>
                 (verdict'[t] = "refused" <=> Cause(t))]_vars
    BY <1>1
  <1> QED
    BY <1>2, MediaInductive, PTL DEF Spec, RefusedWithCause

=============================================================================
