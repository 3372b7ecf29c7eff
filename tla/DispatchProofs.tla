--------------------------- MODULE DispatchProofs ---------------------------
(***************************************************************************)
(* GuardHolds, LoggedAndAnswered and RateBound of Dispatch for any opcodes, *)
(* any order of builder calls, any number of calls and any limit.           *)
(***************************************************************************)
EXTENDS Dispatch, SequenceTheorems, FiniteSetTheorems, TLAPS

-----------------------------------------------------------------------------
(* The inductive invariant behind the properties. *)

Handler == [kind : {"sync", "stream"}, chain : Seq(Middleware)]
BuildStep == [do : {"use"}, kind : {"sync", "stream"}, of : Middleware]
                \cup [do : {"handle"}, kind : {"sync", "stream"}, of : Opcodes]
Running == [pc : {"NotFound", "BadRequest", "in", "out", "Handled", "InternalError",
                  "ended", "died"},
            op : Opcodes, id : Ids, at : Nat, res : {"none", "ok", "err", "panic"},
            ran : BOOLEAN, lines : Nat, recent : BOOLEAN]

(* Every variable has its type. *)
TypeOK ==
    /\ middlewares \in Seq(Middleware)
    /\ stream_middlewares \in Seq(Middleware)
    /\ DOMAIN handlers \subseteq Opcodes
    /\ handlers \in [DOMAIN handlers -> Handler]
    /\ serving \in BOOLEAN
    /\ count \in Nat
    /\ built \in Seq(BuildStep)
    /\ call \in [Calls -> {Idle} \cup Running]

(* f places mws in the first n of the builder calls b: they are what was     *)
(* pushed of this kind, in that order.                                       *)
ListedBy(b, mws, kind, n, f) ==
    /\ \A p, q \in DOMAIN mws : p < q => f[p] < f[q]
    /\ \A p \in DOMAIN mws : b[f[p]] = [do |-> "use", kind |-> kind, of |-> mws[p]]
    /\ \A j \in 1 .. n : b[j].do = "use" /\ b[j].kind = kind =>
          \E p \in DOMAIN mws : f[p] = j

Listed(b, mws, kind, n) ==
    \E f \in [DOMAIN mws -> 1 .. n] : ListedBy(b, mws, kind, n, f)

(* The i-th of the builder calls b is the last that registered o. *)
LastRegistration(b, o, i) ==
    /\ b[i].do = "handle" /\ b[i].of = o
    /\ \A j \in DOMAIN b : b[j].do = "handle" /\ b[j].of = o => j <= i

(* A handler's chain is what was pushed before its last registration. *)
BuildInv ==
    /\ Listed(built, middlewares, "sync", Len(built))
    /\ Listed(built, stream_middlewares, "stream", Len(built))
    /\ \A o \in DOMAIN handlers : \E i \in DOMAIN built :
          /\ LastRegistration(built, o, i)
          /\ built[i].kind = handlers[o].kind
          /\ Listed(built, handlers[o].chain, handlers[o].kind, i - 1)
    /\ ~serving => \A k \in Calls : call[k] = Idle

Guards == {"require", "rate_limit"}

(* In this chain a call always leaves a line at p: the recovery at q, inside *)
(* of it, keeps panics from it, and no guard outside of it turns a call away.*)
Logs(ch, p, q) ==
    /\ p \in DOMAIN ch /\ q \in DOMAIN ch /\ p < q
    /\ ch[p] = "logging" /\ ch[q] = "recovery"
    /\ \A g \in DOMAIN ch : ch[g] \in Guards => p < g

(* The call has passed the middleware at p on its way in. *)
Past(k, p) == call[k].ran \/ (call[k].pc = "in" /\ p < call[k].at)

(* Where a call is in its chain, and what that says of it. *)
CallOK(k) ==
    LET ch == Chain(k) IN
    /\ call[k].op \in DOMAIN handlers
    /\ call[k].pc = "in" =>
          1 <= call[k].at /\ call[k].at <= Len(ch) + 1 /\ ~call[k].ran
    /\ call[k].pc = "out" => call[k].at <= Len(ch)
    /\ call[k].pc \notin {"in", "out"} => call[k].at = 0
    /\ \A p \in DOMAIN ch : ch[p] = "require" /\ Past(k, p) => call[k].id \in Allowed
    /\ call[k].pc # "in" =>
          /\ \A q \in DOMAIN ch : ch[q] = "recovery" /\ call[k].at < q => call[k].res # "panic"
          /\ \A p, q \in DOMAIN ch : Logs(ch, p, q) => p <= call[k].at \/ call[k].lines > 0
    /\ call[k].pc = "died" => call[k].res = "panic"

CallInv == \A k \in Started : CallOK(k)

(* The calls of this window that the limiter let in. *)
Admitted ==
    {k \in Started : call[k].recent /\ \E p \in DOMAIN Chain(k) :
                        Chain(k)[p] = "rate_limit" /\ Past(k, p)}

(* The limiter counted each of them, and none of them above its max. *)
RateInv ==
    /\ IsFiniteSet(Admitted)
    /\ Cardinality(Admitted) <= count
    /\ Cardinality(Admitted) <= RateMax

(* The inductive invariant. *)
IndInv == TypeOK /\ BuildInv /\ CallInv /\ RateInv

USE DEF buildVars, vars

-----------------------------------------------------------------------------
(* Sequences. *)

(* What Reverse returns. *)
LEMMA ReverseProperties ==
    ASSUME NEW S, NEW s \in Seq(S)
    PROVE  /\ Reverse(s) \in Seq(S)
           /\ Len(Reverse(s)) = Len(s)
           /\ \A i \in 1 .. Len(s) : Reverse(s)[i] = s[Len(s) - i + 1]
  <1>1. /\ Len(s) \in Nat
        /\ Reverse(s) \in [1 .. Len(s) -> S]
    BY DEF Reverse
  <1>2. Reverse(s) \in Seq(S)
    BY <1>1, SeqDef
  <1>3. Len(Reverse(s)) = Len(s)
    BY <1>1, <1>2, LenProperties
  <1> QED
    BY <1>1, <1>2, <1>3 DEF Reverse

(* The loop of Server::handle wraps so that what was pushed first is the     *)
(* outermost.                                                                *)
LEMMA FirstIsOutermost ==
    ASSUME NEW mws \in Seq(Middleware)
    PROVE  Wrapped(mws) = mws
  <1>1. /\ Wrapped(mws) \in Seq(Middleware)
        /\ Len(Wrapped(mws)) = Len(mws)
    BY ReverseProperties DEF Wrapped
  <1>2. \A i \in 1 .. Len(mws) : Wrapped(mws)[i] = mws[i]
    <2> TAKE i \in 1 .. Len(mws)
    <2>1. Len(mws) \in Nat /\ Len(mws) - i + 1 \in 1 .. Len(mws)
      OBVIOUS
    <2>2. /\ Reverse(mws) \in Seq(Middleware) /\ Len(Reverse(mws)) = Len(mws)
          /\ \A j \in 1 .. Len(mws) : Reverse(mws)[j] = mws[Len(mws) - j + 1]
      BY ReverseProperties
    <2>3. Wrapped(mws)[i] = Reverse(mws)[Len(mws) - i + 1]
      BY <2>2, ReverseProperties DEF Wrapped
    <2> QED
      BY <2>1, <2>2, <2>3
  <1> QED
    BY <1>1, <1>2, SeqEqual

(* What a builder call adds to the calls so far. *)
LEMMA Appended ==
    ASSUME NEW S, NEW b \in Seq(S), NEW step \in S
    PROVE  /\ Append(b, step) \in Seq(S)
           /\ Len(b) \in Nat /\ Len(Append(b, step)) = Len(b) + 1
           /\ DOMAIN b = 1 .. Len(b) /\ DOMAIN Append(b, step) = 1 .. Len(b) + 1
           /\ \A i \in 1 .. Len(b) : Append(b, step)[i] = b[i]
           /\ Append(b, step)[Len(b) + 1] = step
  BY AppendProperties, LenProperties

(* A push adds its middleware at the end of the list of its kind. *)
LEMMA ListedPush ==
    ASSUME NEW b \in Seq(BuildStep), NEW kind \in {"sync", "stream"},
           NEW mws \in Seq(Middleware), NEW mw \in Middleware,
           Listed(b, mws, kind, Len(b))
    PROVE  Listed(Append(b, [do |-> "use", kind |-> kind, of |-> mw]),
                  Append(mws, mw), kind, Len(b) + 1)
  <1> DEFINE step == [do |-> "use", kind |-> kind, of |-> mw]
             c == Append(b, step)
             nws == Append(mws, mw)
             n == Len(b)
             m == Len(mws)
  <1>0. step \in BuildStep
    BY DEF BuildStep
  <1>1. /\ n \in Nat /\ DOMAIN c = 1 .. n + 1
        /\ \A i \in 1 .. n : c[i] = b[i]
        /\ c[n + 1] = step
    BY <1>0, Appended
  <1>2. /\ m \in Nat /\ DOMAIN mws = 1 .. m /\ DOMAIN nws = 1 .. m + 1
        /\ \A i \in 1 .. m : nws[i] = mws[i]
        /\ nws[m + 1] = mw
    BY Appended
  <1>3. PICK f \in [DOMAIN mws -> 1 .. n] : ListedBy(b, mws, kind, n, f)
    BY DEF Listed
  <1> DEFINE g == [p \in 1 .. m + 1 |-> IF p = m + 1 THEN n + 1 ELSE f[p]]
  <1> HIDE DEF step, c, nws, n, m
  <1>4. /\ g \in [1 .. m + 1 -> 1 .. n + 1]
        /\ g[m + 1] = n + 1
        /\ \A p \in 1 .. m : g[p] = f[p] /\ f[p] \in 1 .. n
    BY <1>1, <1>2, <1>3
  <1> HIDE DEF g
  <1>5. \A p, q \in 1 .. m + 1 : p < q => g[p] < g[q]
    <2>1. \A p, q \in 1 .. m : p < q => f[p] < f[q]
      BY <1>2, <1>3 DEF ListedBy
    <2>2. ASSUME NEW p \in 1 .. m + 1, NEW q \in 1 .. m + 1, p < q PROVE g[p] < g[q]
      <3>1. p \in 1 .. m /\ g[p] = f[p] /\ f[p] \in 1 .. n
        BY <1>2, <1>4, <2>2
      <3>2. CASE q = m + 1
        BY <1>1, <1>4, <3>1, <3>2
      <3>3. CASE q \in 1 .. m
        BY <1>4, <2>1, <2>2, <3>1, <3>3
      <3> QED
        BY <1>2, <3>2, <3>3
    <2> QED
      BY <2>2
  <1>6. \A p \in 1 .. m + 1 : c[g[p]] = [do |-> "use", kind |-> kind, of |-> nws[p]]
    <2> TAKE p \in 1 .. m + 1
    <2>1. CASE p = m + 1
      BY <1>1, <1>2, <1>4, <2>1 DEF step
    <2>2. CASE p \in 1 .. m
      <3>1. b[f[p]] = [do |-> "use", kind |-> kind, of |-> mws[p]]
        BY <1>2, <1>3, <2>2 DEF ListedBy
      <3> QED
        BY <1>1, <1>2, <1>4, <2>2, <3>1
    <2> QED
      BY <1>2, <2>1, <2>2
  <1>7. \A j \in 1 .. n + 1 : c[j].do = "use" /\ c[j].kind = kind =>
           \E p \in 1 .. m + 1 : g[p] = j
    <2> TAKE j \in 1 .. n + 1
    <2>1. CASE j = n + 1
      BY <1>2, <1>4, <2>1
    <2>2. ASSUME j \in 1 .. n, c[j].do = "use", c[j].kind = kind
          PROVE  \E p \in 1 .. m + 1 : g[p] = j
      <3>1. PICK p \in 1 .. m : f[p] = j
        BY <1>1, <1>2, <1>3, <2>2 DEF ListedBy
      <3>2. p \in 1 .. m + 1 /\ g[p] = j
        BY <1>2, <1>4, <3>1
      <3> QED
        BY <3>2
    <2> QED
      BY <1>1, <2>1, <2>2
  <1>8. Listed(c, nws, kind, n + 1)
    <2>1. ListedBy(c, nws, kind, n + 1, g)
      BY <1>2, <1>5, <1>6, <1>7 DEF ListedBy
    <2>2. g \in [DOMAIN nws -> 1 .. n + 1]
      BY <1>2, <1>4
    <2> QED
      BY <2>1, <2>2 DEF Listed
  <1> QED
    BY <1>8 DEF c, nws, n, step

(* A builder call of another sort adds nothing to the list. *)
LEMMA ListedKeep ==
    ASSUME NEW b \in Seq(BuildStep), NEW kind \in {"sync", "stream"},
           NEW mws \in Seq(Middleware), NEW step \in BuildStep,
           step.do # "use" \/ step.kind # kind,
           Listed(b, mws, kind, Len(b))
    PROVE  Listed(Append(b, step), mws, kind, Len(b) + 1)
  <1> DEFINE c == Append(b, step)
             n == Len(b)
  <1>1. /\ n \in Nat /\ \A i \in 1 .. n : c[i] = b[i]
        /\ c[n + 1] = step
    BY Appended
  <1>2. PICK f \in [DOMAIN mws -> 1 .. n] : ListedBy(b, mws, kind, n, f)
    BY DEF Listed
  <1> HIDE DEF c, n
  <1>3. f \in [DOMAIN mws -> 1 .. n + 1]
    BY <1>1, <1>2
  <1>4. \A p \in DOMAIN mws : c[f[p]] = [do |-> "use", kind |-> kind, of |-> mws[p]]
    BY <1>1, <1>2 DEF ListedBy
  <1>5. \A j \in 1 .. n + 1 : c[j].do = "use" /\ c[j].kind = kind =>
           \E p \in DOMAIN mws : f[p] = j
    <2> TAKE j \in 1 .. n + 1
    <2>1. j = n + 1 \/ j \in 1 .. n
      BY <1>1
    <2> QED
      BY <1>1, <1>2, <2>1 DEF ListedBy
  <1>6. ListedBy(c, mws, kind, n + 1, f)
    BY <1>2, <1>4, <1>5 DEF ListedBy
  <1> QED
    BY <1>3, <1>6 DEF Listed, c, n

(* What was pushed before an earlier call does not depend on later ones. *)
LEMMA ListedPrefix ==
    ASSUME NEW b \in Seq(BuildStep), NEW kind, NEW mws, NEW step \in BuildStep,
           NEW n \in 0 .. Len(b), Listed(b, mws, kind, n)
    PROVE  Listed(Append(b, step), mws, kind, n)
  <1> DEFINE c == Append(b, step)
  <1>1. Len(b) \in Nat /\ \A i \in 1 .. Len(b) : c[i] = b[i]
    BY Appended
  <1>2. \A i \in 1 .. n : c[i] = b[i]
    BY <1>1
  <1> HIDE DEF c
  <1>3. PICK f \in [DOMAIN mws -> 1 .. n] : ListedBy(b, mws, kind, n, f)
    BY DEF Listed
  <1>4. ListedBy(c, mws, kind, n, f)
    <2>1. \A p \in DOMAIN mws : f[p] \in 1 .. n /\ c[f[p]] = b[f[p]]
      BY <1>2, <1>3
    <2> QED
      BY <1>2, <1>3, <2>1 DEF ListedBy
  <1> QED
    BY <1>3, <1>4 DEF Listed, c

-----------------------------------------------------------------------------
(* The builder. *)

(* The initial state satisfies the invariant. *)
LEMMA DispatchInit == Init => IndInv
  <1> SUFFICES ASSUME Init PROVE IndInv
    OBVIOUS
  <1>1. TypeOK
    <2>1. DOMAIN handlers = {} /\ handlers \in [{} -> Handler]
      BY DEF Init
    <2>2. call \in [Calls -> {Idle} \cup Running]
      BY DEF Init
    <2>3. /\ <<>> \in Seq(Middleware) /\ <<>> \in Seq(BuildStep)
      BY EmptySeq
    <2> QED
      BY <2>1, <2>2, <2>3, Zenon DEF Init, TypeOK
  <1>2. Started = {} /\ Admitted = {}
    BY DEF Init, Started, Admitted, Idle
  <1>3. BuildInv
    <2>1. ASSUME NEW kind PROVE Listed(<<>>, <<>>, kind, 0)
      <3>1. DOMAIN <<>> = {}
        <4>1. <<>> \in Seq({}) /\ Len(<<>>) = 0
          BY EmptySeq
        <4> QED
          BY <4>1, LenProperties
      <3>2. PICK f : f \in [{} -> 1 .. 0]
        <4>1. [p \in {} |-> 1] \in [{} -> 1 .. 0]
          OBVIOUS
        <4> QED
          BY <4>1
      <3>3. ListedBy(<<>>, <<>>, kind, 0, f)
        <4>1. 1 .. 0 = {}
          OBVIOUS
        <4> QED
          BY <3>1, <4>1, Zenon DEF ListedBy
      <3> QED
        BY <3>1, <3>2, <3>3, Zenon DEF Listed
    <2> QED
      BY <2>1 DEF Init, BuildInv
  <1>4. RateInv
    BY <1>2, FS_EmptySet, DispatchAssumption DEF Init, RateInv
  <1> QED
    BY <1>1, <1>2, <1>3, <1>4 DEF IndInv, CallInv

(* A later builder call that does not register o leaves its registration.    *)
LEMMA RegistrationKept ==
    ASSUME NEW b \in Seq(BuildStep), NEW step \in BuildStep, NEW o, NEW i \in DOMAIN b,
           LastRegistration(b, o, i), step.do # "handle" \/ step.of # o
    PROVE  LastRegistration(Append(b, step), o, i)
  <1>1. /\ Len(b) \in Nat
        /\ DOMAIN b = 1 .. Len(b) /\ DOMAIN Append(b, step) = 1 .. Len(b) + 1
        /\ \A j \in 1 .. Len(b) : Append(b, step)[j] = b[j]
        /\ Append(b, step)[Len(b) + 1] = step
    BY Appended
  <1> QED
    BY <1>1 DEF LastRegistration

(* The call that registers o is its last registration. *)
LEMMA RegistrationNew ==
    ASSUME NEW b \in Seq(BuildStep), NEW step \in BuildStep, step.do = "handle"
    PROVE  LastRegistration(Append(b, step), step.of, Len(b) + 1)
  <1>1. /\ Len(b) \in Nat /\ DOMAIN Append(b, step) = 1 .. Len(b) + 1
        /\ Append(b, step)[Len(b) + 1] = step
    BY Appended
  <1> QED
    BY <1>1 DEF LastRegistration

(* What is known of a handler that a builder call does not register.         *)
LEMMA HandlerKept ==
    ASSUME TypeOK, NEW step \in BuildStep, NEW o, NEW h \in Handler,
           step.do # "handle" \/ step.of # o,
           NEW i \in DOMAIN built, LastRegistration(built, o, i),
           built[i].kind = h.kind, Listed(built, h.chain, h.kind, i - 1)
    PROVE  LET c == Append(built, step) IN
           /\ i \in DOMAIN c /\ LastRegistration(c, o, i)
           /\ c[i].kind = h.kind /\ Listed(c, h.chain, h.kind, i - 1)
  <1>1. built \in Seq(BuildStep)
    BY DEF TypeOK
  <1>2. /\ Len(built) \in Nat
        /\ DOMAIN built = 1 .. Len(built)
        /\ DOMAIN Append(built, step) = 1 .. Len(built) + 1
        /\ \A j \in 1 .. Len(built) : Append(built, step)[j] = built[j]
    BY <1>1, Appended
  <1>3. i - 1 \in 0 .. Len(built)
    BY <1>2
  <1>4. Listed(Append(built, step), h.chain, h.kind, i - 1)
    BY <1>1, <1>3, ListedPrefix
  <1>5. LastRegistration(Append(built, step), o, i)
    BY <1>1, RegistrationKept
  <1> QED
    BY <1>2, <1>4, <1>5

(* The builder keeps the types. *)
LEMMA TypeBuilding ==
    ASSUME TypeOK, Building
    PROVE  TypeOK' /\ ~serving /\ UNCHANGED <<count, call>>
  <1>1. ASSUME NEW mw \in Middleware, use_middleware(mw)
        PROVE  TypeOK' /\ ~serving /\ UNCHANGED <<count, call>>
    <2>1. [do |-> "use", kind |-> "sync", of |-> mw] \in BuildStep
      BY DEF BuildStep
    <2> QED
      BY <1>1, <2>1, AppendProperties DEF use_middleware, Build, TypeOK
  <1>2. ASSUME NEW mw \in StreamMiddleware, use_stream_middleware(mw)
        PROVE  TypeOK' /\ ~serving /\ UNCHANGED <<count, call>>
    <2>1. mw \in Middleware /\ [do |-> "use", kind |-> "stream", of |-> mw] \in BuildStep
      BY DEF BuildStep, StreamMiddleware, Middleware
    <2> QED
      BY <1>2, <2>1, AppendProperties DEF use_stream_middleware, Build, TypeOK
  <1>3. ASSUME NEW o \in Opcodes, handle(o)
        PROVE  TypeOK' /\ ~serving /\ UNCHANGED <<count, call>>
    <2>1. [do |-> "handle", kind |-> "sync", of |-> o] \in BuildStep
      BY DEF BuildStep
    <2>2. [kind |-> "sync", chain |-> Wrapped(middlewares)] \in Handler
      BY FirstIsOutermost DEF TypeOK, Handler
    <2> QED
      BY <1>3, <2>1, <2>2, AppendProperties DEF handle, Insert, Build, TypeOK
  <1>4. ASSUME NEW o \in Opcodes, handle_stream(o)
        PROVE  TypeOK' /\ ~serving /\ UNCHANGED <<count, call>>
    <2>1. [do |-> "handle", kind |-> "stream", of |-> o] \in BuildStep
      BY DEF BuildStep
    <2>2. [kind |-> "stream", chain |-> Wrapped(stream_middlewares)] \in Handler
      BY FirstIsOutermost DEF TypeOK, Handler
    <2> QED
      BY <1>4, <2>1, <2>2, AppendProperties DEF handle_stream, Insert, Build, TypeOK
  <1>5. ASSUME Listen
        PROVE  TypeOK' /\ ~serving /\ UNCHANGED <<count, call>>
    BY <1>5 DEF Listen, TypeOK
  <1> QED
    BY <1>1, <1>2, <1>3, <1>4, <1>5 DEF Building

(* Every chain stays what was pushed before the last registration, whatever  *)
(* the order of the builder calls.                                           *)
LEMMA BuildBuilding ==
    ASSUME TypeOK, BuildInv, Building
    PROVE  BuildInv'
  <1> DEFINE Reg(o, b, h, i) ==
               /\ LastRegistration(b, o, i)
               /\ b[i].kind = h.kind
               /\ Listed(b, h.chain, h.kind, i - 1)
  <1>0. /\ built \in Seq(BuildStep) /\ Len(built) \in Nat
        /\ middlewares \in Seq(Middleware) /\ stream_middlewares \in Seq(Middleware)
        /\ ~serving /\ call' = call
        /\ \A o \in DOMAIN handlers : handlers[o] \in Handler
    BY TypeBuilding DEF TypeOK
  <1>1. ASSUME NEW mw \in Middleware, use_middleware(mw) PROVE BuildInv'
    <2> DEFINE step == [do |-> "use", kind |-> "sync", of |-> mw]
    <2>1. /\ step \in BuildStep /\ step.do = "use" /\ step.kind = "sync"
          /\ built' = Append(built, step) /\ middlewares' = Append(middlewares, mw)
          /\ UNCHANGED <<stream_middlewares, handlers, serving>>
          /\ Len(built') = Len(built) + 1
      BY <1>0, <1>1, Appended DEF use_middleware, Build, BuildStep
    <2>2. Listed(built', middlewares', "sync", Len(built'))
      BY <1>0, <2>1, ListedPush DEF BuildInv
    <2>3. Listed(built', stream_middlewares', "stream", Len(built'))
      BY <1>0, <2>1, ListedKeep DEF BuildInv
    <2> HIDE DEF step
    <2>4. ASSUME NEW o \in DOMAIN handlers
          PROVE  \E i \in DOMAIN built' : Reg(o, built', handlers[o], i)
      <3>1. PICK i \in DOMAIN built : Reg(o, built, handlers[o], i)
        BY DEF BuildInv
      <3> QED
        BY <1>0, <2>1, <3>1, HandlerKept
    <2> QED
      BY <1>0, <2>1, <2>2, <2>3, <2>4 DEF BuildInv
  <1>2. ASSUME NEW mw \in StreamMiddleware, use_stream_middleware(mw) PROVE BuildInv'
    <2> DEFINE step == [do |-> "use", kind |-> "stream", of |-> mw]
    <2>0. mw \in Middleware
      BY DEF StreamMiddleware, Middleware
    <2>1. /\ step \in BuildStep /\ step.do = "use" /\ step.kind = "stream"
          /\ built' = Append(built, step)
          /\ stream_middlewares' = Append(stream_middlewares, mw)
          /\ UNCHANGED <<middlewares, handlers, serving>>
          /\ Len(built') = Len(built) + 1
      BY <1>0, <1>2, <2>0, Appended DEF use_stream_middleware, Build, BuildStep
    <2>2. Listed(built', stream_middlewares', "stream", Len(built'))
      BY <1>0, <2>0, <2>1, ListedPush DEF BuildInv
    <2>3. Listed(built', middlewares', "sync", Len(built'))
      BY <1>0, <2>1, ListedKeep DEF BuildInv
    <2> HIDE DEF step
    <2>4. ASSUME NEW o \in DOMAIN handlers
          PROVE  \E i \in DOMAIN built' : Reg(o, built', handlers[o], i)
      <3>1. PICK i \in DOMAIN built : Reg(o, built, handlers[o], i)
        BY DEF BuildInv
      <3> QED
        BY <1>0, <2>1, <3>1, HandlerKept
    <2> QED
      BY <1>0, <2>1, <2>2, <2>3, <2>4 DEF BuildInv
  <1>3. ASSUME NEW o \in Opcodes, NEW kind \in {"sync", "stream"}, NEW mws \in Seq(Middleware),
               Listed(built, mws, kind, Len(built)),
               built' = Append(built, [do |-> "handle", kind |-> kind, of |-> o]),
               Insert(o, [kind |-> kind, chain |-> Wrapped(mws)]),
               UNCHANGED <<middlewares, stream_middlewares, serving>>
        PROVE  BuildInv'
    <2> DEFINE step == [do |-> "handle", kind |-> kind, of |-> o]
               h == [kind |-> kind, chain |-> Wrapped(mws)]
    <2>1. /\ step \in BuildStep /\ step.do = "handle" /\ step.kind = kind /\ step.of = o
          /\ built' = Append(built, step)
          /\ Len(built') = Len(built) + 1 /\ DOMAIN built' = 1 .. Len(built) + 1
          /\ built'[Len(built) + 1] = step
      BY <1>0, <1>3, Appended DEF BuildStep
    <2>2. /\ DOMAIN handlers' = DOMAIN handlers \cup {o} /\ handlers'[o] = h
          /\ \A p \in DOMAIN handlers \ {o} : handlers'[p] = handlers[p]
      BY <1>3 DEF Insert
    <2>3. h.kind = kind /\ h.chain = mws
      BY FirstIsOutermost
    <2> HIDE DEF step, h
    <2>4. /\ Listed(built', middlewares', "sync", Len(built'))
          /\ Listed(built', stream_middlewares', "stream", Len(built'))
      BY <1>0, <1>3, <2>1, ListedKeep DEF BuildInv
    <2>5. Listed(built', mws, kind, Len(built))
      BY <1>0, <1>3, <2>1, ListedPrefix
    <2>6. /\ Len(built) + 1 \in DOMAIN built'
          /\ Reg(o, built', h, Len(built) + 1)
      <3>1. LastRegistration(built', o, Len(built) + 1)
        BY <1>0, <2>1, RegistrationNew
      <3>2. (Len(built) + 1) - 1 = Len(built)
        BY <1>0
      <3> QED
        BY <1>0, <2>1, <2>3, <2>5, <3>1, <3>2
    <2>7. ASSUME NEW p \in DOMAIN handlers \ {o}
          PROVE  \E i \in DOMAIN built' : Reg(p, built', handlers[p], i)
      <3>1. PICK i \in DOMAIN built : Reg(p, built, handlers[p], i)
        BY DEF BuildInv
      <3> QED
        BY <1>0, <2>1, <2>7, <3>1, HandlerKept
    <2>8. \A p \in DOMAIN handlers' : \E i \in DOMAIN built' : Reg(p, built', handlers'[p], i)
      BY <2>2, <2>6, <2>7
    <2> QED
      BY <1>0, <1>3, <2>4, <2>8 DEF BuildInv
  <1>4. ASSUME NEW o \in Opcodes, handle(o) PROVE BuildInv'
    BY <1>0, <1>3, <1>4 DEF handle, Build, BuildInv
  <1>5. ASSUME NEW o \in Opcodes, handle_stream(o) PROVE BuildInv'
    BY <1>0, <1>3, <1>5 DEF handle_stream, Build, BuildInv
  <1>6. ASSUME Listen PROVE BuildInv'
    BY <1>6 DEF Listen, BuildInv
  <1> QED
    BY <1>1, <1>2, <1>4, <1>5, <1>6 DEF Building

-----------------------------------------------------------------------------
(* The calls. *)

(* What is to be shown of a step of the task of k: the call stays well typed *)
(* and where its chain says it is, and it is newly admitted only if the      *)
(* limiter counted it within its max.                                        *)
StepOK(k) ==
    /\ call'[k] \in Running
    /\ count' \in Nat /\ count <= count'
    /\ k \in Started' => CallOK(k)'
    /\ k \in Admitted' => \/ k \in Admitted
                          \/ count' = count + 1 /\ count' <= RateMax

(* A task changes its own call only, and only while the server serves. *)
LEMMA TaskFrame ==
    ASSUME TypeOK, BuildInv, NEW k \in Calls, Task(k)
    PROVE  /\ UNCHANGED buildVars
           /\ serving
           /\ \A j \in Calls \ {k} : call'[j] = call[j]
           /\ call' \in [Calls -> {call'[j] : j \in Calls}]
  <1>1. UNCHANGED buildVars /\ \E c : call' = [call EXCEPT ![k] = c]
    BY DEF Task, Arrive, PassThrough, require_api_key_id, rate_limit, Body, Outwards,
           Answer, Inwards, Rejected, Set
  <1>2. serving
    <2>1. serving \/ call[k].pc \in {"in", "out"}
      BY DEF Task, Arrive, PassThrough, require_api_key_id, rate_limit, Body, Outwards,
             Answer, At
    <2>2. call[k].pc \in {"in", "out"} => call[k] # Idle
      BY DEF Idle
    <2> QED
      BY <2>1, <2>2 DEF BuildInv
  <1> QED
    BY <1>1, <1>2 DEF TypeOK

(* The lookup puts a call in front of its chain. *)
LEMMA ArriveStep ==
    ASSUME TypeOK, NEW k \in Calls, NEW o \in Opcodes, NEW id \in Ids,
           NEW via \in {"quic", "tcp"}, Arrive(k, o, id, via)
    PROVE  StepOK(k)
  <1> DEFINE d == call'[k]
  <1>1. /\ d = [pc |-> IF o \notin DOMAIN handlers THEN "NotFound"
                       ELSE IF handlers[o].kind = "stream" /\ via = "tcp" THEN "BadRequest"
                       ELSE "in",
                op |-> o, id |-> id, at |-> 1, res |-> "none",
                ran |-> FALSE, lines |-> 0, recent |-> TRUE]
        /\ UNCHANGED <<count, handlers>>
    BY DEF Arrive, Set, TypeOK
  <1>2. /\ d \in Running /\ d.op = o /\ d.at = 1 /\ ~d.ran
        /\ d.pc \in {"in", "NotFound", "BadRequest"}
        /\ d.pc = "in" => o \in DOMAIN handlers
    BY <1>1 DEF Running
  <1> HIDE DEF d
  <1>3. count \in Nat /\ (o \in DOMAIN handlers => handlers[o].chain \in Seq(Middleware))
    BY DEF TypeOK, Handler
  <1>4. k \in Started' => d.pc = "in"
    BY <1>2 DEF Started, d
  <1>5. d.pc = "in" => CallOK(k)'
    <2> SUFFICES ASSUME d.pc = "in" PROVE CallOK(k)'
      OBVIOUS
    <2>1. Chain(k)' = handlers[o].chain /\ Chain(k)' \in Seq(Middleware)
      BY <1>1, <1>2, <1>3 DEF Chain, d
    <2>2. Len(Chain(k)') \in Nat /\ DOMAIN Chain(k)' = 1 .. Len(Chain(k)')
      BY <2>1, LenProperties
    <2>3. \A p \in DOMAIN Chain(k)' : ~Past(k, p)'
      BY <1>2, <2>2 DEF Past, d
    <2> QED
      BY <1>1, <1>2, <2>2, <2>3 DEF CallOK, d
  <1>6. k \notin Admitted'
    <2> SUFFICES ASSUME k \in Admitted' PROVE FALSE
      OBVIOUS
    <2>1. d.pc = "in"
      BY <1>4 DEF Admitted
    <2>2. Chain(k)' = handlers[o].chain /\ Chain(k)' \in Seq(Middleware)
      BY <1>1, <1>2, <1>3, <2>1 DEF Chain, d
    <2>3. \A p \in DOMAIN Chain(k)' : p \in Nat \ {0}
      BY <2>2, LenProperties
    <2> QED
      BY <1>2, <2>3 DEF Admitted, Past, d
  <1> QED
    BY <1>1, <1>2, <1>3, <1>4, <1>5, <1>6 DEF StepOK, d

(* What is known of a call in its chain. *)
LEMMA InChain ==
    ASSUME TypeOK, CallInv, NEW k \in Calls, call[k].pc \in {"in", "out"}
    PROVE  /\ call[k] \in Running /\ k \in Started /\ CallOK(k)
           /\ Chain(k) \in Seq(Middleware)
           /\ Len(Chain(k)) \in Nat /\ DOMAIN Chain(k) = 1 .. Len(Chain(k))
  <1>1. call[k] \in Running /\ k \in Started
    BY DEF TypeOK, Idle, Started
  <1>2. CallOK(k)
    BY <1>1 DEF CallInv
  <1>3. Chain(k) \in Seq(Middleware)
    BY <1>2 DEF CallOK, Chain, TypeOK, Handler
  <1> QED
    BY <1>1, <1>2, <1>3, LenProperties

(* A middleware lets the call in: a guard only if it allows it. *)
LEMMA InwardsStep ==
    ASSUME TypeOK, CallInv, NEW k \in Calls, NEW mw, At(k, "in", mw), Inwards(k),
           mw = "require" => call[k].id \in Allowed,
           \/ mw # "rate_limit" /\ count' = count
           \/ count' = count + 1 /\ count' <= RateMax
    PROVE  StepOK(k)
  <1> DEFINE c == call[k]
             d == call'[k]
             ch == Chain(k)
  <1>1. c.pc = "in" /\ c.at \in DOMAIN ch /\ ch[c.at] = mw
    BY DEF At
  <1>2. /\ c \in Running /\ k \in Started /\ CallOK(k) /\ Len(ch) \in Nat
        /\ DOMAIN ch = 1 .. Len(ch)
    BY <1>1, InChain
  <1>3. d = [c EXCEPT !.at = @ + 1] /\ UNCHANGED handlers
    BY DEF Inwards, Set, TypeOK
  <1>4. /\ d \in Running /\ d.pc = "in" /\ d.at = c.at + 1 /\ d.op = c.op /\ d.id = c.id
        /\ d.ran = c.ran /\ d.recent = c.recent
    BY <1>1, <1>2, <1>3 DEF Running
  <1>5. Chain(k)' = ch
    BY <1>3, <1>4 DEF Chain
  <1>6. ~c.ran /\ ~d.ran
    BY <1>1, <1>2, <1>4 DEF CallOK
  <1>7. \A p \in DOMAIN ch : Past(k, p)' => Past(k, p) \/ p = c.at
    BY <1>1, <1>2, <1>4, <1>6 DEF Past
  <1> HIDE DEF c, d, ch
  <1>8. CallOK(k)'
    <2>1. \A p \in DOMAIN ch : ch[p] = "require" /\ Past(k, p)' => d.id \in Allowed
      BY <1>1, <1>2, <1>4, <1>7 DEF CallOK, c, ch
    <2>2. c.op \in DOMAIN handlers
      BY <1>2 DEF CallOK, c
    <2> QED
      BY <1>1, <1>2, <1>3, <1>4, <1>5, <1>6, <2>1, <2>2 DEF CallOK, d
  <1>9. ASSUME k \in Admitted'
        PROVE  k \in Admitted \/ (count' = count + 1 /\ count' <= RateMax)
    <2>1. PICK p \in DOMAIN ch : ch[p] = "rate_limit" /\ Past(k, p)' /\ d.recent
      BY <1>5, <1>9 DEF Admitted, d
    <2>2. CASE Past(k, p)
      BY <1>2, <1>4, <2>1, <2>2 DEF Admitted, c, ch
    <2>3. CASE p = c.at
      BY <1>1, <2>1, <2>3
    <2> QED
      BY <1>7, <2>1, <2>2, <2>3
  <1>10. count' \in Nat /\ count <= count'
    BY DEF TypeOK
  <1> QED
    BY <1>4, <1>8, <1>9, <1>10 DEF StepOK, d

(* A guard turns the call away: it goes back out without its body. *)
LEMMA RejectedStep ==
    ASSUME TypeOK, CallInv, NEW k \in Calls, NEW mw \in Guards, At(k, "in", mw),
           Rejected(k), count' \in {count, count + 1}
    PROVE  StepOK(k)
  <1> DEFINE c == call[k]
             d == call'[k]
             ch == Chain(k)
  <1>1. c.pc = "in" /\ c.at \in DOMAIN ch /\ ch[c.at] = mw
    BY DEF At
  <1>2. /\ c \in Running /\ k \in Started /\ CallOK(k) /\ Len(ch) \in Nat
        /\ DOMAIN ch = 1 .. Len(ch)
    BY <1>1, InChain
  <1>3. d = [c EXCEPT !.pc = "out", !.at = @ - 1, !.res = "err"] /\ UNCHANGED handlers
    BY DEF Rejected, Set, TypeOK
  <1>4. /\ d \in Running /\ d.pc = "out" /\ d.at = c.at - 1 /\ d.op = c.op /\ d.id = c.id
        /\ d.ran = c.ran /\ d.res = "err"
    <2>1. c.at - 1 \in Nat
      BY <1>1, <1>2
    <2> HIDE DEF c, d, ch
    <2> QED
      BY <1>2, <1>3, <2>1 DEF Running
  <1>5. Chain(k)' = ch
    BY <1>3, <1>4 DEF Chain
  <1>6. ~d.ran
    BY <1>1, <1>2, <1>4 DEF CallOK
  <1> HIDE DEF c, d, ch
  <1>7. \A p, q \in DOMAIN ch : Logs(ch, p, q) => p <= d.at
    BY <1>1, <1>2, <1>4 DEF Logs
  <1>8. CallOK(k)'
    <2>1. c.op \in DOMAIN handlers
      BY <1>2 DEF CallOK, c
    <2> QED
      BY <1>1, <1>2, <1>3, <1>4, <1>5, <1>6, <1>7, <2>1 DEF CallOK, Past, d
  <1>9. k \notin Admitted'
    BY <1>4, <1>6 DEF Admitted, Past, d
  <1>10. count' \in Nat /\ count <= count'
    BY DEF TypeOK
  <1> QED
    BY <1>4, <1>8, <1>9, <1>10 DEF StepOK, d

(* The body returns or panics, once every guard has let the call in. *)
LEMMA BodyStep ==
    ASSUME TypeOK, CallInv, NEW k \in Calls, Body(k)
    PROVE  StepOK(k)
  <1> DEFINE c == call[k]
             d == call'[k]
             ch == Chain(k)
  <1>1. c.pc = "in" /\ c.at = Len(ch) + 1 /\ UNCHANGED <<count, handlers>>
    BY DEF Body, Set
  <1>2. /\ c \in Running /\ k \in Started /\ CallOK(k) /\ Len(ch) \in Nat
        /\ DOMAIN ch = 1 .. Len(ch)
    BY <1>1, InChain
  <1>3. PICK res \in {"ok", "err", "panic"} :
          d = [c EXCEPT !.pc = "out", !.at = @ - 1, !.res = res, !.ran = TRUE]
    BY DEF Body, Set, TypeOK
  <1>4. /\ d \in Running /\ d.pc = "out" /\ d.at = Len(ch) /\ d.op = c.op /\ d.id = c.id
        /\ d.recent = c.recent
    <2>1. c.at - 1 = Len(ch) /\ c.at - 1 \in Nat
      BY <1>1, <1>2
    <2> HIDE DEF c, d, ch
    <2> QED
      BY <1>2, <1>3, <2>1 DEF Running
  <1>5. Chain(k)' = ch
    BY <1>1, <1>4 DEF Chain
  <1>6. \A p \in DOMAIN ch : Past(k, p)
    BY <1>1, <1>2 DEF Past
  <1> HIDE DEF c, d, ch
  <1>7. CallOK(k)'
    <2>1. c.op \in DOMAIN handlers /\ \A p \in DOMAIN ch : ch[p] = "require" => d.id \in Allowed
      BY <1>2, <1>4, <1>6 DEF CallOK, c, ch
    <2> QED
      BY <1>1, <1>2, <1>4, <1>5, <2>1 DEF CallOK, Logs, d
  <1>8. k \in Admitted' => k \in Admitted
    BY <1>2, <1>4, <1>5, <1>6 DEF Admitted, c, d, ch
  <1> QED
    BY <1>1, <1>4, <1>7, <1>8 DEF StepOK, TypeOK, d

(* On the way out logging leaves a line unless it unwinds, and recovery ends *)
(* a panic.                                                                  *)
LEMMA OutwardsStep ==
    ASSUME TypeOK, CallInv, NEW k \in Calls, Outwards(k)
    PROVE  StepOK(k)
  <1> DEFINE c == call[k]
             d == call'[k]
             ch == Chain(k)
  <1>1. c.pc = "out" /\ c.at > 0 /\ UNCHANGED <<count, handlers>>
    BY DEF Outwards, Set
  <1>2. /\ c \in Running /\ k \in Started /\ CallOK(k) /\ Len(ch) \in Nat
        /\ DOMAIN ch = 1 .. Len(ch)
    BY <1>1, InChain
  <1>3. LET e == [c EXCEPT !.at = @ - 1] IN
        d = IF ch[c.at] = "logging" /\ e.res # "panic" THEN [e EXCEPT !.lines = @ + 1]
            ELSE IF ch[c.at] = "recovery" /\ e.res = "panic" THEN [e EXCEPT !.res = "err"]
            ELSE e
    BY DEF Outwards, Set, TypeOK
  <1>4. /\ d \in Running /\ d.pc = "out" /\ d.at = c.at - 1 /\ d.op = c.op /\ d.id = c.id
        /\ d.recent = c.recent /\ d.ran = c.ran
        /\ d.lines = IF ch[c.at] = "logging" /\ c.res # "panic" THEN c.lines + 1 ELSE c.lines
        /\ d.res = IF ch[c.at] = "recovery" /\ c.res = "panic" THEN "err" ELSE c.res
    <2> DEFINE e == [c EXCEPT !.at = @ - 1]
    <2>1. c.at - 1 \in Nat
      BY <1>1, <1>2 DEF Running
    <2> HIDE DEF c, d, ch
    <2>2. /\ e \in Running /\ e.pc = c.pc /\ e.at = c.at - 1 /\ e.op = c.op /\ e.id = c.id
          /\ e.recent = c.recent /\ e.ran = c.ran /\ e.lines = c.lines /\ e.res = c.res
      BY <1>2, <2>1 DEF Running
    <2>3. d = IF ch[c.at] = "logging" /\ e.res # "panic" THEN [e EXCEPT !.lines = @ + 1]
              ELSE IF ch[c.at] = "recovery" /\ e.res = "panic" THEN [e EXCEPT !.res = "err"]
              ELSE e
      BY <1>3
    <2> HIDE DEF e
    <2>4. CASE ch[c.at] = "logging" /\ e.res # "panic"
      <3>1. d = [e EXCEPT !.lines = @ + 1]
        BY <2>3, <2>4
      <3> QED
        BY <1>1, <2>2, <2>4, <3>1 DEF Running
    <2>5. CASE ch[c.at] = "recovery" /\ e.res = "panic"
      <3>1. d = [e EXCEPT !.res = "err"]
        BY <2>3, <2>5
      <3> QED
        BY <1>1, <2>2, <2>5, <3>1 DEF Running
    <2>6. CASE /\ ~(ch[c.at] = "logging" /\ e.res # "panic")
               /\ ~(ch[c.at] = "recovery" /\ e.res = "panic")
      <3>1. d = e
        BY <2>3, <2>6
      <3> QED
        BY <1>1, <2>2, <2>6, <3>1
    <2> QED
      BY <2>4, <2>5, <2>6
  <1>5. Chain(k)' = ch
    BY <1>1, <1>4 DEF Chain
  <1>6. c.at \in 1 .. Len(ch) /\ c.lines \in Nat /\ c.op \in DOMAIN handlers
    BY <1>1, <1>2 DEF CallOK, Running
  <1>7. /\ \A q \in DOMAIN ch : ch[q] = "recovery" /\ c.at < q => c.res # "panic"
        /\ \A p, q \in DOMAIN ch : Logs(ch, p, q) => p <= c.at \/ c.lines > 0
        /\ \A p \in DOMAIN ch : ch[p] = "require" /\ c.ran => c.id \in Allowed
    BY <1>1, <1>2 DEF CallOK, Past
  <1> HIDE DEF c, d, ch
  <1>8. \A q \in DOMAIN ch : ch[q] = "recovery" /\ d.at < q => d.res # "panic"
    BY <1>2, <1>4, <1>6, <1>7
  <1>9. ASSUME NEW p \in DOMAIN ch, NEW q \in DOMAIN ch, Logs(ch, p, q)
        PROVE  p <= d.at \/ d.lines > 0
    <2>1. CASE p = c.at
      <3>1. c.res # "panic" /\ ch[c.at] = "logging"
        BY <1>2, <1>7, <1>9, <2>1 DEF Logs
      <3> QED
        BY <1>4, <1>6, <3>1
    <2>2. CASE p # c.at
      BY <1>2, <1>4, <1>6, <1>7, <1>9, <2>2
    <2> QED
      BY <2>1, <2>2
  <1>10. CallOK(k)'
    <2>1. \A p \in DOMAIN ch : ch[p] = "require" /\ Past(k, p)' => d.id \in Allowed
      BY <1>4, <1>7 DEF Past, d
    <2> QED
      BY <1>1, <1>2, <1>4, <1>5, <1>6, <1>8, <1>9, <2>1 DEF CallOK, d
  <1>11. k \in Admitted' => k \in Admitted
    BY <1>2, <1>4, <1>5 DEF Admitted, Past, c, d, ch
  <1> QED
    BY <1>1, <1>4, <1>10, <1>11 DEF StepOK, TypeOK, d

(* The answer closes the call. *)
LEMMA AnswerStep ==
    ASSUME TypeOK, CallInv, NEW k \in Calls, Answer(k)
    PROVE  StepOK(k)
  <1> DEFINE c == call[k]
             d == call'[k]
             ch == Chain(k)
  <1>1. c.pc = "out" /\ c.at = 0 /\ UNCHANGED <<count, handlers>>
    BY DEF Answer, Set
  <1>2. /\ c \in Running /\ k \in Started /\ CallOK(k) /\ Len(ch) \in Nat
        /\ DOMAIN ch = 1 .. Len(ch)
    BY <1>1, InChain
  <1>3. d = [c EXCEPT !.pc = IF c.res = "panic" THEN "died"
                             ELSE IF handlers[c.op].kind = "stream" THEN "ended"
                             ELSE IF c.res = "ok" THEN "Handled" ELSE "InternalError"]
    BY DEF Answer, Set, TypeOK
  <1>4. /\ d \in Running /\ d.pc \in {"died", "ended", "Handled", "InternalError"}
        /\ d.pc = "died" => c.res = "panic"
        /\ d.at = c.at /\ d.op = c.op /\ d.id = c.id /\ d.recent = c.recent
        /\ d.ran = c.ran /\ d.lines = c.lines /\ d.res = c.res
    BY <1>2, <1>3 DEF Running
  <1>5. Chain(k)' = ch
    BY <1>1, <1>4 DEF Chain
  <1>6. /\ c.op \in DOMAIN handlers
        /\ \A q \in DOMAIN ch : ch[q] = "recovery" /\ c.at < q => c.res # "panic"
        /\ \A p, q \in DOMAIN ch : Logs(ch, p, q) => p <= c.at \/ c.lines > 0
        /\ \A p \in DOMAIN ch : ch[p] = "require" /\ c.ran => c.id \in Allowed
    BY <1>1, <1>2 DEF CallOK, Past
  <1> HIDE DEF c, d, ch
  <1>7. CallOK(k)'
    <2>1. \A p \in DOMAIN ch : ch[p] = "require" /\ Past(k, p)' => d.id \in Allowed
      BY <1>4, <1>6 DEF Past, d
    <2> QED
      BY <1>1, <1>4, <1>5, <1>6, <2>1 DEF CallOK, d
  <1>8. k \in Admitted' => k \in Admitted
    BY <1>2, <1>4, <1>5 DEF Admitted, Past, c, d, ch
  <1> QED
    BY <1>1, <1>4, <1>7, <1>8 DEF StepOK, TypeOK, d

(* Every step of a task is one of the above. *)
LEMMA TaskStep ==
    ASSUME TypeOK, BuildInv, CallInv, NEW k \in Calls, Task(k)
    PROVE  StepOK(k)
  <1>1. CASE \E o \in Opcodes, id \in Ids, via \in {"quic", "tcp"} : Arrive(k, o, id, via)
    BY <1>1, ArriveStep
  <1>2. CASE PassThrough(k)
    <2>1. PICK mw \in {"logging", "silent", "recovery"} : At(k, "in", mw)
      BY <1>2 DEF PassThrough
    <2>2. Inwards(k) /\ count' = count /\ mw # "require" /\ mw # "rate_limit"
      BY <1>2, <2>1 DEF PassThrough
    <2> QED
      BY <2>1, <2>2, InwardsStep
  <1>3. CASE require_api_key_id(k)
    <2>1. /\ At(k, "in", "require") /\ count' = count
          /\ \/ call[k].id \in Allowed /\ Inwards(k)
             \/ Rejected(k)
      BY <1>3 DEF require_api_key_id
    <2>2. CASE call[k].id \in Allowed /\ Inwards(k)
      BY <2>1, <2>2, InwardsStep
    <2>3. CASE Rejected(k)
      BY <2>1, <2>3, RejectedStep DEF Guards
    <2> QED
      BY <2>1, <2>2, <2>3
  <1>4. CASE rate_limit(k)
    <2>1. /\ At(k, "in", "rate_limit") /\ count' = count + 1
          /\ \/ ~(count' > RateMax) /\ Inwards(k)
             \/ Rejected(k)
      BY <1>4 DEF rate_limit
    <2>2. CASE ~(count' > RateMax) /\ Inwards(k)
      <3>1. count' <= RateMax
        BY <2>1, <2>2, DispatchAssumption DEF TypeOK
      <3> QED
        BY <2>1, <2>2, <3>1, InwardsStep
    <2>3. CASE Rejected(k)
      BY <2>1, <2>3, RejectedStep DEF Guards
    <2> QED
      BY <2>1, <2>2, <2>3
  <1> QED
    BY <1>1, <1>2, <1>3, <1>4, BodyStep, OutwardsStep, AnswerStep DEF Task

(* A call that a step does not touch keeps what is known of it. *)
LEMMA CallKept ==
    ASSUME NEW j \in Calls, call'[j] = call[j], UNCHANGED handlers
    PROVE  /\ j \in Started' <=> j \in Started
           /\ CallOK(j) => CallOK(j)'
           /\ j \in Admitted' <=> j \in Admitted
  <1>1. Chain(j)' = Chain(j) /\ \A p : Past(j, p)' = Past(j, p)
    BY DEF Chain, Past
  <1>2. j \in Started' <=> j \in Started
    BY DEF Started
  <1>3. CallOK(j) => CallOK(j)'
    BY <1>1 DEF CallOK, Past
  <1>4. j \in Admitted' <=> j \in Admitted
    BY <1>1, <1>2 DEF Admitted, Past
  <1> QED
    BY <1>2, <1>3, <1>4

(* Every step keeps the invariant. *)
LEMMA DispatchNext == IndInv /\ [Next]_vars => IndInv'
  <1> SUFFICES ASSUME IndInv, [Next]_vars PROVE IndInv'
    OBVIOUS
  <1> USE DEF IndInv
  <1>1. CASE Building
    <2>1. TypeOK' /\ BuildInv' /\ ~serving /\ UNCHANGED <<count, call>>
      BY <1>1, TypeBuilding, BuildBuilding
    <2>2. Started' = {} /\ Admitted' = {}
      BY <2>1 DEF BuildInv, Started, Admitted, Idle
    <2>3. RateInv'
      BY <2>1, <2>2, FS_EmptySet, DispatchAssumption DEF RateInv, TypeOK
    <2> QED
      BY <2>1, <2>2, <2>3 DEF CallInv
  <1>2. ASSUME NEW k \in Calls, Task(k) PROVE IndInv'
    <2>1. /\ UNCHANGED buildVars /\ serving
          /\ \A j \in Calls \ {k} : call'[j] = call[j]
          /\ call' \in [Calls -> {call'[j] : j \in Calls}]
      BY <1>2, TaskFrame
    <2>2. StepOK(k)
      BY <1>2, TaskStep
    <2>3. TypeOK'
      <3>1. \A j \in Calls : call'[j] \in {Idle} \cup Running
        BY <2>1, <2>2 DEF StepOK, TypeOK
      <3>2. call' \in [Calls -> {Idle} \cup Running]
        BY <2>1, <3>1
      <3> QED
        BY <2>1, <2>2, <3>2 DEF StepOK, TypeOK
    <2>4. BuildInv'
      BY <2>1 DEF BuildInv
    <2>5. CallInv'
      <3> SUFFICES ASSUME NEW j \in Started' PROVE CallOK(j)'
        BY DEF CallInv
      <3>1. j \in Calls
        BY DEF Started
      <3>2. CASE j = k
        BY <2>2, <3>2 DEF StepOK
      <3>3. CASE j # k
        BY <2>1, <3>1, <3>3, CallKept DEF CallInv
      <3> QED
        BY <3>2, <3>3
    <2>6. RateInv'
      <3>1. \A j \in Calls \ {k} : j \in Admitted' <=> j \in Admitted
        BY <2>1, CallKept
      <3>2. Admitted \subseteq Calls /\ Admitted' \subseteq Calls
        BY DEF Admitted, Started
      <3>3. /\ IsFiniteSet(Admitted) /\ Cardinality(Admitted) \in Nat
            /\ Cardinality(Admitted) <= count /\ Cardinality(Admitted) <= RateMax
        BY FS_CardinalityType DEF RateInv
      <3>4. count \in Nat /\ count' \in Nat /\ count <= count' /\ RateMax \in Nat
        BY <2>2, DispatchAssumption DEF StepOK, TypeOK
      <3>5. CASE k \in Admitted' /\ k \notin Admitted
        <4>1. count' = count + 1 /\ count' <= RateMax
          BY <2>2, <3>5 DEF StepOK
        <4>2. Admitted' = Admitted \cup {k}
          BY <3>1, <3>2, <3>5
        <4>3. IsFiniteSet(Admitted') /\ Cardinality(Admitted') = Cardinality(Admitted) + 1
          BY <3>3, <3>5, <4>2, FS_AddElement
        <4> QED
          BY <3>3, <3>4, <4>1, <4>3 DEF RateInv
      <3>6. CASE ~(k \in Admitted' /\ k \notin Admitted)
        <4>1. Admitted' \subseteq Admitted
          BY <3>1, <3>2, <3>6
        <4>2. IsFiniteSet(Admitted') /\ Cardinality(Admitted') <= Cardinality(Admitted)
          BY <3>3, <4>1, FS_Subset
        <4>3. Cardinality(Admitted') \in Nat
          BY <4>2, FS_CardinalityType
        <4> QED
          BY <3>3, <3>4, <4>2, <4>3 DEF RateInv
      <3> QED
        BY <3>5, <3>6
    <2> QED
      BY <2>3, <2>4, <2>5, <2>6
  <1>3. CASE NewWindow
    <2>1. /\ count' = 0 /\ UNCHANGED buildVars
          /\ call' = [k \in Calls |-> IF call[k] = Idle THEN Idle
                                      ELSE [call[k] EXCEPT !.recent = FALSE]]
      BY <1>3 DEF NewWindow
    <2>2. ASSUME NEW k \in Calls
          PROVE  \/ call[k] = Idle /\ call'[k] = Idle
                 \/ /\ call[k] \in Running /\ call'[k] \in Running
                    /\ call'[k] = [call[k] EXCEPT !.recent = FALSE]
      BY <2>1 DEF TypeOK, Running
    <2>3. TypeOK'
      BY <2>1, <2>2 DEF TypeOK
    <2>4. BuildInv'
      BY <2>1 DEF BuildInv
    <2>5. ASSUME NEW k \in Calls, call[k] \in Running,
                 call'[k] = [call[k] EXCEPT !.recent = FALSE]
          PROVE  /\ call'[k].pc = call[k].pc /\ call'[k].op = call[k].op
                 /\ call'[k].id = call[k].id /\ call'[k].at = call[k].at
                 /\ call'[k].res = call[k].res /\ call'[k].ran = call[k].ran
                 /\ call'[k].lines = call[k].lines /\ ~call'[k].recent
      BY <2>5 DEF Running
    <2>6. CallInv'
      <3> SUFFICES ASSUME NEW k \in Started' PROVE CallOK(k)'
        BY DEF CallInv
      <3>1. k \in Calls /\ call'[k] # Idle
        BY DEF Started, Idle
      <3>2. /\ call'[k].pc = call[k].pc /\ call'[k].op = call[k].op
            /\ call'[k].id = call[k].id /\ call'[k].at = call[k].at
            /\ call'[k].res = call[k].res /\ call'[k].ran = call[k].ran
            /\ call'[k].lines = call[k].lines
        BY <2>2, <2>5, <3>1
      <3>3. CallOK(k)
        BY <3>1, <3>2 DEF CallInv, Started
      <3>4. Chain(k)' = Chain(k)
        BY <2>1, <3>2 DEF Chain
      <3> QED
        BY <2>1, <3>2, <3>3, <3>4 DEF CallOK, Past
    <2>7. Admitted' = {}
      <3> SUFFICES ASSUME NEW k \in Admitted' PROVE FALSE
        OBVIOUS
      <3>1. k \in Calls /\ call'[k] # Idle /\ call'[k].recent
        BY DEF Admitted, Started, Idle
      <3> QED
        BY <2>2, <2>5, <3>1
    <2>8. RateInv'
      BY <2>1, <2>7, FS_EmptySet, DispatchAssumption DEF RateInv
    <2> QED
      BY <2>3, <2>4, <2>6, <2>8
  <1>4. CASE UNCHANGED vars
    <2>1. TypeOK' /\ BuildInv'
      BY <1>4 DEF TypeOK, BuildInv
    <2>2. Admitted' = Admitted
      BY <1>4 DEF Admitted, Started, Chain, Past
    <2>3. CallInv'
      BY <1>4 DEF CallInv, CallOK, Started, Chain, Past
    <2> QED
      BY <1>4, <2>1, <2>2, <2>3 DEF RateInv
  <1> QED
    BY <1>1, <1>2, <1>3, <1>4 DEF Next

-----------------------------------------------------------------------------
(* From chains to builder calls. *)

(* Registered names the last registration. *)
LEMMA RegisteredIs ==
    ASSUME TypeOK, NEW o, NEW i \in DOMAIN built, LastRegistration(built, o, i)
    PROVE  Registered(o) = i
  <1>1. DOMAIN built \subseteq Nat
    BY LenProperties DEF TypeOK
  <1>2. \A j \in DOMAIN built : LastRegistration(built, o, j) => j = i
    <2> TAKE j \in DOMAIN built
    <2> HAVE LastRegistration(built, o, j)
    <2>1. i <= j /\ j <= i
      BY DEF LastRegistration
    <2> QED
      BY <1>1, <2>1
  <1>3. Registered(o) = CHOOSE j \in DOMAIN built : LastRegistration(built, o, j)
    BY DEF Registered, LastRegistration
  <1> QED
    BY <1>2, <1>3

(* The positions of a handler's chain are, in their order, the pushes that   *)
(* count for it.                                                             *)
LEMMA ChainIsPushed ==
    ASSUME TypeOK, BuildInv, NEW o \in DOMAIN handlers
    PROVE  LET ch == handlers[o].chain IN
           \E f \in [DOMAIN ch -> Nat] :
              /\ \A p, q \in DOMAIN ch : p < q => f[p] < f[q]
              /\ \A p \in DOMAIN ch : f[p] \in Pushed(o, ch[p])
              /\ \A mw : \A j \in Pushed(o, mw) : \E p \in DOMAIN ch : ch[p] = mw /\ f[p] = j
  <1> DEFINE h == handlers[o]
             ch == h.chain
  <1>1. PICK i \in DOMAIN built :
          /\ LastRegistration(built, o, i)
          /\ built[i].kind = h.kind
          /\ Listed(built, ch, h.kind, i - 1)
    BY DEF BuildInv
  <1>2. Registered(o) = i /\ i \in Nat \ {0}
    BY <1>1, RegisteredIs, LenProperties DEF TypeOK
  <1>3. \A mw : Pushed(o, mw) =
          {j \in 1 .. i - 1 : built[j] = [do |-> "use", kind |-> h.kind, of |-> mw]}
    BY <1>1, <1>2 DEF Pushed
  <1>4. PICK f \in [DOMAIN ch -> 1 .. i - 1] : ListedBy(built, ch, h.kind, i - 1, f)
    BY <1>1 DEF Listed
  <1> HIDE DEF h, ch
  <1>5. f \in [DOMAIN ch -> Nat] /\ \A p \in DOMAIN ch : f[p] \in 1 .. i - 1
    BY <1>2, <1>4
  <1>6. /\ \A p, q \in DOMAIN ch : p < q => f[p] < f[q]
        /\ \A p \in DOMAIN ch : built[f[p]] = [do |-> "use", kind |-> h.kind, of |-> ch[p]]
        /\ \A j \in 1 .. i - 1 : built[j].do = "use" /\ built[j].kind = h.kind =>
              \E p \in DOMAIN ch : f[p] = j
    BY <1>4 DEF ListedBy
  <1>7. \A p \in DOMAIN ch : f[p] \in Pushed(o, ch[p])
    BY <1>3, <1>5, <1>6
  <1>8. ASSUME NEW mw, NEW j \in Pushed(o, mw)
        PROVE  \E p \in DOMAIN ch : ch[p] = mw /\ f[p] = j
    <2>1. j \in 1 .. i - 1 /\ built[j] = [do |-> "use", kind |-> h.kind, of |-> mw]
      BY <1>3
    <2>2. PICK p \in DOMAIN ch : f[p] = j
      BY <1>6, <2>1
    <2>3. built[j] = [do |-> "use", kind |-> h.kind, of |-> ch[p]]
      BY <1>6, <2>2
    <2> QED
      BY <2>1, <2>2, <2>3
  <1> QED
    BY <1>5, <1>6, <1>7, <1>8 DEF ch, h

(* What a finished or running call knows of its chain. *)
LEMMA StartedChain ==
    ASSUME IndInv, NEW k \in Started
    PROVE  /\ k \in Calls /\ call[k] \in Running /\ CallOK(k)
           /\ call[k].op \in DOMAIN handlers
           /\ Chain(k) = handlers[call[k].op].chain
           /\ DOMAIN Chain(k) \subseteq Nat \ {0}
  <1>1. k \in Calls /\ call[k] \in Running
    BY DEF IndInv, TypeOK, Started, Idle
  <1>2. CallOK(k)
    BY DEF IndInv, CallInv
  <1>3. call[k].op \in DOMAIN handlers
    BY <1>2 DEF CallOK
  <1>4. Chain(k) = handlers[call[k].op].chain /\ Chain(k) \in Seq(Middleware)
    BY <1>3 DEF IndInv, TypeOK, Handler, Chain
  <1> QED
    BY <1>1, <1>2, <1>3, <1>4, LenProperties

-----------------------------------------------------------------------------
(* The theorems. *)

(* The inductive invariant holds of every behaviour. *)
THEOREM DispatchInductive == Spec => []IndInv
  BY DispatchInit, DispatchNext, PTL DEF Spec

(* No order of builder calls and no concurrent calls run a guarded handler   *)
(* for a caller that require_api_key_id does not allow (Server::handle).     *)
THEOREM GuardAlways == Spec => []GuardHolds
  <1>1. ASSUME IndInv PROVE GuardHolds
    <2> SUFFICES ASSUME NEW k \in Started, call[k].ran, call[k].id \notin Allowed,
                        NEW j \in Pushed(call[k].op, "require")
                 PROVE  FALSE
      BY DEF GuardHolds
    <2>1. CallOK(k) /\ call[k].op \in DOMAIN handlers /\ Chain(k) = handlers[call[k].op].chain
      BY <1>1, StartedChain
    <2>2. PICK p \in DOMAIN Chain(k) : Chain(k)[p] = "require"
      BY <1>1, <2>1, ChainIsPushed DEF IndInv
    <2> QED
      BY <2>1, <2>2 DEF CallOK, Past
  <1> QED
    BY <1>1, DispatchInductive, PTL

(* Logging outside of recovery and of the guards leaves a line for every     *)
(* call, and recovery anywhere in the chain keeps panics from the task,      *)
(* whatever else the application pushed and registered in whatever order     *)
(* (logging_middleware, recovery_middleware).                                *)
THEOREM LogsAlways == Spec => []LoggedAndAnswered
  <1>1. ASSUME IndInv, NEW k \in Finished
        PROVE  /\ (\E i \in Pushed(call[k].op, "logging"), j \in Pushed(call[k].op, "recovery") :
                      /\ i < j
                      /\ \A g \in Pushed(call[k].op, "require") \cup Pushed(call[k].op, "rate_limit") :
                            i < g)
                    => call[k].lines > 0
               /\ call[k].pc = "died" => Pushed(call[k].op, "recovery") = {}
    <2> DEFINE o == call[k].op
               ch == Chain(k)
    <2>1. k \in Started /\ call[k].pc \notin {"in", "out"}
      BY DEF Finished
    <2>2. /\ CallOK(k) /\ o \in DOMAIN handlers /\ ch = handlers[o].chain
          /\ DOMAIN ch \subseteq Nat \ {0}
      BY <1>1, <2>1, StartedChain
    <2>3. PICK f \in [DOMAIN ch -> Nat] :
            /\ \A p, q \in DOMAIN ch : p < q => f[p] < f[q]
            /\ \A p \in DOMAIN ch : f[p] \in Pushed(o, ch[p])
            /\ \A mw : \A j \in Pushed(o, mw) : \E p \in DOMAIN ch : ch[p] = mw /\ f[p] = j
      BY <1>1, <2>2, ChainIsPushed DEF IndInv
    <2>4. /\ call[k].at = 0
          /\ \A q \in DOMAIN ch : ch[q] = "recovery" /\ call[k].at < q => call[k].res # "panic"
          /\ \A p, q \in DOMAIN ch : Logs(ch, p, q) => p <= call[k].at \/ call[k].lines > 0
          /\ call[k].pc = "died" => call[k].res = "panic"
      BY <2>1, <2>2 DEF CallOK
    <2> HIDE DEF ch, o
    <2>5. ASSUME NEW i \in Pushed(o, "logging"), NEW j \in Pushed(o, "recovery"), i < j,
                 \A g \in Pushed(o, "require") \cup Pushed(o, "rate_limit") : i < g
          PROVE  call[k].lines > 0
      <3>1. PICK p \in DOMAIN ch : ch[p] = "logging" /\ f[p] = i
        BY <2>3
      <3>2. PICK q \in DOMAIN ch : ch[q] = "recovery" /\ f[q] = j
        BY <2>3
      <3>3. \A x, y \in DOMAIN ch : f[x] < f[y] => x < y
        BY <2>2, <2>3
      <3>4. ASSUME NEW g \in DOMAIN ch, ch[g] \in Guards PROVE p < g
        <4>1. f[g] \in Pushed(o, "require") \cup Pushed(o, "rate_limit")
          BY <2>3, <3>4 DEF Guards
        <4> QED
          BY <2>5, <3>1, <3>3, <4>1
      <3>5. Logs(ch, p, q)
        BY <2>5, <3>1, <3>2, <3>3, <3>4 DEF Logs
      <3> QED
        BY <2>2, <2>4, <3>5
    <2>6. ASSUME call[k].pc = "died", NEW j \in Pushed(o, "recovery") PROVE FALSE
      <3>1. PICK q \in DOMAIN ch : ch[q] = "recovery"
        BY <2>3
      <3> QED
        BY <2>2, <2>4, <2>6, <3>1
    <2> QED
      BY <2>5, <2>6 DEF o
  <1>2. IndInv => LoggedAndAnswered
    BY <1>1 DEF LoggedAndAnswered
  <1> QED
    BY <1>2, DispatchInductive, PTL

(* However many tasks count and run at once, the calls of a window that run  *)
(* behind the limiter are at most its max (rate_limit_middleware).           *)
THEOREM RateAlways == Spec => []RateBound
  <1>1. ASSUME IndInv PROVE RateBound
    <2> DEFINE S == {k \in Started : /\ call[k].ran /\ call[k].recent
                                     /\ Pushed(call[k].op, "rate_limit") # {}}
    <2>1. S \subseteq Admitted
      <3> SUFFICES ASSUME NEW k \in S PROVE k \in Admitted
        OBVIOUS
      <3>1. /\ k \in Started /\ call[k].ran /\ call[k].recent
            /\ Pushed(call[k].op, "rate_limit") # {}
        OBVIOUS
      <3>2. call[k].op \in DOMAIN handlers /\ Chain(k) = handlers[call[k].op].chain
        BY <1>1, <3>1, StartedChain
      <3>3. PICK p \in DOMAIN Chain(k) : Chain(k)[p] = "rate_limit"
        BY <1>1, <3>1, <3>2, ChainIsPushed DEF IndInv
      <3> QED
        BY <3>1, <3>3 DEF Admitted, Past
    <2> HIDE DEF S
    <2>2. IsFiniteSet(Admitted) /\ Cardinality(Admitted) <= RateMax
      BY <1>1 DEF IndInv, RateInv
    <2>3. IsFiniteSet(S) /\ Cardinality(S) <= Cardinality(Admitted)
      BY <2>1, <2>2, FS_Subset
    <2>4. Cardinality(S) <= RateMax
      BY <2>2, <2>3, FS_CardinalityType, DispatchAssumption
    <2> QED
      BY <2>4 DEF RateBound, S
  <1> QED
    BY <1>1, DispatchInductive, PTL

=============================================================================
