------------------------------ MODULE Dispatch ------------------------------
(***************************************************************************)
(* Registration of handlers and the middleware around them (server.rs,      *)
(* middleware.rs).  The builder pushes middleware and wraps every handler   *)
(* at its registration in the middleware pushed so far; then the server     *)
(* serves, and the calls of concurrent tasks go through the chain of their  *)
(* handler, inwards to its body and back out.                               *)
(*                                                                          *)
(* A wrapped handler is the sequence of its middleware, outermost first.    *)
(* The builder methods take &mut self and the listeners &self, so nothing   *)
(* is registered while the server serves.                                   *)
(***************************************************************************)
EXTENDS Integers, SequencesExt

CONSTANTS
    Opcodes,    \* opcodes
    Calls,      \* calls, each in a task of its own
    Ids,        \* api_key_id of callers
    Allowed,    \* the ids given to require_api_key_id
    RateMax,    \* the max given to rate_limit_middleware
    MaxBuild    \* bound: calls of the builder

ASSUME DispatchAssumption ==
    Allowed \subseteq Ids /\ RateMax \in Nat /\ MaxBuild \in Nat

VARIABLES
    middlewares,         \* Server.middlewares
    stream_middlewares,  \* Server.stream_middlewares
    handlers,            \* Server.handlers
    serving,             \* the listeners were started
    count,               \* what the application's limiter counted in its window
    built,               \* history: the builder calls
    call                 \* the calls

buildVars == <<middlewares, stream_middlewares, handlers, serving, built>>
vars == <<buildVars, count, call>>

(* The built-in middleware (logging_middleware with a logger, and "silent"   *)
(* with None), and the one that stands for a streaming application's own,    *)
(* which returns without a word to callers it refuses.                       *)
Middleware == {"logging", "silent", "recovery", "rate_limit", "require"}
StreamMiddleware == {"require"}

-----------------------------------------------------------------------------
(* The builder. *)

Build(step) ==
    /\ ~serving
    /\ Len(built) < MaxBuild
    /\ built' = Append(built, step)
    /\ UNCHANGED <<serving, count, call>>

use_middleware(mw) ==
    /\ Build([do |-> "use", kind |-> "sync", of |-> mw])
    /\ middlewares' = Append(middlewares, mw)
    /\ UNCHANGED <<stream_middlewares, handlers>>

use_stream_middleware(mw) ==
    /\ Build([do |-> "use", kind |-> "stream", of |-> mw])
    /\ stream_middlewares' = Append(stream_middlewares, mw)
    /\ UNCHANGED <<middlewares, handlers>>

(* Mutants of Wrapped: the loop runs forwards, or leaves out the first one.  *)
Wrapped_Forwards(mws) == Reverse(mws)
Wrapped_SkipsFirst(mws) == Reverse(SubSeq(Reverse(mws), 1, Len(mws) - 1))

(* `for mw in mws.iter().rev() { h = mw(h) }`: they are applied in the order *)
(* Reverse(mws), and the one applied last is the outermost.                  *)
Wrapped(mws) == Reverse(Reverse(mws))

Insert(o, h) ==
    handlers' = [p \in DOMAIN handlers \cup {o} |-> IF p = o THEN h ELSE handlers[p]]

handle(o) ==
    /\ Build([do |-> "handle", kind |-> "sync", of |-> o])
    /\ Insert(o, [kind |-> "sync", chain |-> Wrapped(middlewares)])
    /\ UNCHANGED <<middlewares, stream_middlewares>>

handle_stream(o) ==
    /\ Build([do |-> "handle", kind |-> "stream", of |-> o])
    /\ Insert(o, [kind |-> "stream", chain |-> Wrapped(stream_middlewares)])
    /\ UNCHANGED <<middlewares, stream_middlewares>>

Listen ==
    /\ ~serving /\ serving' = TRUE
    /\ UNCHANGED <<middlewares, stream_middlewares, handlers, built, count, call>>

-----------------------------------------------------------------------------
(* Serving. *)

Idle == [pc |-> "idle"]

Set(k, c) == call' = [call EXCEPT ![k] = c] /\ UNCHANGED buildVars

(* The lookup.  What the handler is called for is fixed from here on.        *)
Arrive(k, o, id, via) ==
    /\ serving /\ call[k] = Idle
    /\ Set(k, [pc |-> IF o \notin DOMAIN handlers THEN "NotFound"
                      ELSE IF handlers[o].kind = "stream" /\ via = "tcp" THEN "BadRequest"
                      ELSE "in",
               op |-> o, id |-> id, at |-> 1, res |-> "none",
               ran |-> FALSE, lines |-> 0, recent |-> TRUE])
    /\ UNCHANGED count

Chain(k) == handlers[call[k].op].chain

(* The call has come to this middleware, on its way in or out. *)
At(k, pc, mw) ==
    /\ call[k].pc = pc
    /\ call[k].at \in DOMAIN Chain(k)
    /\ Chain(k)[call[k].at] = mw

Inwards(k) == Set(k, [call[k] EXCEPT !.at = @ + 1])

(* The middleware returns an Err without calling the next. *)
Rejected(k) == Set(k, [call[k] EXCEPT !.pc = "out", !.at = @ - 1, !.res = "err"])

(* logging_middleware and recovery_middleware call the next one. *)
PassThrough(k) ==
    /\ \E mw \in {"logging", "silent", "recovery"} : At(k, "in", mw)
    /\ Inwards(k)
    /\ UNCHANGED count

require_api_key_id(k) ==
    /\ At(k, "in", "require")
    /\ IF call[k].id \in Allowed THEN Inwards(k) ELSE Rejected(k)
    /\ UNCHANGED count

(* Mutant of rate_limit: the value before the increment is compared. *)
rate_limit_Before(k) ==
    /\ At(k, "in", "rate_limit")
    /\ count' = count + 1
    /\ IF count > RateMax THEN Rejected(k) ELSE Inwards(k)

(* The application's limiter counts the call, in one atomic step, and        *)
(* returns the new count.                                                    *)
rate_limit(k) ==
    /\ At(k, "in", "rate_limit")
    /\ count' = count + 1
    /\ IF count' > RateMax THEN Rejected(k) ELSE Inwards(k)

(* The handler itself returns a response or an error, or panics. *)
Body(k) ==
    /\ call[k].pc = "in" /\ call[k].at = Len(Chain(k)) + 1
    /\ \E res \in {"ok", "err", "panic"} :
         Set(k, [call[k] EXCEPT !.pc = "out", !.at = @ - 1, !.res = res, !.ran = TRUE])
    /\ UNCHANGED count

(* Back in a middleware: logging writes a line for a result if it has a      *)
(* logger, and nothing for a panic, which unwinds it; recovery turns a panic *)
(* into an error.                                                            *)
Outwards(k) ==
    /\ call[k].pc = "out" /\ call[k].at > 0
    /\ LET mw == Chain(k)[call[k].at]
           c == [call[k] EXCEPT !.at = @ - 1]
       IN Set(k, IF mw = "logging" /\ c.res # "panic" THEN [c EXCEPT !.lines = @ + 1]
                 ELSE IF mw = "recovery" /\ c.res = "panic" THEN [c EXCEPT !.res = "err"]
                 ELSE c)
    /\ UNCHANGED count

(* The answer to a sync handler's result; a streaming handler has none, its  *)
(* stream ends.  A panic takes the task.                                     *)
Answer(k) ==
    /\ call[k].pc = "out" /\ call[k].at = 0
    /\ Set(k, [call[k] EXCEPT !.pc =
                 IF call[k].res = "panic" THEN "died"
                 ELSE IF handlers[call[k].op].kind = "stream" THEN "ended"
                 ELSE IF call[k].res = "ok" THEN "Handled" ELSE "InternalError"])
    /\ UNCHANGED count

(* The application's limiter starts a new window. *)
NewWindow ==
    /\ count > 0 /\ count' = 0
    /\ call' = [k \in Calls |-> IF call[k] = Idle THEN Idle
                                ELSE [call[k] EXCEPT !.recent = FALSE]]
    /\ UNCHANGED buildVars

Init ==
    /\ middlewares = <<>> /\ stream_middlewares = <<>>
    /\ handlers = [o \in {} |-> Idle]
    /\ serving = FALSE
    /\ count = 0
    /\ built = <<>>
    /\ call = [k \in Calls |-> Idle]

Building ==
    \/ \E mw \in Middleware : use_middleware(mw)
    \/ \E mw \in StreamMiddleware : use_stream_middleware(mw)
    \/ \E o \in Opcodes : handle(o) \/ handle_stream(o)
    \/ Listen

Task(k) ==
    \/ \E o \in Opcodes, id \in Ids, via \in {"quic", "tcp"} : Arrive(k, o, id, via)
    \/ PassThrough(k) \/ require_api_key_id(k) \/ rate_limit(k)
    \/ Body(k) \/ Outwards(k) \/ Answer(k)

Next == Building \/ NewWindow \/ \E k \in Calls : Task(k)

Spec == Init /\ [][Next]_vars

-----------------------------------------------------------------------------
(* What the builder calls say of an opcode, without the chain. *)

(* The registration that counts is the last one. *)
Registered(o) ==
    CHOOSE i \in DOMAIN built :
        /\ built[i].do = "handle" /\ built[i].of = o
        /\ \A j \in DOMAIN built : built[j].do = "handle" /\ built[j].of = o => j <= i

(* Where a middleware of the handler's kind was pushed before that. *)
Pushed(o, mw) ==
    {j \in 1 .. Registered(o) - 1 :
        built[j] = [do |-> "use", kind |-> built[Registered(o)].kind, of |-> mw]}

Started == {k \in Calls : call[k].pc \notin {"idle", "NotFound", "BadRequest"}}
Finished == {k \in Started : call[k].pc \notin {"in", "out"}}

-----------------------------------------------------------------------------
(* Properties. *)

(* The body of a handler runs for a caller that require_api_key_id does not  *)
(* allow only if the handler was last registered before that middleware was  *)
(* pushed, or is of the other kind: use_middleware does not guard streams    *)
(* (Server::handle, Server::handle_stream, require_api_key_id).              *)
GuardHolds ==
    \A k \in Started : call[k].ran /\ call[k].id \notin Allowed =>
        Pushed(call[k].op, "require") = {}

(* With logging pushed before recovery and before the guards, the order the  *)
(* README shows, and a logger given to it, every call of a handler           *)
(* registered after them leaves a line, whatever handler and guards do; and  *)
(* with recovery anywhere in the chain no panic takes the task               *)
(* (logging_middleware, recovery_middleware).                                *)
LoggedAndAnswered ==
    \A k \in Finished :
        LET o == call[k].op
            guards == Pushed(o, "require") \cup Pushed(o, "rate_limit")
        IN /\ (\E i \in Pushed(o, "logging"), j \in Pushed(o, "recovery") :
                   i < j /\ \A g \in guards : i < g)
                 => call[k].lines > 0
           /\ call[k].pc = "died" => Pushed(o, "recovery") = {}

(* At most max of the calls that arrive in a window of the limiter run the   *)
(* body of a handler behind rate_limit_middleware in that window, although   *)
(* the tasks count and run in any order (rate_limit_middleware).             *)
RateBound ==
    Cardinality({k \in Started : /\ call[k].ran /\ call[k].recent
                                 /\ Pushed(call[k].op, "rate_limit") # {}}) <= RateMax

=============================================================================
