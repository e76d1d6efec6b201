----------------------------- MODULE WebSockets -----------------------------
(***************************************************************************)
(* The WebSocket endpoint (server/websocket.ts) over the cache service,    *)
(* whose mutations reach the sockets through the in-process bus            *)
(* (services/pubsub-service.ts) and the forwarder of server/app.ts.  A     *)
(* handler runs to its end before anything else happens; its calls of the  *)
(* service are steps of their own, with nothing in between.  Replies are   *)
(* left out.  A client that follows the events keeps a mirror of the keys; *)
(* frames arrive in order, so one on its way is as good as applied.  An    *)
(* upload of a snapshot writes the cache without an event.                 *)
(***************************************************************************)
EXTENDS CacheService

CONSTANTS
    Sockets,     \* connections; each opens and closes once
    Closed,
    Topics,      \* the channels that clients name
    Messages,    \* [type, ns, args] with args of [key, value, time]
    Uploads,     \* the snapshots that clients upload: sequences of [key, value]
    MaxUploads,  \* bound on the uploads
    FullKey,     \* the key of the cache for a namespace and a name
    Plain,       \* the names without a character zero
    RateWindow,  \* WS_RATE_WINDOW_MS
    RateMax      \* WS_RATE_MAX

ASSUME RateAssumption == RateWindow \in Nat /\ RateMax \in Nat \ {0}

\* fullKey joins the namespace and the name with a character zero, so that a
\* full key tells them only if there is none in the name.
ASSUME FullKeyAssumption ==
    /\ FullKey \in [DOMAIN FullKey -> Keys]
    /\ \A x, y \in DOMAIN FullKey :
          FullKey[x] = FullKey[y] /\ x[2] \in Plain /\ y[2] \in Plain => x = y
ASSUME UploadsAssumption ==
    \A upload \in Uploads : upload \in Seq([key : Keys, value : Values])

VARIABLES
    running,  \* the calls left to the handler in progress
    topics,   \* of each socket: its subscriptions, Null before and Closed after
    window,   \* of each socket: [start, count]
    mirror,   \* of each socket's client: the keys it takes to be cached, or Null
    evicted,  \* history: the keys that the engine evicted and nobody set since
    uploaded, \* history: the keys cached by an upload and set by nobody since
    uploads   \* how many uploads there were

history == <<evicted, uploaded>>
wsvars == <<running, topics, window, mirror, history, uploads>>

Busy == running # << >>

\* What a handler may ask of the service: keys, values and times to live that
\* the service may be called with.
Asks(op, ns, args) ==
    /\ args \in Seq(Range(args))
    /\ \A arg \in Range(args) :
          /\ <<ns, arg.key>> \in DOMAIN FullKey
          /\ op = "set" => arg.value \in Payloads /\ arg.time \in TTLs \cup {Undefined}
          /\ op = "incr" => arg.value \in Deltas
          /\ op = "touch" => arg.time \in TTLs
ASSUME MessagesAssumption ==
    \A m \in Messages :
        /\ m.type \in {"get", "set", "delete"} /\ Asks(m.type, m.ns, m.args)
        /\ \A arg \in Range(m.args) : arg.key \in Plain  \* validateKey

\* Every effect on the cache that a handler asks for; by and plain are history.
Calls(op, ns, args, by) ==
    [i \in DOMAIN args |-> [op |-> op, key |-> FullKey[<<ns, args[i].key>>],
                            value |-> args[i].value, time |-> args[i].time,
                            by |-> by, plain |-> args[i].key \in Plain]]

\* restoreFromSnapshot: full keys, as they are in the snapshot.
Restores(upload) ==
    [i \in DOMAIN upload |-> [op |-> "raw", key |-> upload[i].key,
                              value |-> upload[i].value, time |-> Undefined,
                              by |-> Null, plain |-> FALSE]]

WebSocketsInit ==
    /\ Init
    /\ running = << >>
    /\ topics = [s \in Sockets |-> Null]
    /\ window = [s \in Sockets |-> Null]
    /\ mirror = [s \in Sockets |-> Null]
    /\ evicted = {} /\ uploaded = {} /\ uploads = 0

-----------------------------------------------------------------------------
(* Events.                                                                 *)

IsOpen(s) == topics[s] \notin {Null, Closed}

Hears(s) == IsOpen(s) /\ "cache-events" \in topics[s]

\* A client that has missed events starts anew with a clear.
Heard(keys, event, key) ==
    CASE event = "set" /\ keys # Null -> keys \cup {key}
      [] event \in {"delete", "expired"} /\ keys # Null -> keys \ {key}
      [] event = "clear" -> {}
      [] OTHER -> keys

Publish(event, key) ==
    mirror' = [s \in Sockets |-> IF Hears(s) THEN Heard(mirror[s], event, key)
                                 ELSE mirror[s]]

-----------------------------------------------------------------------------
(* Calls of the cache service.                                             *)

\* After a set or a restored entry, which may evict, an expiry or a clear.
EvictedAfter(event, key) ==
    CASE event \in {"set", "raw"} -> (evicted \cup (Cached(cache) \ Cached(cache'))) \ {key}
      [] event = "expired" -> evicted \ {key}
      [] event = "clear" -> {}
      [] OTHER -> evicted

UploadedAfter(event, key) ==
    Cached(cache') \cap (CASE event = "raw" -> uploaded \cup {key}
                           [] event = "set" -> uploaded \ {key}
                           [] OTHER -> uploaded)

Noted(event, key) ==
    /\ evicted' = EvictedAfter(event, key)
    /\ uploaded' = UploadedAfter(event, key)

\* The calls that find nothing to do, and publish nothing.
Fruitless(call) ==
    \/ call.op \in {"get", "delete", "incr", "touch"} /\ call.key \notin Cached(cache)
    \/ /\ call.op = "incr" /\ call.key \in Cached(cache)
       /\ ~IsNumber(cache.entries[call.key].value)

Perform(call) ==
    \/ call.op = "set" /\ Set(call.key, call.value, call.time)
    \/ call.op = "raw" /\ SetRaw(call.key, call.value)
    \/ call.op = "get" /\ Get(call.key)
    \/ call.op = "delete" /\ DeleteKey(call.key)
    \/ call.op = "incr" /\ Incr(call.key, call.value)
    \/ call.op = "touch" /\ Touch(call.key, call.time)
    \/ call.op = "keys" /\ ListKeys
    \/ call.op = "clear" /\ Clear
    \/ call.op # "delete" /\ Fruitless(call) /\ UNCHANGED vars

\* Wrong: a bulk write publishes its last entry only.
RunQuietly ==
    /\ Busy
    /\ Perform(Head(running))
    /\ IF Fruitless(Head(running)) \/ Len(running) > 1 THEN UNCHANGED mirror
       ELSE Publish(Head(running).op, Head(running).key)
    /\ Noted(Head(running).op, Head(running).key)
    /\ running' = Tail(running)
    /\ UNCHANGED <<topics, window, uploads>>

Run ==
    /\ Busy
    /\ Perform(Head(running))
    /\ IF Fruitless(Head(running)) THEN UNCHANGED mirror
       ELSE Publish(Head(running).op, Head(running).key)
    /\ Noted(Head(running).op, Head(running).key)
    /\ running' = Tail(running)
    /\ UNCHANGED <<topics, window, uploads>>

\* The timer of a key publishes whether or not the key was still there.
Expires(timer) ==
    /\ ~Busy
    /\ TimerFires(timer)
    /\ Publish("expired", timer.key)
    /\ Noted("expired", timer.key)
    /\ UNCHANGED <<running, topics, window, uploads>>

-----------------------------------------------------------------------------
(* The handlers of a socket.                                               *)

Open(s) ==
    /\ ~Busy
    /\ topics[s] = Null
    /\ topics' = [topics EXCEPT ![s] = {"cache-events", "stats"}]
    /\ mirror' = [mirror EXCEPT ![s] = IF Cached(cache) = {} THEN {} ELSE Null]
    /\ UNCHANGED <<vars, running, window, history, uploads>>

Close(s) ==
    /\ ~Busy
    /\ IsOpen(s)
    /\ topics' = [topics EXCEPT ![s] = Closed]
    /\ mirror' = [mirror EXCEPT ![s] = Null]
    /\ window' = [window EXCEPT ![s] = Null]
    /\ UNCHANGED <<vars, running, history, uploads>>

\* checkWSRate; counts beyond the maximum are alike.
WindowOver(s) == window[s] # Null => now - window[s].start > RateWindow

CheckWSRate(s) ==
    /\ ~Busy
    /\ IsOpen(s)
    /\ window' = [window EXCEPT ![s] =
                     IF WindowOver(s) THEN [start |-> now, count |-> 1]
                     ELSE [@ EXCEPT !.count = Min({@ + 1, RateMax + 1})]]

Passes(s) == ~WindowOver(s) => window[s].count < RateMax

\* Answered without a look at the cache: over the rate, a ping, not
\* understood, or not valid; a bulk write with one entry that is not valid.
AnswerOnly(s) ==
    /\ CheckWSRate(s)
    /\ UNCHANGED <<vars, running, topics, mirror, history, uploads>>

Subscribe(s, channel) ==
    /\ CheckWSRate(s) /\ Passes(s)
    /\ topics' = [topics EXCEPT ![s] = @ \cup {channel}]
    /\ UNCHANGED <<vars, running, mirror, history, uploads>>

Unsubscribe(s, channel) ==
    /\ CheckWSRate(s) /\ Passes(s)
    /\ topics' = [topics EXCEPT ![s] = @ \ {channel}]
    /\ mirror' = IF channel = "cache-events" THEN [mirror EXCEPT ![s] = Null]
                 ELSE mirror
    /\ UNCHANGED <<vars, running, history, uploads>>

\* get, set, del, mget and mset.
Message(s, m) ==
    /\ CheckWSRate(s) /\ Passes(s)
    /\ running' = Calls(m.type, m.ns, m.args, s)
    /\ UNCHANGED <<vars, topics, mirror, history, uploads>>

\* POST /snapshot/upload: its entries are written one by one, without events.
Upload(upload) ==
    /\ ~Busy /\ uploads < MaxUploads
    /\ running' = Restores(upload)
    /\ uploads' = uploads + 1
    /\ UNCHANGED <<vars, topics, window, mirror, history>>

Elapses == ~Busy /\ Tick /\ UNCHANGED wsvars

\* What the event loop may start, when no handler runs.
WebSocketsNext ==
    \/ \E timer \in timers : Expires(timer)
    \/ \E s \in Sockets : Open(s) \/ Close(s) \/ AnswerOnly(s)
    \/ \E s \in Sockets, t \in Topics : Subscribe(s, t) \/ Unsubscribe(s, t)
    \/ \E s \in Sockets, m \in Messages : Message(s, m)
    \/ \E upload \in Uploads : Upload(upload)
    \/ Elapses

-----------------------------------------------------------------------------
(* Properties.                                                             *)

\* docs/websocket.html: connected clients are told of the mutations of the
\* cache.  A client that hears the events from an empty cache on, over every
\* socket, command and timer that changes it, holds every key that is cached,
\* but for those that an upload restored, of which it is not told, and, as the
\* engine evicts without an event, evicted ones, but no other.
MirrorsFollowTheCache ==
    \A s \in Sockets :
        Hears(s) /\ mirror[s] # Null =>
            /\ Cached(cache) \subseteq mirror[s] \cup uploaded
            /\ mirror[s] \subseteq Cached(cache) \cup evicted
=============================================================================
