---------------------------- MODULE RedisAdapter ----------------------------
(***************************************************************************)
(* The Redis front end (packages/redis-adapter/src: parser.ts, server.ts)  *)
(* next to the WebSockets, over the same cache service.  TCP delivers what *)
(* a client sends in chunks of any size; the parser takes the commands     *)
(* that are complete and leaves the rest; the commands of a chunk run to   *)
(* the last before anything else happens.  A client may pipeline, and      *)
(* matches replies with commands by their order.                           *)
(***************************************************************************)
EXTENDS WebSockets

CONSTANTS
    Conns,       \* TCP connections
    Commands,    \* [name, args, db]
    Default,     \* no namespace
    MaxCommands  \* bound on the commands of a connection

ASSUME ConnsAssumption == Sockets \cap Conns = {} /\ Null \notin Conns

VARIABLES
    socket,      \* of each connection: [buffer, pipeline, namespace, open]
    wire,        \* what was sent and is not delivered
    unanswered,  \* the client's: the commands sent that it has no reply to
    selected,    \* the client's: the database it selected last
    sent         \* how many commands were sent

rvars == <<socket, wire, unanswered, selected, sent>>
all == <<vars, wsvars, rvars>>

Idle == ~Busy /\ \A c \in Conns : socket[c].pipeline = << >>

RedisInit ==
    /\ WebSocketsInit
    /\ socket = [c \in Conns |-> [buffer |-> << >>, pipeline |-> << >>,
                                  namespace |-> Default, open |-> TRUE]]
    /\ wire = [c \in Conns |-> << >>]
    /\ unanswered = [c \in Conns |-> << >>]
    /\ selected = [c \in Conns |-> 0]
    /\ sent = [c \in Conns |-> 0]

-----------------------------------------------------------------------------
(* The protocol.  A command is the line that counts its words, with which  *)
(* it is identified here, then the words; a chunk that ends within a line  *)
(* or a word is as one that ends before it, and a key with its value is    *)
(* one word.  An inline command is a line without a count.                 *)

Words(cmd) == 1 + Len(cmd.args)

Bytes(cmd) == IF cmd.name = "inline" THEN << <<"inline">> >>
              ELSE << <<"count", cmd>> >> \o [i \in 1..Words(cmd) |-> <<"word">>]

IsWhole(buffer) ==
    /\ buffer # << >>
    /\ buffer[1][1] = "count"
    /\ Len(buffer) > Words(buffer[1][2])

\* RESP.parse: the commands that are whole, and what is left of the buffer;
\* from[i] is what its loop yields from the offset i on.
parse(buffer) ==
    LET Left(i) == SubSeq(buffer, i, Len(buffer))
        from[i \in 1..(Len(buffer) + 1)] ==
            IF ~IsWhole(Left(i)) THEN [commands |-> << >>, rest |-> Left(i)]
            ELSE LET first == buffer[i][2]
                     tail == from[i + Words(first) + 1]
                 IN  [commands |-> <<first>> \o tail.commands, rest |-> tail.rest]
    IN  from[1]

-----------------------------------------------------------------------------

\* The client sends; while a handler runs is as good as after it.
Send(c, cmd) ==
    /\ Idle
    /\ socket[c].open /\ sent[c] < MaxCommands
    /\ wire' = [wire EXCEPT ![c] = @ \o Bytes(cmd)]
    /\ unanswered' = [unanswered EXCEPT ![c] = Append(@, cmd)]
    /\ sent' = [sent EXCEPT ![c] = @ + 1]
    /\ UNCHANGED <<vars, wsvars, socket, selected>>

\* Wrong: what is left over by the parser is forgotten.
DataForgetting(c, n) ==
    /\ Idle
    /\ socket[c].open
    /\ LET parsed == parse(socket[c].buffer \o SubSeq(wire[c], 1, n)) IN
       socket' = [socket EXCEPT ![c].buffer = IF parsed.commands = << >>
                                              THEN parsed.rest ELSE << >>,
                                ![c].pipeline = parsed.commands]
    /\ wire' = [wire EXCEPT ![c] = SubSeq(@, n + 1, Len(@))]
    /\ UNCHANGED <<vars, wsvars, unanswered, selected, sent>>

\* handleData, up to its loop over the commands.
Data(c, n) ==
    /\ Idle
    /\ socket[c].open
    /\ LET parsed == parse(socket[c].buffer \o SubSeq(wire[c], 1, n)) IN
       socket' = [socket EXCEPT ![c].buffer = parsed.rest,
                                ![c].pipeline = parsed.commands]
    /\ wire' = [wire EXCEPT ![c] = SubSeq(@, n + 1, Len(@))]
    /\ UNCHANGED <<vars, wsvars, unanswered, selected, sent>>

\* Wrong: only another database than the first is selected.
NamespaceKept(db, namespace) == IF db = 0 THEN namespace ELSE db

Namespace(db, namespace) == IF db = 0 THEN Default ELSE db

\* What a command asks of the cache.  SET without an expiry passes zero and
\* MSET none; FLUSHDB clears every database; KEYS lists; the others that have
\* no row ask nothing that changes state, or are in error.
OperationOf ==
    [GET |-> "get", SET |-> "set", DEL |-> "delete", INCR |-> "incr",
     DECR |-> "incr", INCRBY |-> "incr", DECRBY |-> "incr", MGET |-> "get",
     MSET |-> "set", FLUSHDB |-> "clear", KEYS |-> "keys", EXPIRE |-> "touch",
     PEXPIRE |-> "touch"]

Namespaces == {Default} \cup {Namespace(cmd.db, Default) : cmd \in Commands}

ASSUME CommandsAssumption ==
    \A cmd \in Commands, ns \in Namespaces :
        /\ cmd.args \in Seq(Range(cmd.args))
        /\ cmd.name \in DOMAIN OperationOf => Asks(OperationOf[cmd.name], ns, cmd.args)

\* One turn of the loop.  The reply is written when the calls are done, which
\* nobody can tell from now; after a QUIT the rest of the chunk still runs.
Execute(c) ==
    /\ ~Busy
    /\ socket[c].pipeline # << >>
    /\ LET cmd == Head(socket[c].pipeline) IN
       /\ running' = IF cmd.name \notin DOMAIN OperationOf THEN << >>
                     ELSE Calls(OperationOf[cmd.name], socket[c].namespace, cmd.args, c)
       /\ socket' =
            [socket EXCEPT
                ![c].pipeline = Tail(@),
                ![c].namespace = IF cmd.name = "SELECT" THEN Namespace(cmd.db, @) ELSE @,
                ![c].open = @ /\ cmd.name # "QUIT"]
       /\ selected' = IF cmd.name = "SELECT" THEN [selected EXCEPT ![c] = cmd.db]
                      ELSE selected
    /\ unanswered' = [unanswered EXCEPT ![c] = Tail(@)]
    /\ UNCHANGED <<vars, topics, window, mirror, history, uploads, wire, sent>>

RedisNext ==
    \/ Run /\ UNCHANGED rvars
    \/ Idle /\ WebSocketsNext /\ UNCHANGED rvars
    \/ \E c \in Conns, cmd \in Commands : Send(c, cmd)
    \/ \E c \in Conns : \E n \in 1..Len(wire[c]) : Data(c, n)
    \/ \E c \in Conns : Execute(c)

RedisSpec == RedisInit /\ [][RedisNext]_all

-----------------------------------------------------------------------------
(* Properties.                                                             *)

\* However the commands were cut into chunks, the replies still to come are
\* those to what is being executed, buffered and on its way, in that order, so
\* a client that counts replies never takes one for another's; and a command
\* that arrived in full is not left waiting for the next chunk.
PipelinesAreWhole ==
    \A c \in Conns :
        LET queue == unanswered[c]
            ahead == Len(socket[c].pipeline) IN
        socket[c].open =>
            /\ SubSeq(queue, 1, ahead) = socket[c].pipeline
            /\ FlattenSeq([i \in 1..(Len(queue) - ahead) |-> Bytes(queue[ahead + i])])
                  = socket[c].buffer \o wire[c]
            /\ ~IsWhole(socket[c].buffer)

\* The call in progress for c changes entries of the database that its client
\* selected last and no other; but a new entry may evict another's.
Confined(c) ==
    \A x \in DOMAIN FullKey :
        LET full == FullKey[x] IN
        \/ full \in Cached(cache) \cap Cached(cache)' /\ cache.entries[full] = cache'.entries[full]
        \/ full \notin Cached(cache) \cup Cached(cache)'
        \/ full \in evicted' \ evicted
        \/ x[2] \in Plain => x[1] = IF selected[c] = 0 THEN Default ELSE selected[c]

Mutates(c) == Busy /\ Head(running).by = c /\ Head(running).op # "clear"

\* A connection changes no entry of another database than its client selected
\* last, wherever in a pipeline the SELECT came, by a command whose key has no
\* character zero (the adapter does not check it); but a flush clears all.
NamespacesStayApart ==
    [][\A c \in Conns : Mutates(c) /\ Head(running).plain => Confined(c)]_all

\* fullKey's comment: there is no ambiguity.  The same of every command; it
\* fails, as a key with a character zero in it may be one of another database.
NoAmbiguity == [][\A c \in Conns : Mutates(c) => Confined(c)]_all
=============================================================================
