---------------------------- MODULE MCConnections ----------------------------
(* A WebSocket and a Redis connection on one name in two databases, and a  *)
(* name in the first whose full key is that of the other in the second.    *)
EXTENDS RedisAdapter

CONSTANTS k, sly, word, key0, key1, key2

MCKeys == {key0, key1, key2}
MCFullKey == (<<Default, k>> :> key0) @@ (<<1, k>> :> key1)
             @@ (<<Default, sly>> :> key1) @@ (<<1, sly>> :> key2)
MCValues == {word} \cup -2..1
MCPack == << >>
MCHash == [x \in Keys |-> {1}]

Arg(name, value, time) == [key |-> name, value |-> value, time |-> time]
Request(type, ns, args) == [type |-> type, ns |-> ns, args |-> args]
Command(name, args) == [name |-> name, args |-> args, db |-> 0]

MCMessages ==
    {Request("set", 1, <<Arg(k, -2, 1)>>), Request("delete", 1, <<Arg(k, -2, 0)>>),
     Request("get", 1, <<Arg(k, -2, 0)>>)}

MCUploads == {<<[key |-> key0, value |-> word]>>}

\* Requests that differ in nothing but their name stand for each other.
MCCommands ==
    {Command("SET", <<Arg(sly, word, 0)>>),
     Command("MSET", <<Arg(k, word, Undefined), Arg(k, -2, Undefined)>>),
     Command("INCR", <<Arg(k, 1, 0)>>), Command("EXPIRE", <<Arg(k, -2, 1)>>),
     Command("FLUSHDB", <<Arg(k, -2, 0)>>), Command("KEYS", <<Arg(k, -2, 0)>>),
     Command("QUIT", << >>), Command("inline", << >>),
     [Command("SELECT", << >>) EXCEPT !.db = 1], Command("SELECT", << >>)}
=============================================================================
