----------------------------- MODULE Membership -----------------------------
(***************************************************************************)
(* Membership of the cluster (cluster/membership.ts): the view that each   *)
(* node keeps of the others, the messages that change it, and the replicas *)
(* that the cluster service registers as nodes come and go, and operators  *)
(* by the routes of server/app.ts.                                         *)
(*                                                                         *)
(* Time is not counted. An event that the timeouts of the code let happen  *)
(* only when a message took seconds, or got lost, raises late: a request   *)
(* that fails between nodes that run or whose answer is given up, a living *)
(* peer that is found silent, a check for a leader before the answer to a  *)
(* join, a timer that runs out before a message that was under way when it *)
(* was set. One that needs no more than an ordinary latency raises races:  *)
(* a message overtaken by a younger one, a timer that runs out, or a check *)
(* for a leader, while any other message is under way to the node.         *)
(***************************************************************************)
EXTENDS Naturals, SequencesExt

CONSTANTS
    Nodes,
    Seeds,     \* config.seeds of each node, itself left out
    MaxEvents  \* bound on late, stops, races and commands together

ASSUME SeedsAssumption ==
    /\ Seeds \in [Nodes -> Seq(Nodes)]
    /\ \A n \in Nodes : \A i \in DOMAIN Seeds[n] : Seeds[n][i] # n
ASSUME EventsAssumption == MaxEvents \in Nat

VARIABLES
    up,        \* the process of a node runs
    state,     \* state[n][m]: the state of m in the nodes of n
    role,      \* role[n][m]: the role of m in the nodes of n; role[n][n] its own
    replicas,  \* the replicas registered with the replication service of n;
               \* byHand is history: an operator did it, not the membership
    joining,   \* the seed whose answer contactSeeds awaits; 0 with none
    net,       \* net[m][n]: requests and answers under way from m to n
    older,     \* older[n][m]: history, how many of net[m][n] were under way
               \* already when n last set its victory timer
    late,      \* what was late or lost so far
    stops,     \* crashes and shutdowns so far
    races,     \* what ran while a message was under way so far
    commands   \* requests of operators to the replication service so far

views == <<state, role, replicas>>
counts == <<late, stops, races, commands>>

States == {"unknown", "alive", "suspect", "dead"}
Roles == {"leader", "follower", "candidate"}

\* The nodes map of a process that starts: itself alone, as a follower.
Alone(n) == [m \in Nodes |-> IF m = n THEN "alive" ELSE "unknown"]
Followers == [m \in Nodes |-> "follower"]

\* getAliveNodes without the node itself
AlivePeers(n) == {m \in Nodes \ {n} : state[n][m] = "alive"}

\* addReplica, which updates one that is there, and removeReplica
Replicas == [id: Nodes, byHand: BOOLEAN]
Others(n, m) == {r \in replicas[n] : r.id # m}
Added(n, m, byHand) ==
    [replicas EXCEPT ![n] = Others(n, m) \cup {[id |-> m, byHand |-> byHand]}]

\* onNodeJoined and onNodeRemoved, which configure the replication service
Registered(n, m) == Added(n, m, FALSE)
Unregistered(n, m) == [replicas EXCEPT ![n] = Others(n, m)]

\* The nodes that heartbeats and leaves are sent to
Peers(n) == {m \in Nodes \ {n} : state[n][m] \in {"alive", "suspect"}}

-----------------------------------------------------------------------------
\* Messages: a request, or an answer, reaches a node or fails to.

Spends(lost, raced) ==
    /\ late' = late + lost
    /\ races' = races + raced
    /\ late' + stops + races' + commands <= MaxEvents
    /\ UNCHANGED <<stops, commands>>

Spend(cost) == Spends(cost, 0)
Race(cost) == Spends(0, cost)

HeartbeatOf(n) == [type |-> "heartbeat", role |-> role[n][n]]
Join == [type |-> "join"]
Leave == [type |-> "leave"]

Messages ==
    [type: {"heartbeat"}, role: Roles]
        \cup [type: {"join", "leave"}]
        \cup [type: {"roster"}, state: [Nodes -> States], role: [Nodes -> Roles]]
        \cup [type: {"election_start", "ok", "victory"}, term: Nat]

\* sendMessage, to each of a set of nodes
Sent(onNet, n, targets, message) ==
    [onNet EXCEPT ![n] =
        [m \in Nodes |-> IF m \in targets THEN Append(@[m], message) ELSE @[m]]]

Taken(m, n, i) == [net EXCEPT ![m][n] = RemoveAt(@, i)]

\* With the i-th taken; those under way to n as it sets its timer
FewerOlder(m, n, i) == [older EXCEPT ![n][m] = IF i <= @ THEN @ - 1 ELSE @]
UnderWay(onNet, n) == [m \in Nodes |-> Len(onNet[m][n])]

\* The i-th message from m to n arrives; it may overtake others.
Reaches(m, n, i, type) ==
    /\ up[n]
    /\ i \in DOMAIN net[m][n]
    /\ net[m][n][i].type = type
    /\ Race(IF i = 1 THEN 0 ELSE 1)

Arrives(m, n, i, type) == Reaches(m, n, i, type) /\ older' = FewerOlder(m, n, i)

\* A request to a process that does not run fails at once, and so does one
\* whose process ends before it answers.
Fails(m, n, i, type) ==
    /\ i \in DOMAIN net[m][n]
    /\ net[m][n][i].type = type
    /\ Spend(IF up[m] /\ up[n] THEN 1 ELSE 0)
    /\ older' = FewerOlder(m, n, i)

\* Nothing but heartbeats is under way to n.
NothingAwaited(n) ==
    \A m \in Nodes : \A i \in DOMAIN net[m][n] : net[m][n][i].type = "heartbeat"

\* A message was under way to n all the time that its victory timer ran.
TimerPassed(n) ==
    \E m \in Nodes : \E i \in DOMAIN net[m][n] :
        i <= older[n][m] /\ net[m][n][i].type # "heartbeat"

-----------------------------------------------------------------------------
\* contactSeeds: the first seed, or the next one after a failure

FirstSeed(n) == IF Seeds[n] = <<>> THEN 0 ELSE 1
NextSeed(n) == IF joining[n] < Len(Seeds[n]) THEN joining[n] + 1 ELSE 0

Contact(onNet, n, position) ==
    /\ joining' = [joining EXCEPT ![n] = position]
    /\ net' = IF position = 0 THEN onNet
              ELSE Sent(onNet, n, {Seeds[n][position]}, Join)

\* A join request, or its answer, fails: m asked, or n did.
JoinFails(m, n, i) ==
    /\ \/ /\ Fails(m, n, i, "join")
          /\ IF up[m] THEN Contact(Taken(m, n, i), m, NextSeed(m))
             ELSE net' = Taken(m, n, i) /\ UNCHANGED joining
       \/ /\ Fails(m, n, i, "roster")
          /\ IF up[n] THEN Contact(Taken(m, n, i), n, NextSeed(n))
             ELSE net' = Taken(m, n, i) /\ UNCHANGED joining
    /\ UNCHANGED <<up, views>>

\* A message that nobody awaits an answer to fails.
NoticeFails(m, n, i) ==
    /\ \E type \in {"heartbeat", "leave", "victory"} : Fails(m, n, i, type)
    /\ net' = Taken(m, n, i)
    /\ UNCHANGED <<up, views, joining>>

-----------------------------------------------------------------------------
\* broadcastHeartbeat and handleHeartbeat; a node has one heartbeat under way
\* to a peer at a time.

Heartbeat(n) ==
    LET targets == {m \in Peers(n) : \A i \in DOMAIN net[n][m] :
                                         net[n][m][i].type # "heartbeat"}
    IN  /\ up[n]
        /\ targets # {}
        /\ net' = Sent(net, n, targets, HeartbeatOf(n))
        /\ UNCHANGED <<up, views, joining, older, counts>>

\* A dead node stays dead; one that was not known joins.
HandleHeartbeat(m, n, i) ==
    /\ Arrives(m, n, i, "heartbeat")
    /\ net' = Taken(m, n, i)
    /\ state' = [state EXCEPT ![n][m] = IF @ = "dead" THEN "dead" ELSE "alive"]
    /\ role' = [role EXCEPT ![n][m] = net[m][n][i].role]
    /\ replicas' = IF state[n][m] = "unknown" THEN Registered(n, m) ELSE replicas
    /\ UNCHANGED <<up, joining>>

\* The node that joins replaces what was known of it; the answer is the
\* roster with the node in it.
HandleJoinRequest(m, n, i) ==
    /\ Arrives(m, n, i, "join")
    /\ state' = [state EXCEPT ![n][m] = "alive"]
    /\ role' = [role EXCEPT ![n][m] = "follower"]
    /\ replicas' = Registered(n, m)
    /\ net' = Sent(Taken(m, n, i), n, {m},
                   [type |-> "roster", state |-> state'[n], role |-> role'[n]])
    /\ UNCHANGED <<up, joining>>

\* The end of contactSeeds: members that are known already stay as they are,
\* and no node_joined event tells of the others.
MergeRoster(m, n, i) ==
    /\ Arrives(m, n, i, "roster")
    /\ LET roster == net[m][n][i]
           new(p) == state[n][p] = "unknown"
       IN  /\ state' = [state EXCEPT ![n] =
                [p \in Nodes |-> IF new(p) THEN roster.state[p] ELSE @[p]]]
           /\ role' = [role EXCEPT ![n] =
                [p \in Nodes |-> IF new(p) THEN roster.role[p] ELSE @[p]]]
    /\ joining' = [joining EXCEPT ![n] = 0]
    /\ net' = Taken(m, n, i)
    /\ UNCHANGED <<up, replicas>>

\* Wrong: node_left does not reach the replication service.
HandleLeaveQuietly(m, n, i) ==
    /\ Arrives(m, n, i, "leave")
    /\ net' = Taken(m, n, i)
    /\ state' = [state EXCEPT ![n][m] = "unknown"]
    /\ role' = [role EXCEPT ![n][m] = "follower"]
    /\ UNCHANGED <<up, replicas, joining>>

HandleLeave(m, n, i) ==
    /\ Arrives(m, n, i, "leave")
    /\ net' = Taken(m, n, i)
    /\ state' = [state EXCEPT ![n][m] = "unknown"]
    /\ role' = [role EXCEPT ![n][m] = "follower"]
    /\ replicas' = Unregistered(n, m)
    /\ UNCHANGED <<up, joining>>

-----------------------------------------------------------------------------
\* detectFailures, of one peer: a pass that finds several is several of these.

\* No heartbeat of m comes to n any more.
Silent(m, n) ==
    /\ ~up[m] \/ state[m][n] = "dead"
    /\ \A i \in DOMAIN net[m][n] : net[m][n][i].type # "heartbeat"

Suspect(n, m) ==
    /\ up[n] /\ m # n
    /\ state[n][m] = "alive"
    /\ Spend(IF Silent(m, n) THEN 0 ELSE 1)
    /\ state' = [state EXCEPT ![n][m] = "suspect"]
    /\ UNCHANGED <<up, role, replicas, joining, net, older>>

\* The two listeners of node_dead: an election if it led, then its replica.
BuryPeer(n, m) ==
    /\ up[n] /\ m # n
    /\ state[n][m] = "suspect"
    /\ Spend(IF Silent(m, n) THEN 0 ELSE 1)
    /\ state' = [state EXCEPT ![n][m] = "dead"]
    /\ replicas' = Unregistered(n, m)
    /\ UNCHANGED <<up, joining>>

-----------------------------------------------------------------------------
\* POST and DELETE /replication/replicas: an operator registers any node, a
\* member or not, and removes any.

Command ==
    /\ late + stops + races + commands < MaxEvents
    /\ commands' = commands + 1
    /\ UNCHANGED <<late, stops, races>>

PostReplica(n, m) ==
    /\ up[n] /\ Command
    /\ replicas' = Added(n, m, TRUE)
    /\ UNCHANGED <<up, state, role, joining, net, older>>

DeleteReplica(n, m) ==
    /\ up[n] /\ Command
    /\ \E r \in replicas[n] : r.id = m
    /\ replicas' = Unregistered(n, m)
    /\ UNCHANGED <<up, state, role, joining, net, older>>
=============================================================================
