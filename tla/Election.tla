------------------------------ MODULE Election ------------------------------
(***************************************************************************)
(* Leader election (cluster/election.ts) over the membership, with the     *)
(* cluster service (cluster/cluster-service.ts) that checks for a leader,  *)
(* dispatches the messages and turns replication on and off: a bully       *)
(* election in which a node asks those of a higher priority to take over,  *)
(* and declares itself the leader when none of them answers.               *)
(***************************************************************************)
EXTENDS Membership

CONSTANTS
    Priority,  \* config.priority of each node
    MaxTerm    \* bound on the terms, only for the type invariant

ASSUME PriorityAssumption == Priority \in [Nodes -> Nat]
ASSUME TermAssumption == MaxTerm \in Nat

VARIABLES
    election,    \* the state of the election service of each node
    replicating  \* config.enabled of its replication service; byHand is
                 \* history: an operator set it last, not the election

evars == <<up, views, joining, net, older, counts, election, replicating>>

(* term: currentTerm; electing: electionInProgress; handle: electionTimer,  *)
(* by the term it was set in, 0 for null; armed: the timers that still run; *)
(* asked: the calls of requestElection that still await nodes; yields: the  *)
(* last one had an answer (anyResponded), so it waits for a victory.        *)
Requests == [term: Nat, left: SUBSET Nodes, answered: BOOLEAN]
Elections == [term: Nat, electing: BOOLEAN, handle: Nat, armed: SUBSET Nat,
              asked: SUBSET Requests, yields: BOOLEAN]
NoElection == [term |-> 0, electing |-> FALSE, handle |-> 0, armed |-> {},
               asked |-> {}, yields |-> FALSE]

On == [enabled |-> TRUE, byHand |-> FALSE]
Off == [enabled |-> FALSE, byHand |-> FALSE]

Typed ==
    /\ up \in [Nodes -> BOOLEAN]
    /\ state \in [Nodes -> [Nodes -> States]]
    /\ role \in [Nodes -> [Nodes -> Roles]]
    /\ replicas \in [Nodes -> SUBSET Replicas]
    /\ joining \in [Nodes -> Nat]
    /\ \A n \in Nodes : joining[n] <= Len(Seeds[n])
    /\ net \in [Nodes -> [Nodes -> Seq(Messages)]]
    /\ older \in [Nodes -> [Nodes -> Nat]]
    /\ late \in Nat /\ stops \in Nat /\ races \in Nat /\ commands \in Nat
    /\ election \in [Nodes -> Elections]
    /\ replicating \in [Nodes -> [enabled: BOOLEAN, byHand: BOOLEAN]]

\* Type correctness, and the bound of the terms: it is checked, not assumed,
\* that with a bounded number of faults elections come to an end.
TypeOK ==
    /\ Typed
    /\ late + stops + races + commands <= MaxEvents
    /\ \A n \in Nodes : election[n].term <= MaxTerm

Init ==
    /\ up = [n \in Nodes |-> FALSE]
    /\ state = [n \in Nodes |-> Alone(n)]
    /\ role = [n \in Nodes |-> Followers]
    /\ replicas = [n \in Nodes |-> {}]
    /\ joining = [n \in Nodes |-> 0]
    /\ net = [n \in Nodes |-> [m \in Nodes |-> <<>>]]
    /\ older = [n \in Nodes |-> [m \in Nodes |-> 0]]
    /\ late = 0 /\ stops = 0 /\ races = 0 /\ commands = 0
    /\ election = [n \in Nodes |-> NoElection]
    /\ replicating = [n \in Nodes |-> Off]

-----------------------------------------------------------------------------

ElectionStart(t) == [type |-> "election_start", term |-> t]
Ok(t) == [type |-> "ok", term |-> t]
Victory(t) == [type |-> "victory", term |-> t]

\* The alive nodes of a higher priority, in the view that the step leaves
Higher(n) == {m \in Nodes \ {n} : state'[n][m] = "alive" /\ Priority[m] > Priority[n]}

\* The election that startElection begins: it awaits the higher nodes, or
\* the timer of scheduleVictoryDeclaration.
Begun(n) ==
    LET t == election[n].term + 1
        e == [election[n] EXCEPT !.term = t, !.electing = TRUE, !.yields = FALSE]
        request == [term |-> t, left |-> Higher(n), answered |-> FALSE]
    IN  IF Higher(n) = {} THEN [e EXCEPT !.handle = t, !.armed = @ \cup {t}]
                          ELSE [e EXCEPT !.asked = @ \cup {request}]

\* startElection, which returns at once while an election is in progress;
\* then handleElectionStart may still raise the term.
StartElection(n, onNet, onOlder, heard) ==
    LET begins == ~election[n].electing
        e == IF begins THEN Begun(n) ELSE election[n]
    IN  /\ election' = [election EXCEPT ![n] =
                            [e EXCEPT !.term = IF heard > @ THEN heard ELSE @]]
        /\ role' = IF begins THEN [role EXCEPT ![n][n] = "candidate"] ELSE role
        /\ net' = IF begins THEN Sent(onNet, n, Higher(n), ElectionStart(e.term)) ELSE onNet
        /\ older' = IF begins /\ Higher(n) = {}
                    THEN [onOlder EXCEPT ![n] = UnderWay(onNet, n)] ELSE onOlder
        /\ UNCHANGED replicating

\* Wrong: the winner tells nobody.
DeclareQuietly(n, e, onNet) ==
    /\ election' = [election EXCEPT ![n] = [e EXCEPT !.electing = FALSE]]
    /\ role' = [role EXCEPT ![n][n] = "leader"]
    /\ replicating' = [replicating EXCEPT ![n] = On]
    /\ net' = onNet

\* declareVictory, of a node whose election service was left as e
DeclareVictory(n, e, onNet) ==
    /\ election' = [election EXCEPT ![n] = [e EXCEPT !.electing = FALSE]]
    /\ role' = [role EXCEPT ![n][n] = "leader"]
    /\ replicating' = [replicating EXCEPT ![n] = On]
    /\ net' = Sent(onNet, n, AlivePeers(n), Victory(e.term))

\* requestElection goes on after its request ended, or gave up waiting.
GoOn(n, e, answered, onNet) ==
    IF ~answered /\ e.electing
    THEN DeclareVictory(n, e, onNet)
    ELSE /\ election' = [election EXCEPT ![n] = [e EXCEPT !.yields = answered]]
         /\ net' = onNet
         /\ UNCHANGED <<role, replicating>>

\* A request of term t to m ends, with an answer or not; the last one ends
\* the wait, unless the wait was given up before.
Settle(n, t, m, answers, onNet) ==
    LET e == election[n]
        awaiting == {r \in e.asked : r.term = t}
        settled == {[r EXCEPT !.left = @ \ {m}, !.answered = @ \/ answers] : r \in awaiting}
        done == {r \in settled : r.left = {}}
        left == [e EXCEPT !.asked = (@ \ awaiting) \cup (settled \ done)]
    IN  IF done # {} THEN \E r \in done : GoOn(n, left, r.answered, onNet)
        ELSE /\ election' = [election EXCEPT ![n] = left]
             /\ net' = onNet
             /\ UNCHANGED <<role, replicating>>

-----------------------------------------------------------------------------

\* The listeners of node_dead, in their order
DeclareDead(n, m) ==
    /\ BuryPeer(n, m)
    /\ IF role[n][m] = "leader" THEN StartElection(n, net, older, 0)
       ELSE UNCHANGED <<role, net, older, election, replicating>>

\* checkLeaderHealth, which may run while messages are under way; the answer
\* to a join comes long before the first check.
CheckLeaderHealth(n) ==
    /\ up[n]
    /\ \A m \in Nodes : ~(state[n][m] = "alive" /\ role[n][m] = "leader")
    /\ ~election[n].electing
    /\ Spends(IF joining[n] = 0 THEN 0 ELSE 1, IF NothingAwaited(n) THEN 0 ELSE 1)
    /\ UNCHANGED <<up, state, replicas, joining>>
    /\ StartElection(n, net, older, 0)

\* The timer of scheduleVictoryDeclaration
VictoryTimer(n, t) ==
    /\ up[n]
    /\ t \in election[n].armed
    /\ IF TimerPassed(n) THEN Spend(1) ELSE Race(IF NothingAwaited(n) THEN 0 ELSE 1)
    /\ LET e == [election[n] EXCEPT !.armed = @ \ {t}, !.handle = IF @ = t THEN 0 ELSE @]
       IN  IF e.electing THEN DeclareVictory(n, e, net)
           ELSE /\ election' = [election EXCEPT ![n] = e]
                /\ UNCHANGED <<role, net, replicating>>
    /\ UNCHANGED <<up, state, replicas, joining, older>>

HandleElectionStart(m, n, i) ==
    /\ Reaches(m, n, i, "election_start")
    /\ UNCHANGED <<up, state, replicas, joining>>
    /\ LET t == net[m][n][i].term
           answered == Sent(Taken(m, n, i), n, {m}, Ok(t))
       IN  IF Priority[n] > Priority[m] THEN StartElection(n, answered, FewerOlder(m, n, i), t)
           ELSE /\ election' = [election EXCEPT ![n].term = IF t > @ THEN t ELSE @]
                /\ net' = answered
                /\ older' = FewerOlder(m, n, i)
                /\ UNCHANGED <<role, replicating>>

\* The answers of requestElection, the requests that fail, and its timeout
ElectionAnswered(m, n, i) ==
    /\ Arrives(m, n, i, "ok")
    /\ UNCHANGED <<up, state, replicas, joining>>
    /\ Settle(n, net[m][n][i].term, m, TRUE, Taken(m, n, i))

ElectionRequestFails(m, n, i) ==
    /\ \/ /\ Fails(m, n, i, "election_start")
          /\ IF up[m] THEN Settle(m, net[m][n][i].term, n, FALSE, Taken(m, n, i))
             ELSE net' = Taken(m, n, i) /\ UNCHANGED <<role, election, replicating>>
       \/ /\ Fails(m, n, i, "ok")
          /\ IF up[n] THEN Settle(n, net[m][n][i].term, m, FALSE, Taken(m, n, i))
             ELSE net' = Taken(m, n, i) /\ UNCHANGED <<role, election, replicating>>
    /\ UNCHANGED <<up, state, replicas, joining>>

RequestTimeout(n, r) ==
    /\ up[n]
    /\ r \in election[n].asked
    /\ Spend(1)
    /\ GoOn(n, [election[n] EXCEPT !.asked = @ \ {r}], r.answered, net)
    /\ UNCHANGED <<up, state, replicas, joining, older>>

\* Wrong: the election of the follower goes on.
AcceptedElecting(e, t) == [e EXCEPT !.term = t]

\* The follower of the winner, which may not be among the nodes it knows
Accepted(e, t) ==
    [e EXCEPT !.term = t, !.electing = FALSE, !.yields = FALSE,
              !.handle = 0, !.armed = @ \ {e.handle}]
Follow(m, n) ==
    /\ role' = [role EXCEPT ![n][n] = "follower",
                            ![n][m] = IF state[n][m] = "unknown" THEN @ ELSE "leader"]
    /\ replicating' = [replicating EXCEPT ![n] = Off]

\* Wrong: the term of a victory is not compared.
HandleAnyVictory(m, n, i) ==
    /\ Arrives(m, n, i, "victory")
    /\ net' = Taken(m, n, i)
    /\ election' = [election EXCEPT ![n] = Accepted(@, net[m][n][i].term)]
    /\ Follow(m, n)
    /\ UNCHANGED <<up, state, replicas, joining>>

\* A victory of an older term than the node's is ignored.
HandleVictory(m, n, i) ==
    /\ Arrives(m, n, i, "victory")
    /\ net' = Taken(m, n, i)
    /\ LET t == net[m][n][i].term
       IN  IF t >= election[n].term
           THEN /\ election' = [election EXCEPT ![n] = Accepted(@, t)]
                /\ Follow(m, n)
           ELSE UNCHANGED <<role, election, replicating>>
    /\ UNCHANGED <<up, state, replicas, joining>>

-----------------------------------------------------------------------------
\* Processes start, with nothing of an earlier life under way, and end, by a
\* crash or by a shutdown that tells its peers.

Start(n) ==
    /\ ~up[n]
    /\ \A m \in Nodes : net[n][m] = <<>> /\ net[m][n] = <<>>
    /\ up' = [up EXCEPT ![n] = TRUE]
    /\ Contact(net, n, FirstSeed(n))
    /\ UNCHANGED <<views, older, counts, election, replicating>>

End(n) ==
    /\ up[n] /\ late + stops + races + commands < MaxEvents
    /\ stops' = stops + 1
    /\ up' = [up EXCEPT ![n] = FALSE]
    /\ state' = [state EXCEPT ![n] = Alone(n)]
    /\ role' = [role EXCEPT ![n] = Followers]
    /\ replicas' = [replicas EXCEPT ![n] = {}]
    /\ joining' = [joining EXCEPT ![n] = 0]
    /\ election' = [election EXCEPT ![n] = NoElection]
    /\ replicating' = [replicating EXCEPT ![n] = Off]
    /\ UNCHANGED <<late, races, commands, older>>

Crash(n) == End(n) /\ UNCHANGED net
Stop(n) == End(n) /\ net' = Sent(net, n, Peers(n), Leave)

-----------------------------------------------------------------------------

\* POST /replication/enable and /replication/disable
SetEnabled(n, enabled) ==
    /\ up[n] /\ Command
    /\ replicating' = [replicating EXCEPT ![n] = [enabled |-> enabled, byHand |-> TRUE]]
    /\ UNCHANGED <<up, views, joining, net, older, election>>

Quiet == UNCHANGED <<election, replicating>>

\* handleMessage, and the answers that the senders await
Message(m, n, i) ==
    \/ HandleHeartbeat(m, n, i) /\ Quiet
    \/ HandleJoinRequest(m, n, i) /\ Quiet
    \/ MergeRoster(m, n, i) /\ Quiet
    \/ HandleLeave(m, n, i) /\ Quiet
    \/ HandleElectionStart(m, n, i)
    \/ ElectionAnswered(m, n, i)
    \/ HandleVictory(m, n, i)

Failure(m, n, i) ==
    \/ JoinFails(m, n, i) /\ Quiet
    \/ NoticeFails(m, n, i) /\ Quiet
    \/ ElectionRequestFails(m, n, i)

Delivery(m, n) == \E i \in DOMAIN net[m][n] : Message(m, n, i) \/ Failure(m, n, i)

Detect(n, m) == (Suspect(n, m) /\ Quiet) \/ DeclareDead(n, m)
Timeout(n) == \/ CheckLeaderHealth(n)
              \/ \E t \in election[n].armed : VictoryTimer(n, t)
              \/ \E r \in election[n].asked : RequestTimeout(n, r)

Operate(n) ==
    \/ \E m \in Nodes : (PostReplica(n, m) \/ DeleteReplica(n, m)) /\ Quiet
    \/ \E enabled \in BOOLEAN : SetEnabled(n, enabled)

Next ==
    \/ \E m, n \in Nodes : Delivery(m, n) \/ Detect(m, n)
    \/ \E n \in Nodes : (Heartbeat(n) /\ Quiet) \/ Timeout(n)
    \/ \E n \in Nodes : Start(n) \/ Crash(n) \/ Stop(n) \/ Operate(n)

\* Requests are answered or fail, and intervals and timers run, each in time.
InTime == UNCHANGED <<late, races>>

Fairness ==
    /\ \A m, n \in Nodes : /\ WF_evars(Delivery(m, n) /\ InTime)
                           /\ WF_evars(Detect(m, n) /\ InTime)
    /\ \A n \in Nodes : /\ WF_evars(Heartbeat(n) /\ Quiet)
                        /\ WF_evars(Timeout(n) /\ InTime)

Spec == Init /\ [][Next]_evars /\ Fairness

-----------------------------------------------------------------------------

\* The replication service of a node holds no replica that its membership has
\* given up, dead, left or never met, but those that an operator registered
\* since (onNodeJoined, onNodeRemoved).
ReplicasAreMembers ==
    \A n \in Nodes : \A r \in replicas[n] : r.byHand \/ r.id \in Peers(n)

\* A node leads, or its last election still has its replication turned on.
Leads(n) == role[n][n] = "leader" \/ replicating[n] = On

\* A victory of m is under way that n will accept.
Announces(m, n) ==
    \E i \in DOMAIN net[m][n] :
        net[m][n][i].type = "victory" /\ net[m][n][i].term >= election[n].term

\* While no process ends and no message is lost or takes seconds, one node at
\* most leads (declareVictory, onBecameLeader, onBecameFollower), in whatever
\* order the nodes start and elect; two do only after a timer raced with a
\* message, and for as long as the victory is under way that ends it.
AtMostOneLeads ==
    late = 0 /\ stops = 0 =>
        \A m, n \in Nodes : Leads(m) /\ Leads(n) /\ m # n =>
            races > 0 /\ (Announces(m, n) \/ Announces(n, m))

\* The term that a node takes part in never goes back while it runs: a node
\* that was told of a newer election cannot accept the winner of an older one
\* (startElection, handleElectionStart, handleVictory).
TermsNeverGoBack ==
    [][\A n \in Nodes : up[n] /\ up'[n] => election'[n].term >= election[n].term]_evars

\* All agree on one leader, which replicates, and nobody is electing.
Agreed ==
    \E l \in Nodes :
        /\ role[l][l] = "leader" /\ (replicating[l] = On \/ replicating[l].byHand)
        /\ \A n \in Nodes \ {l} : up[n] =>
               /\ role[n][n] = "follower"
               /\ state[n][l] = "alive" /\ role[n][l] = "leader"
        /\ \A n \in Nodes : up[n] => ~election[n].electing

NobodyRuns == \A n \in Nodes : ~up[n]

\* A node asked others to take over and had an answer; it waits for the
\* victory of one of them, and starts no election in the meantime.
Waiting(n) ==
    /\ up[n] /\ election[n].electing
    /\ election[n].yields /\ election[n].armed = {} /\ election[n].asked = {}

\* While no message is lost or late the nodes that run settle on one leader,
\* whatever the order they start in and whatever races with what; and also if
\* some of them crash or shut down, unless a timer raced as well, or a node
\* waits for a victory that a process took with it when it ended.
SettlesOnOneLeader ==
    <>[](late > 0 \/ NobodyRuns \/ Agreed
         \/ (stops > 0 /\ (races > 0 \/ \E n \in Nodes : Waiting(n))))

\* "For high-availability setups with automatic failover" (INSTALL.md:210):
\* while no message is late the nodes that are left settle on one leader.
FailsOver == <>[](late > 0 \/ NobodyRuns \/ Agreed)

\* "A single leader handles all writes" (README.md:621): while no message is
\* late, two nodes do not lead side by side for ever.
OneLeaderInTheEnd ==
    []<>(late > 0 \/ \A m, n \in Nodes : Leads(m) /\ Leads(n) => m = n)
=============================================================================
