-------------------------- MODULE Election_proofs --------------------------
(***************************************************************************)
(* For any number of nodes, any seeds and priorities and any number of     *)
(* faults: the replicas of a node are members, or registered by hand, and  *)
(* the term of a running node never goes back. For two nodes that are each *)
(* other's seed, of any priorities: until a process ends or a message is   *)
(* late, two lead only after a race, and until a victory arrives.          *)
(***************************************************************************)
EXTENDS Election, TLAPS

\* Messages are of their types and no node sends one to itself.
NetOK(onNet) ==
    /\ onNet \in [Nodes -> [Nodes -> Seq(Messages)]]
    /\ \A n \in Nodes : onNet[n][n] = <<>>

IInv == Typed /\ NetOK(net) /\ ReplicasAreMembers

Switches == [enabled: BOOLEAN, byHand: BOOLEAN]
OlderOK(onOlder) == onOlder \in [Nodes -> [Nodes -> Nat]]
CountsOK == late' \in Nat /\ stops' \in Nat /\ races' \in Nat /\ commands' \in Nat
Counted == CountsOK /\ OlderOK(older')

-----------------------------------------------------------------------------
(* The network.                                                            *)

\* What is sent to others keeps the network well formed.
LEMMA SentOK ==
    ASSUME NEW onNet, NetOK(onNet), NEW n \in Nodes,
           NEW targets, n \notin targets, NEW message \in Messages
    PROVE  NetOK(Sent(onNet, n, targets, message))
  <1> DEFINE row == [m \in Nodes |-> IF m \in targets THEN Append(onNet[n][m], message)
                                                      ELSE onNet[n][m]]
  <1>1. row \in [Nodes -> Seq(Messages)] /\ row[n] = <<>>
    BY DEF NetOK
  <1>2. Sent(onNet, n, targets, message) = [onNet EXCEPT ![n] = row]
    BY DEF Sent, NetOK
  <1> HIDE DEF row
  <1> QED
    BY <1>1, <1>2 DEF NetOK

\* A sequence without one of its elements
LEMMA RemoveAtSeq ==
    ASSUME NEW S, NEW s \in Seq(S), NEW i \in DOMAIN s
    PROVE  RemoveAt(s, i) \in Seq(S)
  <1>1. SubSeq(s, 1, i-1) \in Seq(S) /\ SubSeq(s, i+1, Len(s)) \in Seq(S)
    OBVIOUS
  <1> QED
    BY <1>1 DEF RemoveAt

\* A message under way is a message, to another node than its sender; taking
\* it keeps the network well formed.
LEMMA TakenOK ==
    ASSUME NetOK(net), NEW m \in Nodes, NEW n \in Nodes, NEW i \in DOMAIN net[m][n]
    PROVE  /\ m # n
           /\ net[m][n][i] \in Messages
           /\ NetOK(Taken(m, n, i))
  <1>1. net[m][n] \in Seq(Messages)
    BY DEF NetOK
  <1>2. m # n
    BY DEF NetOK
  <1>3. net[m][n][i] \in Messages
    BY <1>1
  <1>4. RemoveAt(net[m][n], i) \in Seq(Messages)
    BY <1>1, RemoveAtSeq
  <1>5. Taken(m, n, i) = [net EXCEPT ![m] = [net[m] EXCEPT ![n] = RemoveAt(net[m][n], i)]]
    BY DEF Taken, NetOK
  <1> HIDE DEF Taken
  <1>6. Taken(m, n, i) \in [Nodes -> [Nodes -> Seq(Messages)]]
    BY <1>4, <1>5 DEF NetOK
  <1> QED
    BY <1>2, <1>3, <1>5, <1>6 DEF NetOK

\* What was under way when a timer was set, with a message fewer
LEMMA FewerOK ==
    ASSUME Typed, NEW m \in Nodes, NEW n \in Nodes, NEW i \in Nat, i # 0
    PROVE  OlderOK(FewerOlder(m, n, i))
  <1> DEFINE k == IF i <= older[n][m] THEN older[n][m] - 1 ELSE older[n][m]
  <1>1. older \in [Nodes -> [Nodes -> Nat]] /\ older[n][m] \in Nat
    BY DEF Typed
  <1>2. k \in Nat
    BY <1>1
  <1>3. FewerOlder(m, n, i) = [older EXCEPT ![n] = [older[n] EXCEPT ![m] = k]]
    BY <1>1 DEF FewerOlder
  <1> HIDE DEF k
  <1>4. [older[n] EXCEPT ![m] = k] \in [Nodes -> Nat]
    BY <1>1, <1>2
  <1> QED
    BY <1>1, <1>3, <1>4 DEF OlderOK

\* What is under way when a timer is set
LEMMA UnderWayOK ==
    ASSUME Typed, NEW onNet, NetOK(onNet), NEW n \in Nodes, NEW onOlder, OlderOK(onOlder)
    PROVE  OlderOK([onOlder EXCEPT ![n] = UnderWay(onNet, n)])
  <1>1. \A m \in Nodes : onNet[m][n] \in Seq(Messages)
    BY DEF NetOK
  <1>2. \A m \in Nodes : Len(onNet[m][n]) \in Nat
    BY <1>1
  <1>3. UnderWay(onNet, n) \in [Nodes -> Nat]
    BY <1>2 DEF UnderWay
  <1> QED
    BY <1>3 DEF OlderOK

\* The messages by their types
LEMMA MessageTypes ==
    ASSUME NEW msg \in Messages
    PROVE  /\ msg.type = "heartbeat" => msg.role \in Roles
           /\ msg.type = "roster" => /\ msg.state \in [Nodes -> States]
                                     /\ msg.role \in [Nodes -> Roles]
           /\ msg.type \in {"election_start", "ok", "victory"} => msg.term \in Nat
  BY DEF Messages

\* contactSeeds goes to a seed, or ends.
LEMMA ContactOK ==
    ASSUME Typed, NEW onNet, NetOK(onNet), NEW n \in Nodes,
           NEW position \in Nat, position <= Len(Seeds[n]), Contact(onNet, n, position)
    PROVE  /\ NetOK(net')
           /\ joining' \in [Nodes -> Nat] /\ \A p \in Nodes : joining'[p] <= Len(Seeds[p])
  <1>1. joining' \in [Nodes -> Nat] /\ \A p \in Nodes : joining'[p] <= Len(Seeds[p])
    BY DEF Typed, Contact
  <1>2. CASE position = 0
    BY <1>1, <1>2 DEF Contact
  <1>3. CASE position # 0
    <2>1. Seeds[n] \in Seq(Nodes) /\ position \in DOMAIN Seeds[n]
      BY <1>3, SeedsAssumption
    <2>2. n \notin {Seeds[n][position]}
      BY <2>1, SeedsAssumption
    <2>3. Join \in Messages
      BY DEF Join, Messages
    <2> QED
      BY <1>1, <1>3, <2>2, <2>3, SentOK DEF Contact
  <1> QED
    BY <1>2, <1>3

-----------------------------------------------------------------------------
(* The election service.                                                   *)

\* What the steps of the election service leave: everything of its type, and
\* no lower term.
Steady ==
    /\ NetOK(net')
    /\ election' \in [Nodes -> Elections]
    /\ role' \in [Nodes -> [Nodes -> Roles]]
    /\ replicating' \in [Nodes -> Switches]
    /\ \A p \in Nodes : election'[p].term >= election[p].term

\* Own roles may change to any role.
LEMMA RoleOK ==
    ASSUME Typed, NEW n \in Nodes, NEW r \in Roles
    PROVE  [role EXCEPT ![n][n] = r] \in [Nodes -> [Nodes -> Roles]]
  <1>1. [role[n] EXCEPT ![n] = r] \in [Nodes -> Roles]
    BY DEF Typed
  <1> QED
    BY <1>1 DEF Typed

\* The election service of one node is left with no lower term.
LEMMA ElectionSet ==
    ASSUME Typed, NEW n \in Nodes, NEW e \in Elections, e.term >= election[n].term,
           election' = [election EXCEPT ![n] = e]
    PROVE  /\ election' \in [Nodes -> Elections]
           /\ \A p \in Nodes : election'[p].term >= election[p].term
  <1>1. election \in [Nodes -> Elections] /\ election' \in [Nodes -> Elections]
    BY DEF Typed
  <1>2. ASSUME NEW p \in Nodes
        PROVE  election'[p].term >= election[p].term
    <2>1. election[p].term \in Nat
      BY <1>1 DEF Elections
    <2>2. election'[p] = IF p = n THEN e ELSE election[p]
      BY <1>1
    <2> QED
      BY <2>1, <2>2
  <1> QED
    BY <1>1, <1>2

\* An election begins in the next term.
LEMMA BegunOK ==
    ASSUME Typed, NEW n \in Nodes
    PROVE  Begun(n) \in Elections /\ Begun(n).term = election[n].term + 1
  <1> DEFINE t == election[n].term + 1
             e == [election[n] EXCEPT !.term = t, !.electing = TRUE, !.yields = FALSE]
             request == [term |-> t, left |-> Higher(n), answered |-> FALSE]
  <1>1. election[n] \in Elections
    BY DEF Typed
  <1>2. t \in Nat /\ e \in Elections /\ e.term = t
    <2>1. t \in Nat
      BY <1>1 DEF Elections
    <2> HIDE DEF t
    <2> QED
      BY <1>1, <2>1 DEF Elections
  <1>3. request \in Requests
    BY <1>2 DEF Requests, Higher
  <1> HIDE DEF e, t, request
  <1>4. /\ [e EXCEPT !.handle = t, !.armed = @ \cup {t}] \in Elections
        /\ [e EXCEPT !.handle = t, !.armed = @ \cup {t}].term = t
    BY <1>2 DEF Elections
  <1>5. /\ [e EXCEPT !.asked = @ \cup {request}] \in Elections
        /\ [e EXCEPT !.asked = @ \cup {request}].term = t
    BY <1>2, <1>3 DEF Elections
  <1> QED
    BY <1>4, <1>5 DEF Begun, e, t, request

\* startElection, and the term that it heard of
LEMMA StartElectionOK ==
    ASSUME Typed, NEW n \in Nodes, NEW onNet, NetOK(onNet), NEW heard \in Nat,
           NEW onOlder, OlderOK(onOlder), StartElection(n, onNet, onOlder, heard)
    PROVE  Steady /\ OlderOK(older')
  <1> DEFINE begins == ~election[n].electing
             e == IF begins THEN Begun(n) ELSE election[n]
             raised == [e EXCEPT !.term = IF heard > @ THEN heard ELSE @]
  <1>1. election[n] \in Elections /\ election[n].term \in Nat
    BY DEF Typed, Elections
  <1>2. e \in Elections /\ e.term \in Nat /\ e.term >= election[n].term
    BY <1>1, BegunOK
  <1>3. election' = [election EXCEPT ![n] = raised]
    BY DEF StartElection
  <1>4. role' = IF begins THEN [role EXCEPT ![n][n] = "candidate"] ELSE role
    BY DEF StartElection
  <1>5. net' = IF begins THEN Sent(onNet, n, Higher(n), ElectionStart(e.term)) ELSE onNet
    BY DEF StartElection
  <1> HIDE DEF e
  <1>6. raised \in Elections /\ raised.term >= election[n].term
    BY <1>1, <1>2 DEF Elections
  <1>7. election' \in [Nodes -> Elections] /\ \A p \in Nodes : election'[p].term >= election[p].term
    BY <1>3, <1>6, ElectionSet
  <1>8. NetOK(net')
    <2>1. ElectionStart(e.term) \in Messages
      BY <1>2 DEF ElectionStart, Messages
    <2>2. n \notin Higher(n)
      BY DEF Higher
    <2> QED
      BY <1>5, <2>1, <2>2, SentOK
  <1>9. role' \in [Nodes -> [Nodes -> Roles]]
    BY <1>4, RoleOK DEF Roles, Typed
  <1>10. OlderOK(older')
    <2>1. older' = IF begins /\ Higher(n) = {}
                   THEN [onOlder EXCEPT ![n] = UnderWay(onNet, n)] ELSE onOlder
      BY DEF StartElection
    <2> QED
      BY <2>1, UnderWayOK
  <1> QED
    BY <1>7, <1>8, <1>9, <1>10 DEF Steady, StartElection, Typed, Switches

\* declareVictory, after a step that left the election service with its term
LEMMA DeclareVictoryOK ==
    ASSUME Typed, NEW n \in Nodes, NEW onNet, NetOK(onNet),
           NEW e \in Elections, e.term = election[n].term, DeclareVictory(n, e, onNet)
    PROVE  Steady
  <1>1. e.term \in Nat /\ [e EXCEPT !.electing = FALSE] \in Elections
        /\ [e EXCEPT !.electing = FALSE].term = election[n].term
    BY DEF Elections
  <1>2. Victory(e.term) \in Messages
    BY <1>1 DEF Victory, Messages
  <1>3. NetOK(net')
    BY <1>2, SentOK DEF DeclareVictory, AlivePeers
  <1>4. role' \in [Nodes -> [Nodes -> Roles]]
    BY RoleOK DEF DeclareVictory, Roles
  <1>5. election' \in [Nodes -> Elections] /\ \A p \in Nodes : election'[p].term >= election[p].term
    <2>1. [e EXCEPT !.electing = FALSE].term >= election[n].term
      BY <1>1
    <2>2. election' = [election EXCEPT ![n] = [e EXCEPT !.electing = FALSE]]
      BY DEF DeclareVictory
    <2> QED
      BY <1>1, <2>1, <2>2, ElectionSet
  <1> QED
    BY <1>3, <1>4, <1>5 DEF Steady, DeclareVictory, Typed, Switches, On

\* The end of requestElection
LEMMA GoOnOK ==
    ASSUME Typed, NEW n \in Nodes, NEW onNet, NetOK(onNet),
           NEW e \in Elections, e.term = election[n].term,
           NEW answered \in BOOLEAN, GoOn(n, e, answered, onNet)
    PROVE  Steady
  <1>1. CASE ~answered /\ e.electing
    BY <1>1, DeclareVictoryOK DEF GoOn
  <1>2. CASE ~(~answered /\ e.electing)
    <2>1. /\ [e EXCEPT !.yields = answered] \in Elections
          /\ [e EXCEPT !.yields = answered].term >= election[n].term
      BY DEF Elections
    <2>2. election' = [election EXCEPT ![n] = [e EXCEPT !.yields = answered]]
      BY <1>2 DEF GoOn
    <2> QED
      BY <1>2, <2>1, <2>2, ElectionSet DEF GoOn, Steady, Typed, Switches
  <1> QED
    BY <1>1, <1>2

\* A request of requestElection ends.
LEMMA SettleOK ==
    ASSUME Typed, NEW n \in Nodes, NEW onNet, NetOK(onNet), NEW t \in Nat,
           NEW m \in Nodes, NEW answers \in BOOLEAN, Settle(n, t, m, answers, onNet)
    PROVE  Steady
  <1> DEFINE e == election[n]
             awaiting == {r \in e.asked : r.term = t}
             settled == {[r EXCEPT !.left = @ \ {m}, !.answered = @ \/ answers] : r \in awaiting}
             done == {r \in settled : r.left = {}}
             rest == (e.asked \ awaiting) \cup (settled \ done)
             left == [e EXCEPT !.asked = rest]
  <1>1. e \in Elections /\ e.asked \subseteq Requests
    BY DEF Typed, Elections
  <1>2. settled \subseteq Requests
    <2> SUFFICES ASSUME NEW r \in awaiting
                 PROVE  [r EXCEPT !.left = @ \ {m}, !.answered = @ \/ answers] \in Requests
      OBVIOUS
    <2>1. r \in Requests
      BY <1>1
    <2> QED
      BY <2>1 DEF Requests
  <1>3. left \in Elections /\ left.term = election[n].term /\ left.term >= election[n].term
    <2>1. rest \in SUBSET Requests
      BY <1>1, <1>2
    <2> HIDE DEF rest
    <2> QED
      BY <1>1, <2>1 DEF Elections
  <1>4. IF done # {} THEN \E r \in done : GoOn(n, left, r.answered, onNet)
        ELSE /\ election' = [election EXCEPT ![n] = left]
             /\ net' = onNet
             /\ UNCHANGED <<role, replicating>>
    BY DEF Settle
  <1> HIDE DEF left
  <1>5. CASE done # {}
    <2>1. PICK r \in done : GoOn(n, left, r.answered, onNet)
      BY <1>4, <1>5
    <2>2. r.answered \in BOOLEAN
      BY <1>2 DEF Requests
    <2> QED
      BY <1>3, <2>1, <2>2, GoOnOK
  <1>6. CASE done = {}
    <2>1. election' = [election EXCEPT ![n] = left]
      BY <1>4, <1>6
    <2> QED
      BY <1>3, <1>4, <1>6, <2>1, ElectionSet DEF Steady, Typed, Switches
  <1> QED
    BY <1>5, <1>6

-----------------------------------------------------------------------------
(* The steps, one lemma for each action or group of actions.               *)

TermsKept == \A n \in Nodes : up[n] /\ up'[n] => election'[n].term >= election[n].term

\* What a step must leave for the invariant, and for the terms
Kept == IInv' /\ TermsKept

LEMMA SpendOK ==
    ASSUME Typed, NEW lost \in Nat, NEW raced \in Nat, Spends(lost, raced)
    PROVE  CountsOK
  BY DEF Spends, CountsOK, Typed

\* The election service of one node steps, and the membership stays.
LEMMA ElectionStep ==
    ASSUME IInv, Steady, Counted, UNCHANGED <<up, state, replicas, joining>>
    PROVE  Kept
  <1>1. Typed'
    BY DEF IInv, Typed, Steady, NetOK, Counted, CountsOK, OlderOK, Switches
  <1>2. ReplicasAreMembers'
    BY DEF IInv, ReplicasAreMembers, Peers
  <1> QED
    BY <1>1, <1>2 DEF IInv, Steady, Kept, TermsKept

\* Terms that did not change at all
LEMMA TermsSame ==
    ASSUME Typed, UNCHANGED election
    PROVE  TermsKept
  BY DEF Typed, Elections, TermsKept

\* A step that takes or sends a message and changes nothing else
LEMMA UnheardOK ==
    ASSUME Typed, NetOK(net'), UNCHANGED <<role, election, replicating>>
    PROVE  Steady
  <1>1. \A p \in Nodes : election[p].term \in Nat
    BY DEF Typed, Elections
  <1>2. \A p \in Nodes : election'[p].term >= election[p].term
    BY <1>1
  <1> QED
    BY <1>2 DEF Steady, Typed, Switches

LEMMA CheckLeaderHealthOK ==
    ASSUME IInv, NEW n \in Nodes, CheckLeaderHealth(n)
    PROVE  Kept
  <1>1. OlderOK(older)
    BY DEF IInv, Typed, OlderOK
  <1>2. Steady /\ OlderOK(older')
    BY <1>1, StartElectionOK DEF CheckLeaderHealth, IInv
  <1>3. CountsOK
    <2>1. PICK lost \in Nat, raced \in Nat : Spends(lost, raced)
      BY DEF CheckLeaderHealth
    <2> QED
      BY <2>1, SpendOK DEF IInv
  <1> QED
    BY <1>2, <1>3, ElectionStep DEF CheckLeaderHealth, Counted

LEMMA VictoryTimerOK ==
    ASSUME IInv, NEW n \in Nodes, NEW t \in election[n].armed, VictoryTimer(n, t)
    PROVE  Kept
  <1> DEFINE e == [election[n] EXCEPT !.armed = @ \ {t}, !.handle = IF @ = t THEN 0 ELSE @]
  <1>1. e \in Elections /\ e.term = election[n].term /\ e.term >= election[n].term
    <2> DEFINE rest == election[n].armed \ {t}
               kept == IF election[n].handle = t THEN 0 ELSE election[n].handle
    <2>1. election[n] \in Elections
      BY DEF IInv, Typed
    <2>2. rest \in SUBSET Nat /\ kept \in Nat /\ election[n].term \in Nat
      BY <2>1 DEF Elections
    <2>3. e = [election[n] EXCEPT !.armed = rest, !.handle = kept]
      OBVIOUS
    <2> HIDE DEF rest, kept, e
    <2>4. e \in Elections /\ e.term = election[n].term
      BY <2>1, <2>2, <2>3 DEF Elections
    <2> QED
      BY <2>2, <2>4
  <1>2. IF e.electing THEN DeclareVictory(n, e, net)
        ELSE /\ election' = [election EXCEPT ![n] = e]
             /\ UNCHANGED <<role, net, replicating>>
    BY DEF VictoryTimer
  <1> HIDE DEF e
  <1>3. Steady
    <2>1. CASE e.electing
      BY <1>1, <1>2, <2>1, DeclareVictoryOK DEF IInv
    <2>2. CASE ~e.electing
      BY <1>1, <1>2, <2>2, ElectionSet DEF IInv, Typed, Steady, Switches
    <2> QED
      BY <2>1, <2>2
  <1>4. Counted
    <2>1. PICK lost \in Nat, raced \in Nat : Spends(lost, raced)
      BY DEF VictoryTimer, Spend, Race
    <2> QED
      BY <2>1, SpendOK DEF VictoryTimer, IInv, Counted, OlderOK, Typed
  <1> QED
    BY <1>3, <1>4, ElectionStep DEF VictoryTimer

LEMMA RequestTimeoutOK ==
    ASSUME IInv, NEW n \in Nodes, NEW r \in election[n].asked, RequestTimeout(n, r)
    PROVE  Kept
  <1> DEFINE e == [election[n] EXCEPT !.asked = @ \ {r}]
  <1>1. election[n] \in Elections /\ r \in Requests
    BY DEF IInv, Typed, Elections
  <1>2. e \in Elections /\ e.term = election[n].term /\ r.answered \in BOOLEAN
    BY <1>1 DEF Elections, Requests
  <1>3. GoOn(n, e, r.answered, net)
    BY DEF RequestTimeout
  <1>4. Steady
    BY <1>2, <1>3, GoOnOK DEF IInv
  <1>5. Counted
    BY SpendOK DEF RequestTimeout, Spend, IInv, Counted, OlderOK, Typed
  <1> QED
    BY <1>4, <1>5, ElectionStep DEF RequestTimeout

\* A delivery finds a message under way to another node, is late or races.
LEMMA ReachesOK ==
    ASSUME IInv, NEW m \in Nodes, NEW n \in Nodes, NEW i, NEW type, Reaches(m, n, i, type)
    PROVE  /\ CountsOK /\ OlderOK(FewerOlder(m, n, i))
           /\ i \in DOMAIN net[m][n]
           /\ m # n
           /\ net[m][n][i] \in Messages /\ net[m][n][i].type = type
           /\ NetOK(Taken(m, n, i))
  <1>1. i \in DOMAIN net[m][n] /\ net[m][n][i].type = type /\ NetOK(net) /\ Typed
    BY DEF Reaches, IInv
  <1>2. CountsOK
    BY <1>1, SpendOK DEF Reaches, Race
  <1>3. net[m][n] \in Seq(Messages)
    BY <1>1 DEF NetOK
  <1>4. i \in Nat /\ i # 0
    BY <1>1, <1>3
  <1> QED
    BY <1>1, <1>2, <1>4, TakenOK, FewerOK

LEMMA ArrivesOK ==
    ASSUME IInv, NEW m \in Nodes, NEW n \in Nodes, NEW i, NEW type, Arrives(m, n, i, type)
    PROVE  /\ Counted
           /\ i \in DOMAIN net[m][n]
           /\ m # n
           /\ net[m][n][i] \in Messages /\ net[m][n][i].type = type
           /\ NetOK(Taken(m, n, i))
  BY ReachesOK DEF Arrives, Counted

LEMMA FailsOK ==
    ASSUME IInv, NEW m \in Nodes, NEW n \in Nodes, NEW i, NEW type, Fails(m, n, i, type)
    PROVE  /\ Counted
           /\ i \in DOMAIN net[m][n]
           /\ m # n
           /\ net[m][n][i] \in Messages /\ net[m][n][i].type = type
           /\ NetOK(Taken(m, n, i))
  <1>1. i \in DOMAIN net[m][n] /\ net[m][n][i].type = type /\ NetOK(net) /\ Typed
    BY DEF Fails, IInv
  <1>2. CountsOK
    BY <1>1, SpendOK DEF Fails, Spend
  <1>3. net[m][n] \in Seq(Messages)
    BY <1>1 DEF NetOK
  <1>4. i \in Nat /\ i # 0
    BY <1>1, <1>3
  <1>5. OlderOK(older')
    BY <1>1, <1>4, FewerOK DEF Fails
  <1> QED
    BY <1>1, <1>2, <1>5, TakenOK DEF Counted

LEMMA HandleElectionStartOK ==
    ASSUME IInv, NEW m \in Nodes, NEW n \in Nodes, NEW i, HandleElectionStart(m, n, i)
    PROVE  Kept
  <1> DEFINE t == net[m][n][i].term
             answered == Sent(Taken(m, n, i), n, {m}, Ok(t))
             raised == [election[n] EXCEPT !.term = IF t > @ THEN t ELSE @]
  <1>1. /\ CountsOK /\ OlderOK(FewerOlder(m, n, i)) /\ m # n /\ NetOK(Taken(m, n, i))
        /\ net[m][n][i] \in Messages /\ net[m][n][i].type = "election_start"
    BY ReachesOK DEF HandleElectionStart
  <1>2. t \in Nat
    BY <1>1, MessageTypes
  <1>3. NetOK(answered)
    <2>1. Ok(t) \in Messages
      BY <1>2 DEF Ok, Messages
    <2> QED
      BY <1>1, <2>1, SentOK
  <1>4. IF Priority[n] > Priority[m] THEN StartElection(n, answered, FewerOlder(m, n, i), t)
        ELSE /\ election' = [election EXCEPT ![n].term = IF t > @ THEN t ELSE @]
             /\ net' = answered
             /\ older' = FewerOlder(m, n, i)
             /\ UNCHANGED <<role, replicating>>
    BY DEF HandleElectionStart
  <1>5. raised \in Elections /\ raised.term >= election[n].term
    <2>1. election[n] \in Elections /\ election[n].term \in Nat
      BY DEF IInv, Typed, Elections
    <2> HIDE DEF t
    <2> QED
      BY <1>2, <2>1 DEF Elections
  <1> HIDE DEF answered, t
  <1>6. Steady /\ OlderOK(older')
    <2>1. CASE Priority[n] > Priority[m]
      BY <1>1, <1>2, <1>3, <1>4, <2>1, StartElectionOK DEF IInv
    <2>2. CASE ~(Priority[n] > Priority[m])
      <3>1. election' = [election EXCEPT ![n] = raised]
        BY <1>4, <2>2
      <3> QED
        BY <1>1, <1>3, <1>4, <1>5, <2>2, <3>1, ElectionSet DEF IInv, Typed, Steady, Switches
    <2> QED
      BY <2>1, <2>2
  <1> QED
    BY <1>1, <1>6, ElectionStep DEF HandleElectionStart, Counted

LEMMA ElectionAnsweredOK ==
    ASSUME IInv, NEW m \in Nodes, NEW n \in Nodes, NEW i, ElectionAnswered(m, n, i)
    PROVE  Kept
  <1>1. /\ Counted /\ NetOK(Taken(m, n, i))
        /\ net[m][n][i] \in Messages /\ net[m][n][i].type = "ok"
    BY ArrivesOK DEF ElectionAnswered
  <1>2. net[m][n][i].term \in Nat
    BY <1>1, MessageTypes
  <1>3. Steady
    BY <1>1, <1>2, SettleOK DEF ElectionAnswered, IInv
  <1> QED
    BY <1>1, <1>3, ElectionStep DEF ElectionAnswered

\* The roles that a follower keeps
LEMMA FollowRoles ==
    ASSUME Typed, NEW m \in Nodes, NEW n \in Nodes, m # n, Follow(m, n)
    PROVE  role' \in [Nodes -> [Nodes -> Roles]]
  <1> DEFINE own == [role EXCEPT ![n][n] = "follower"]
             winner == IF state[n][m] = "unknown" THEN role[n][m] ELSE "leader"
  <1>1. own \in [Nodes -> [Nodes -> Roles]]
    BY RoleOK DEF Roles
  <1>2. winner \in Roles
    BY DEF Typed, Roles
  <1>3. role' = [own EXCEPT ![n][m] = winner]
    BY DEF Follow, Typed
  <1> HIDE DEF own, winner
  <1>4. [own[n] EXCEPT ![m] = winner] \in [Nodes -> Roles]
    BY <1>1, <1>2
  <1> QED
    BY <1>1, <1>3, <1>4

LEMMA HandleVictoryOK ==
    ASSUME IInv, NEW m \in Nodes, NEW n \in Nodes, NEW i, HandleVictory(m, n, i)
    PROVE  Kept
  <1> DEFINE t == net[m][n][i].term
  <1>1. /\ Counted /\ NetOK(Taken(m, n, i)) /\ m # n
        /\ net[m][n][i] \in Messages /\ net[m][n][i].type = "victory"
    BY ArrivesOK DEF HandleVictory
  <1>2. t \in Nat
    BY <1>1, MessageTypes
  <1>3. net' = Taken(m, n, i)
    BY DEF HandleVictory
  <1>4. Steady
    <2>1. CASE t >= election[n].term
      <3>1. election' = [election EXCEPT ![n] = Accepted(election[n], t)] /\ Follow(m, n)
        BY <2>1 DEF HandleVictory
      <3>2. election[n] \in Elections
        BY DEF IInv, Typed
      <3> HIDE DEF t
      <3>3. Accepted(election[n], t) \in Elections /\ Accepted(election[n], t).term = t
        BY <1>2, <3>2 DEF Accepted, Elections
      <3>4. /\ election' \in [Nodes -> Elections]
            /\ \A p \in Nodes : election'[p].term >= election[p].term
        BY <2>1, <3>1, <3>3, ElectionSet DEF IInv
      <3>5. role' \in [Nodes -> [Nodes -> Roles]]
        BY <1>1, <3>1, FollowRoles DEF IInv
      <3>6. replicating' \in [Nodes -> Switches]
        BY <3>1 DEF Follow, IInv, Typed, Switches, Off
      <3> QED
        BY <1>1, <1>3, <3>4, <3>5, <3>6 DEF Steady
    <2>2. CASE ~(t >= election[n].term)
      <3>1. UNCHANGED <<role, election, replicating>>
        BY <2>2 DEF HandleVictory
      <3> QED
        BY <1>1, <1>3, <3>1, UnheardOK DEF IInv
    <2> QED
      BY <2>1, <2>2
  <1> QED
    BY <1>1, <1>4, ElectionStep DEF HandleVictory

LEMMA ElectionRequestFailsOK ==
    ASSUME IInv, NEW m \in Nodes, NEW n \in Nodes, NEW i, ElectionRequestFails(m, n, i)
    PROVE  Kept
  <1> DEFINE t == net[m][n][i].term
             taken == Taken(m, n, i)
             Unheard == net' = taken /\ UNCHANGED <<role, election, replicating>>
  <1>1. \/ /\ Fails(m, n, i, "election_start")
           /\ IF up[m] THEN Settle(m, t, n, FALSE, taken) ELSE Unheard
        \/ /\ Fails(m, n, i, "ok")
           /\ IF up[n] THEN Settle(n, t, m, FALSE, taken) ELSE Unheard
    BY DEF ElectionRequestFails
  <1>2. /\ Counted /\ NetOK(taken)
        /\ net[m][n][i] \in Messages /\ net[m][n][i].type \in {"election_start", "ok"}
    BY <1>1, FailsOK
  <1>3. t \in Nat
    BY <1>2, MessageTypes
  <1> HIDE DEF t, taken
  <1>4. Steady
    <2>1. CASE Unheard
      BY <1>2, <2>1, UnheardOK DEF IInv
    <2>2. CASE Settle(m, t, n, FALSE, taken)
      BY <1>2, <1>3, <2>2, SettleOK DEF IInv
    <2>3. CASE Settle(n, t, m, FALSE, taken)
      BY <1>2, <1>3, <2>3, SettleOK DEF IInv
    <2> QED
      BY <1>1, <2>1, <2>2, <2>3
  <1> QED
    BY <1>2, <1>4, ElectionStep DEF ElectionRequestFails

-----------------------------------------------------------------------------
(* The steps of the membership.                                            *)

\* What the steps of the membership leave, of a node's view of others.
ViewsOK ==
    /\ state' \in [Nodes -> [Nodes -> States]]
    /\ role' \in [Nodes -> [Nodes -> Roles]]
    /\ replicas' \in [Nodes -> SUBSET Replicas]
    /\ ReplicasAreMembers'

\* The membership of one node steps, and its election service stays.
LEMMA MembershipStep ==
    ASSUME IInv, ViewsOK, NetOK(net'), Counted,
           joining' \in [Nodes -> Nat], \A p \in Nodes : joining'[p] <= Len(Seeds[p]),
           UNCHANGED <<up, election, replicating>>
    PROVE  Kept
  <1>1. Typed'
    BY DEF IInv, Typed, ViewsOK, NetOK, Counted, CountsOK, OlderOK
  <1>2. TermsKept
    BY TermsSame DEF IInv
  <1> QED
    BY <1>1, <1>2 DEF IInv, Kept, ViewsOK

\* One entry of a view changes.
LEMMA ViewSet ==
    ASSUME Typed, NEW n \in Nodes, NEW m \in Nodes, NEW s \in States, NEW r \in Roles
    PROVE  /\ [state EXCEPT ![n][m] = s] \in [Nodes -> [Nodes -> States]]
           /\ [role EXCEPT ![n][m] = r] \in [Nodes -> [Nodes -> Roles]]
  <1>1. /\ [state[n] EXCEPT ![m] = s] \in [Nodes -> States]
        /\ [role[n] EXCEPT ![m] = r] \in [Nodes -> Roles]
    BY DEF Typed
  <1> QED
    BY <1>1 DEF Typed

\* What may be left of the replicas of n when the state of m becomes s
Remain(n, m, s, set) ==
    \A r \in set : \/ r.byHand
                   \/ r \in replicas[n] /\ r.id # m
                   \/ r.id = m /\ s \in {"alive", "suspect"}

\* Replicas stay members when a node's state becomes s and its replica is
\* there only if s is the state of a member, or by hand.
LEMMA ReplicaSet ==
    ASSUME Typed, ReplicasAreMembers,
           NEW n \in Nodes, NEW m \in Nodes, m # n, NEW s \in States,
           NEW set \in SUBSET Replicas,
           Remain(n, m, s, set),
           state' = [state EXCEPT ![n][m] = s],
           replicas' = [replicas EXCEPT ![n] = set]
    PROVE  replicas' \in [Nodes -> SUBSET Replicas] /\ ReplicasAreMembers'
  <1>1. replicas' \in [Nodes -> SUBSET Replicas]
    BY DEF Typed
  <1>2. ASSUME NEW p \in Nodes, NEW r \in replicas'[p], ~r.byHand
        PROVE  r.id \in Peers(p)'
    <2>1. CASE p # n
      <3>1. replicas'[p] = replicas[p] /\ state'[p] = state[p]
        BY <2>1 DEF Typed
      <3> QED
        BY <1>2, <3>1 DEF ReplicasAreMembers, Peers
    <2>2. CASE p = n
      <3>1. replicas'[n] = set /\ state'[n] = [state[n] EXCEPT ![m] = s]
        BY DEF Typed
      <3>2. r \in set /\ r \in Replicas
        BY <2>2, <3>1
      <3>3. r.id \in Nodes
        BY <3>2 DEF Replicas
      <3>4. CASE r.id = m
        BY <1>2, <2>2, <3>1, <3>2, <3>4 DEF Typed, Peers, Remain
      <3>5. CASE r.id # m
        <4>1. r \in replicas[n]
          BY <1>2, <3>2, <3>5 DEF Remain
        <4>2. r.id \in Nodes \ {n} /\ state[n][r.id] \in {"alive", "suspect"}
          BY <1>2, <4>1 DEF ReplicasAreMembers, Peers
        <4>3. state'[n][r.id] = state[n][r.id]
          BY <3>1, <3>3, <3>5 DEF Typed
        <4> QED
          BY <2>2, <4>2, <4>3 DEF Peers
      <3> QED
        BY <3>4, <3>5
    <2> QED
      BY <2>1, <2>2
  <1> QED
    BY <1>1, <1>2 DEF ReplicasAreMembers

\* The replicas of a node, one of them registered anew
LEMMA OthersOK ==
    ASSUME Typed, NEW n \in Nodes, NEW m \in Nodes, NEW byHand \in BOOLEAN
    PROVE  /\ Others(n, m) \in SUBSET Replicas
           /\ Others(n, m) \cup {[id |-> m, byHand |-> byHand]} \in SUBSET Replicas
  <1>1. replicas[n] \in SUBSET Replicas
    BY DEF Typed
  <1>2. [id |-> m, byHand |-> byHand] \in Replicas
    BY DEF Replicas
  <1> QED
    BY <1>1, <1>2 DEF Others

\* A step that leaves the positions in the seeds
LEMMA JoiningSame ==
    ASSUME Typed, UNCHANGED joining
    PROVE  joining' \in [Nodes -> Nat] /\ \A p \in Nodes : joining'[p] <= Len(Seeds[p])
  BY DEF Typed

LEMMA HandleHeartbeatOK ==
    ASSUME IInv, NEW m \in Nodes, NEW n \in Nodes, NEW i, HandleHeartbeat(m, n, i), Quiet
    PROVE  Kept
  <1> DEFINE s == IF state[n][m] = "dead" THEN "dead" ELSE "alive"
             set == IF state[n][m] = "unknown"
                    THEN Others(n, m) \cup {[id |-> m, byHand |-> FALSE]} ELSE replicas[n]
  <1>1. /\ Counted /\ m # n /\ NetOK(Taken(m, n, i))
        /\ net[m][n][i] \in Messages /\ net[m][n][i].type = "heartbeat"
    BY ArrivesOK DEF HandleHeartbeat
  <1>2. net[m][n][i].role \in Roles
    BY <1>1, MessageTypes
  <1>3. s \in States /\ set \in SUBSET Replicas
    <2>1. s \in States /\ replicas[n] \in SUBSET Replicas
      BY DEF States, IInv, Typed
    <2> QED
      BY <2>1, OthersOK DEF IInv
  <1>4. Remain(n, m, s, set)
    BY DEF IInv, ReplicasAreMembers, Peers, Others, Remain
  <1>5. /\ state' = [state EXCEPT ![n][m] = s]
        /\ role' = [role EXCEPT ![n][m] = net[m][n][i].role]
        /\ replicas' = [replicas EXCEPT ![n] = set]
    BY DEF HandleHeartbeat, Registered, Added, IInv, Typed
  <1> HIDE DEF s, set
  <1>6. ViewsOK
    <2>1. replicas' \in [Nodes -> SUBSET Replicas] /\ ReplicasAreMembers'
      BY <1>1, <1>3, <1>4, <1>5, ReplicaSet DEF IInv
    <2> QED
      BY <1>2, <1>3, <1>5, <2>1, ViewSet DEF ViewsOK, IInv
  <1> QED
    BY <1>1, <1>6, JoiningSame, MembershipStep DEF HandleHeartbeat, Quiet, IInv

LEMMA HandleJoinRequestOK ==
    ASSUME IInv, NEW m \in Nodes, NEW n \in Nodes, NEW i, HandleJoinRequest(m, n, i), Quiet
    PROVE  Kept
  <1> DEFINE set == Others(n, m) \cup {[id |-> m, byHand |-> FALSE]}
             roster == [type |-> "roster", state |-> state'[n], role |-> role'[n]]
  <1>1. Counted /\ m # n /\ NetOK(Taken(m, n, i))
    BY ArrivesOK DEF HandleJoinRequest
  <1>2. set \in SUBSET Replicas /\ "alive" \in States /\ "follower" \in Roles
    BY OthersOK DEF States, Roles, IInv
  <1>3. /\ state' = [state EXCEPT ![n][m] = "alive"]
        /\ role' = [role EXCEPT ![n][m] = "follower"]
        /\ replicas' = [replicas EXCEPT ![n] = set]
        /\ net' = Sent(Taken(m, n, i), n, {m}, roster)
    BY DEF HandleJoinRequest, Registered, Added
  <1>6. Remain(n, m, "alive", set)
    BY DEF Others, Remain
  <1> HIDE DEF set
  <1>4. ViewsOK
    <2>1. replicas' \in [Nodes -> SUBSET Replicas] /\ ReplicasAreMembers'
      BY <1>1, <1>2, <1>3, <1>6, ReplicaSet DEF IInv
    <2> QED
      BY <1>2, <1>3, <2>1, ViewSet DEF ViewsOK, IInv
  <1>5. NetOK(net')
    <2>1. state'[n] \in [Nodes -> States] /\ role'[n] \in [Nodes -> Roles]
      BY <1>4 DEF ViewsOK
    <2>2. roster \in Messages
      BY <2>1 DEF Messages
    <2> HIDE DEF roster
    <2> QED
      BY <1>1, <1>3, <2>2, SentOK
  <1> QED
    BY <1>1, <1>4, <1>5, JoiningSame, MembershipStep DEF HandleJoinRequest, Quiet, IInv

LEMMA MergeRosterOK ==
    ASSUME IInv, NEW m \in Nodes, NEW n \in Nodes, NEW i, MergeRoster(m, n, i), Quiet
    PROVE  Kept
  <1> DEFINE roster == net[m][n][i]
             states == [p \in Nodes |-> IF state[n][p] = "unknown" THEN roster.state[p]
                                                                   ELSE state[n][p]]
             roles == [p \in Nodes |-> IF state[n][p] = "unknown" THEN roster.role[p]
                                                                  ELSE role[n][p]]
  <1>1. /\ Counted /\ NetOK(Taken(m, n, i))
        /\ net[m][n][i] \in Messages /\ net[m][n][i].type = "roster"
    BY ArrivesOK DEF MergeRoster
  <1>2. roster.state \in [Nodes -> States] /\ roster.role \in [Nodes -> Roles]
    BY <1>1, MessageTypes
  <1>3. /\ state' = [state EXCEPT ![n] = states]
        /\ role' = [role EXCEPT ![n] = roles]
        /\ joining' = [joining EXCEPT ![n] = 0]
        /\ replicas' = replicas /\ net' = Taken(m, n, i)
    BY DEF MergeRoster
  <1>4. states \in [Nodes -> States] /\ roles \in [Nodes -> Roles]
    BY <1>2 DEF IInv, Typed
  <1>5. \A p \in Nodes : state[n][p] # "unknown" => states[p] = state[n][p]
    OBVIOUS
  <1> HIDE DEF states, roles, roster
  <1>6. ReplicasAreMembers'
    <2>1. ASSUME NEW p \in Nodes, NEW r \in replicas[p], ~r.byHand
          PROVE  r.id \in Nodes \ {p} /\ state'[p][r.id] \in {"alive", "suspect"}
      <3>1. r.id \in Nodes \ {p} /\ state[p][r.id] \in {"alive", "suspect"}
        BY <2>1 DEF IInv, ReplicasAreMembers, Peers
      <3>2. state'[p][r.id] = IF p = n THEN states[r.id] ELSE state[p][r.id]
        BY <1>3, <3>1 DEF IInv, Typed
      <3> QED
        BY <1>5, <3>1, <3>2
    <2> QED
      BY <1>3, <2>1 DEF ReplicasAreMembers, Peers
  <1>7. ViewsOK
    BY <1>3, <1>4, <1>6 DEF ViewsOK, IInv, Typed
  <1>8. joining' \in [Nodes -> Nat] /\ \A p \in Nodes : joining'[p] <= Len(Seeds[p])
    <2>1. \A p \in Nodes : Len(Seeds[p]) \in Nat
      BY SeedsAssumption
    <2>2. joining \in [Nodes -> Nat] /\ \A p \in Nodes : joining[p] <= Len(Seeds[p])
      BY DEF IInv, Typed
    <2> QED
      BY <1>3, <2>1, <2>2
  <1> QED
    BY <1>1, <1>3, <1>7, <1>8, MembershipStep DEF MergeRoster, Quiet

LEMMA HandleLeaveOK ==
    ASSUME IInv, NEW m \in Nodes, NEW n \in Nodes, NEW i, HandleLeave(m, n, i), Quiet
    PROVE  Kept
  <1> DEFINE set == Others(n, m)
  <1>1. Counted /\ m # n /\ NetOK(Taken(m, n, i))
    BY ArrivesOK DEF HandleLeave
  <1>2. set \in SUBSET Replicas /\ "unknown" \in States /\ "follower" \in Roles
    BY DEF States, Roles, IInv, Typed, Others
  <1>3. /\ state' = [state EXCEPT ![n][m] = "unknown"]
        /\ role' = [role EXCEPT ![n][m] = "follower"]
        /\ replicas' = [replicas EXCEPT ![n] = set]
        /\ net' = Taken(m, n, i)
    BY DEF HandleLeave, Unregistered
  <1>4. Remain(n, m, "unknown", set)
    BY DEF Others, Remain
  <1> HIDE DEF set
  <1>5. ViewsOK
    <2>1. replicas' \in [Nodes -> SUBSET Replicas] /\ ReplicasAreMembers'
      BY <1>1, <1>2, <1>3, <1>4, ReplicaSet DEF IInv
    <2> QED
      BY <1>2, <1>3, <2>1, ViewSet DEF ViewsOK, IInv
  <1> QED
    BY <1>1, <1>3, <1>5, JoiningSame, MembershipStep DEF HandleLeave, Quiet, IInv

\* The views stay as they are.
LEMMA ViewsSame ==
    ASSUME IInv, UNCHANGED views
    PROVE  ViewsOK
  <1>1. ReplicasAreMembers'
    BY DEF IInv, ReplicasAreMembers, Peers, views
  <1> QED
    BY <1>1 DEF ViewsOK, IInv, Typed, views

\* The next seed is a seed.
LEMMA SeedPositions ==
    ASSUME Typed, NEW n \in Nodes
    PROVE  /\ FirstSeed(n) \in Nat /\ FirstSeed(n) <= Len(Seeds[n])
           /\ NextSeed(n) \in Nat /\ NextSeed(n) <= Len(Seeds[n])
  <1>1. Seeds[n] \in Seq(Nodes) /\ joining[n] \in Nat
    BY SeedsAssumption DEF Typed
  <1>2. Len(Seeds[n]) \in Nat /\ (Seeds[n] # <<>> => Len(Seeds[n]) >= 1)
    BY <1>1
  <1> QED
    BY <1>1, <1>2 DEF FirstSeed, NextSeed

LEMMA JoinFailsOK ==
    ASSUME IInv, NEW m \in Nodes, NEW n \in Nodes, NEW i, JoinFails(m, n, i), Quiet
    PROVE  Kept
  <1> DEFINE taken == Taken(m, n, i)
             Unheard == net' = taken /\ UNCHANGED joining
  <1>1. \/ /\ Fails(m, n, i, "join")
           /\ IF up[m] THEN Contact(taken, m, NextSeed(m)) ELSE Unheard
        \/ /\ Fails(m, n, i, "roster")
           /\ IF up[n] THEN Contact(taken, n, NextSeed(n)) ELSE Unheard
    BY DEF JoinFails
  <1>2. Counted /\ NetOK(taken)
    BY <1>1, FailsOK
  <1> HIDE DEF taken
  <1>3. /\ NetOK(net')
        /\ joining' \in [Nodes -> Nat] /\ \A p \in Nodes : joining'[p] <= Len(Seeds[p])
    <2>1. CASE Unheard
      BY <1>2, <2>1, JoiningSame DEF IInv
    <2>2. CASE Contact(taken, m, NextSeed(m))
      BY <1>2, <2>2, SeedPositions, ContactOK DEF IInv
    <2>3. CASE Contact(taken, n, NextSeed(n))
      BY <1>2, <2>3, SeedPositions, ContactOK DEF IInv
    <2> QED
      BY <1>1, <2>1, <2>2, <2>3
  <1> QED
    BY <1>2, <1>3, ViewsSame, MembershipStep DEF JoinFails, Quiet

LEMMA NoticeFailsOK ==
    ASSUME IInv, NEW m \in Nodes, NEW n \in Nodes, NEW i, NoticeFails(m, n, i), Quiet
    PROVE  Kept
  <1>1. Counted /\ NetOK(net')
    BY FailsOK DEF NoticeFails
  <1> QED
    BY <1>1, JoiningSame, ViewsSame, MembershipStep DEF NoticeFails, Quiet, IInv

LEMMA HeartbeatOK ==
    ASSUME IInv, NEW n \in Nodes, Heartbeat(n), Quiet
    PROVE  Kept
  <1> DEFINE targets == {m \in Peers(n) : \A i \in DOMAIN net[n][m] :
                                              net[n][m][i].type # "heartbeat"}
  <1>1. HeartbeatOf(n) \in Messages
    BY DEF HeartbeatOf, Messages, IInv, Typed
  <1>2. n \notin targets
    BY DEF Peers
  <1>3. net' = Sent(net, n, targets, HeartbeatOf(n))
    BY DEF Heartbeat
  <1>4. NetOK(net')
    BY <1>1, <1>2, <1>3, SentOK DEF IInv
  <1>5. Counted
    BY DEF Heartbeat, IInv, Typed, counts, Counted, CountsOK, OlderOK
  <1> QED
    BY <1>4, <1>5, JoiningSame, ViewsSame, MembershipStep DEF Heartbeat, Quiet, IInv

LEMMA SuspectOK ==
    ASSUME IInv, NEW n \in Nodes, NEW m \in Nodes, Suspect(n, m), Quiet
    PROVE  Kept
  <1>1. Counted /\ NetOK(net')
    BY SpendOK DEF Suspect, Spend, IInv, Counted, OlderOK, Typed
  <1>2. /\ m # n
        /\ state' = [state EXCEPT ![n][m] = "suspect"]
        /\ replicas' = [replicas EXCEPT ![n] = replicas[n]]
    BY DEF Suspect, IInv, Typed
  <1>3. replicas[n] \in SUBSET Replicas /\ "suspect" \in States
    BY DEF IInv, Typed, States
  <1>4. state' \in [Nodes -> [Nodes -> States]]
    BY <1>2, <1>3, ViewSet DEF IInv, Typed
  <1>5. ViewsOK
    <2>1. Remain(n, m, "suspect", replicas[n])
      BY DEF Remain
    <2>2. replicas' \in [Nodes -> SUBSET Replicas] /\ ReplicasAreMembers'
      BY <1>2, <1>3, <2>1, ReplicaSet DEF IInv
    <2> QED
      BY <1>4, <2>2 DEF ViewsOK, Suspect, IInv, Typed
  <1> QED
    BY <1>1, <1>5, JoiningSame, MembershipStep DEF Suspect, Quiet, IInv

LEMMA DeclareDeadOK ==
    ASSUME IInv, NEW n \in Nodes, NEW m \in Nodes, DeclareDead(n, m)
    PROVE  Kept
  <1> DEFINE set == Others(n, m)
  <1>1. CountsOK
    BY SpendOK DEF DeclareDead, BuryPeer, Spend, IInv
  <1>2. /\ m # n
        /\ state' = [state EXCEPT ![n][m] = "dead"]
        /\ replicas' = [replicas EXCEPT ![n] = set]
        /\ UNCHANGED <<up, joining>>
    BY DEF DeclareDead, BuryPeer, Unregistered
  <1>3. set \in SUBSET Replicas /\ Remain(n, m, "dead", set)
    BY DEF IInv, Typed, Others, Remain
  <1>4. "dead" \in States
    BY DEF States
  <1> HIDE DEF set
  <1>5. replicas' \in [Nodes -> SUBSET Replicas] /\ ReplicasAreMembers'
    BY <1>2, <1>3, <1>4, ReplicaSet DEF IInv
  <1>6. state' \in [Nodes -> [Nodes -> States]]
    BY <1>2, <1>4, ViewSet DEF IInv, Typed
  <1>7. Steady /\ OlderOK(older')
    <2> USE DEF OlderOK
    <2>1. CASE StartElection(n, net, older, 0)
      BY <2>1, StartElectionOK DEF IInv, Typed
    <2>2. CASE UNCHANGED <<role, net, older, election, replicating>>
      BY <2>2, UnheardOK DEF IInv, Typed
    <2> QED
      BY <2>1, <2>2 DEF DeclareDead
  <1>8. Typed'
    BY <1>1, <1>2, <1>5, <1>6, <1>7 DEF IInv, Typed, Steady, NetOK, CountsOK, OlderOK, Switches
  <1> QED
    BY <1>5, <1>7, <1>8 DEF IInv, Kept, TermsKept, Steady

-----------------------------------------------------------------------------
(* Processes start and end.                                                *)

LEMMA StartOK ==
    ASSUME IInv, NEW n \in Nodes, Start(n)
    PROVE  Kept
  <1>1. /\ NetOK(net')
        /\ joining' \in [Nodes -> Nat] /\ \A p \in Nodes : joining'[p] <= Len(Seeds[p])
    BY SeedPositions, ContactOK DEF Start, IInv
  <1>2. ViewsOK
    BY ViewsSame DEF Start
  <1>3. TermsKept
    BY TermsSame DEF Start, IInv
  <1>4. Typed'
    BY <1>1, <1>2 DEF Start, IInv, Typed, ViewsOK, NetOK, counts
  <1> QED
    BY <1>1, <1>2, <1>3, <1>4 DEF IInv, Kept, ViewsOK

LEMMA EndOK ==
    ASSUME IInv, NEW n \in Nodes, End(n), NetOK(net')
    PROVE  Kept
  <1>1. /\ up' \in [Nodes -> BOOLEAN] /\ Counted
        /\ replicating' \in [Nodes -> Switches]
    BY DEF End, IInv, Typed, Counted, CountsOK, OlderOK, Switches, Off
  <1>2. ~up'[n] /\ \A p \in Nodes \ {n} : election'[p] = election[p]
    BY DEF End, IInv, Typed
  <1>3. state' \in [Nodes -> [Nodes -> States]] /\ role' \in [Nodes -> [Nodes -> Roles]]
    <2>1. Alone(n) \in [Nodes -> States] /\ Followers \in [Nodes -> Roles]
      BY DEF Alone, Followers, States, Roles
    <2> QED
      BY <2>1 DEF End, IInv, Typed
  <1>4. election' \in [Nodes -> Elections]
    <2>1. NoElection \in Elections
      BY DEF NoElection, Elections
    <2> QED
      BY <2>1 DEF End, IInv, Typed
  <1>5. joining' \in [Nodes -> Nat] /\ \A p \in Nodes : joining'[p] <= Len(Seeds[p])
    <2>1. \A p \in Nodes : Len(Seeds[p]) \in Nat
      BY SeedsAssumption
    <2> QED
      BY <2>1 DEF End, IInv, Typed
  <1>6. replicas' \in [Nodes -> SUBSET Replicas] /\ ReplicasAreMembers'
    <2>1. replicas' = [replicas EXCEPT ![n] = {}] /\ state' = [state EXCEPT ![n] = Alone(n)]
      BY DEF End
    <2>2. ASSUME NEW p \in Nodes, NEW r \in replicas'[p]
          PROVE  r.byHand \/ r.id \in Peers(p)'
      <3>1. p # n /\ replicas'[p] = replicas[p] /\ state'[p] = state[p]
        BY <2>1, <2>2 DEF IInv, Typed
      <3> QED
        BY <2>2, <3>1 DEF IInv, ReplicasAreMembers, Peers
    <2> QED
      BY <2>1, <2>2 DEF IInv, Typed, ReplicasAreMembers
  <1>7. TermsKept
    <2>1. \A p \in Nodes : election[p].term \in Nat
      BY DEF IInv, Typed, Elections
    <2> QED
      BY <1>2, <2>1 DEF TermsKept
  <1>8. Typed'
    BY <1>1, <1>3, <1>4, <1>5, <1>6 DEF Typed, NetOK, Counted, CountsOK, OlderOK, Switches
  <1> QED
    BY <1>6, <1>7, <1>8 DEF IInv, Kept

LEMMA StopOK ==
    ASSUME IInv, NEW n \in Nodes, Stop(n)
    PROVE  Kept
  <1>1. Leave \in Messages /\ n \notin Peers(n)
    BY DEF Leave, Messages, Peers
  <1>2. NetOK(net')
    BY <1>1, SentOK DEF Stop, IInv
  <1> QED
    BY <1>2, EndOK DEF Stop

LEMMA CrashOK ==
    ASSUME IInv, NEW n \in Nodes, Crash(n)
    PROVE  Kept
  <1>1. NetOK(net')
    BY DEF Crash, IInv, NetOK
  <1> QED
    BY <1>1, EndOK DEF Crash

-----------------------------------------------------------------------------
(* Operators.                                                              *)

LEMMA ReplicasByHandOK ==
    ASSUME IInv, NEW n \in Nodes, NEW m \in Nodes,
           PostReplica(n, m) \/ DeleteReplica(n, m), Quiet
    PROVE  Kept
  <1>1. Counted
    <2>1. Command /\ UNCHANGED older
      BY DEF PostReplica, DeleteReplica
    <2>2. /\ late \in Nat /\ stops \in Nat /\ races \in Nat /\ commands \in Nat
          /\ older \in [Nodes -> [Nodes -> Nat]]
      BY DEF IInv, Typed
    <2> QED
      BY <2>1, <2>2 DEF Command, Counted, CountsOK, OlderOK
  <1>2. \E set \in SUBSET {[id |-> m, byHand |-> TRUE]} :
            replicas' = [replicas EXCEPT ![n] = Others(n, m) \cup set]
    <2>1. CASE PostReplica(n, m)
      BY <2>1 DEF PostReplica, Added
    <2>2. CASE DeleteReplica(n, m)
      <3>1. replicas' = [replicas EXCEPT ![n] = Others(n, m) \cup {}]
        BY <2>2 DEF DeleteReplica, Unregistered
      <3> QED
        BY <3>1
    <2> QED
      BY <2>1, <2>2
  <1>3. PICK set \in SUBSET {[id |-> m, byHand |-> TRUE]} :
            replicas' = [replicas EXCEPT ![n] = Others(n, m) \cup set]
    BY <1>2
  <1>4. Others(n, m) \cup set \subseteq Replicas
    BY OthersOK DEF Replicas, IInv
  <1>5. \A r \in Others(n, m) \cup set : r.byHand \/ r \in replicas[n]
    BY DEF Others
  <1>6. state' = state
    BY DEF PostReplica, DeleteReplica
  <1>7. ReplicasAreMembers'
    BY <1>3, <1>5, <1>6 DEF ReplicasAreMembers, Peers, IInv, Typed
  <1>8. ViewsOK
    BY <1>3, <1>4, <1>7 DEF ViewsOK, IInv, Typed, PostReplica, DeleteReplica
  <1> QED
    BY <1>1, <1>8, JoiningSame, MembershipStep
    DEF PostReplica, DeleteReplica, Quiet, IInv

LEMMA SetEnabledOK ==
    ASSUME IInv, NEW n \in Nodes, NEW enabled \in BOOLEAN, SetEnabled(n, enabled)
    PROVE  Kept
  <1>1. Counted
    BY DEF SetEnabled, Command, IInv, Typed, Counted, CountsOK, OlderOK
  <1>2. replicating' \in [Nodes -> Switches]
    BY DEF SetEnabled, IInv, Typed, Switches
  <1>3. ViewsOK
    BY ViewsSame DEF SetEnabled
  <1>4. TermsKept
    BY TermsSame DEF SetEnabled, IInv
  <1>5. Typed'
    BY <1>1, <1>2, <1>3
    DEF SetEnabled, IInv, Typed, ViewsOK, Counted, CountsOK, OlderOK, Switches
  <1> QED
    BY <1>3, <1>4, <1>5 DEF SetEnabled, IInv, Kept, ViewsOK

-----------------------------------------------------------------------------

\* The invariant holds at the start.
LEMMA InitOK == Init => IInv
  <1> SUFFICES ASSUME Init PROVE IInv
    OBVIOUS
  <1>1. \A n \in Nodes : Alone(n) \in [Nodes -> States]
    BY DEF Alone, States
  <1>2. Followers \in [Nodes -> Roles] /\ NoElection \in Elections
    BY DEF Followers, Roles, NoElection, Elections
  <1>3. NetOK(net)
    BY DEF Init, NetOK
  <1>4. \A n \in Nodes : Len(Seeds[n]) \in Nat
    BY SeedsAssumption
  <1>5. Typed
    BY <1>1, <1>2, <1>3, <1>4 DEF Init, Typed, NetOK, Off
  <1> QED
    BY <1>3, <1>5 DEF IInv, Init, ReplicasAreMembers

\* Every step keeps the invariant, and the terms of the nodes that run.
LEMMA StepOK == IInv /\ [Next]_evars => Kept
  <1> SUFFICES ASSUME IInv, [Next]_evars PROVE Kept
    OBVIOUS
  <1>1. ASSUME NEW m \in Nodes, NEW n \in Nodes, Delivery(m, n)
        PROVE  Kept
    <2>1. PICK i \in DOMAIN net[m][n] : Message(m, n, i) \/ Failure(m, n, i)
      BY <1>1 DEF Delivery
    <2>2. CASE Message(m, n, i)
      BY <2>2, HandleHeartbeatOK, HandleJoinRequestOK, MergeRosterOK, HandleLeaveOK,
         HandleElectionStartOK, ElectionAnsweredOK, HandleVictoryOK DEF Message
    <2>3. CASE Failure(m, n, i)
      BY <2>3, JoinFailsOK, NoticeFailsOK, ElectionRequestFailsOK DEF Failure
    <2> QED
      BY <2>1, <2>2, <2>3
  <1>2. ASSUME NEW m \in Nodes, NEW n \in Nodes, Detect(m, n)
        PROVE  Kept
    BY <1>2, SuspectOK, DeclareDeadOK DEF Detect
  <1>3. ASSUME NEW n \in Nodes, Heartbeat(n) /\ Quiet
        PROVE  Kept
    BY <1>3, HeartbeatOK
  <1>4. ASSUME NEW n \in Nodes, Timeout(n)
        PROVE  Kept
    BY <1>4, CheckLeaderHealthOK, VictoryTimerOK, RequestTimeoutOK DEF Timeout
  <1>5. ASSUME NEW n \in Nodes, Start(n) \/ Crash(n) \/ Stop(n)
        PROVE  Kept
    BY <1>5, StartOK, CrashOK, StopOK
  <1>7. ASSUME NEW n \in Nodes, Operate(n)
        PROVE  Kept
    BY <1>7, ReplicasByHandOK, SetEnabledOK DEF Operate
  <1>6. CASE UNCHANGED evars
    <2>1. TermsKept
      BY <1>6, TermsSame DEF evars, IInv
    <2>2. IInv'
      BY <1>6 DEF evars, views, counts, IInv, Typed, NetOK, ReplicasAreMembers, Peers
    <2> QED
      BY <2>1, <2>2 DEF Kept
  <1> QED
    BY <1>1, <1>2, <1>3, <1>4, <1>5, <1>6, <1>7 DEF Next

\* The inductive invariant, of which the two results below follow
THEOREM Inductive == Spec => []IInv
  <1>1. IInv /\ [Next]_evars => IInv'
    BY StepOK DEF Kept
  <1> QED
    BY <1>1, InitOK, PTL DEF Spec

\* Whatever nodes start, crash, leave, or are slow, and whatever operators ask:
\* every node that the replication service of a node registers is one its
\* membership holds for alive or suspect, or one an operator registered there
\* with POST /replication/replicas.
THEOREM RegisteredAreMembers == Spec => []ReplicasAreMembers
  <1>1. IInv => ReplicasAreMembers
    BY DEF IInv
  <1> QED
    BY <1>1, Inductive, PTL

\* However messages are reordered and elections overlap, the term of a node
\* that keeps running never goes back.
THEOREM TermsGrow == Spec => TermsNeverGoBack
  <1>1. IInv /\ [Next]_evars
          => [\A n \in Nodes : up[n] /\ up'[n] => election'[n].term >= election[n].term]_evars
    BY StepOK DEF Kept, TermsKept
  <1> QED
    BY <1>1, Inductive, PTL DEF Spec, TermsNeverGoBack

-----------------------------------------------------------------------------
(* Two nodes that are each other's seed, until the first fault.            *)

\* The cluster of two that the election is for: either can join the other.
MutualSeeds ==
    \E a, b \in Nodes : Nodes = {a, b} /\ \A n \in Nodes : Seeds[n] # <<>>

\* Until the first message that is late or races, and the first process that ends
Calm == late = 0 /\ stops = 0 /\ races = 0

IsLeader(n) == role[n][n] = "leader"
IsFollower(n) == role[n][n] = "follower"

\* The election service of a node and its role agree. A node takes part in one
\* election at most; a timer that runs is the one whose handle it has.
OnceOK(n) ==
    /\ state[n][n] = "alive"
    /\ election[n].electing <=> role[n][n] = "candidate"
    /\ replicating[n] = On => IsLeader(n)
    /\ election[n].term <= 1
    /\ ~IsFollower(n) => election[n].term = 1
    /\ election[n].armed \subseteq {election[n].handle}
    /\ ~election[n].electing => election[n].armed = {}
    /\ ~up[n] \/ joining[n] # 0 => IsFollower(n) /\ election[n].term = 0

\* The nodes know each other, or one of them is down or still joins: then its
\* request is all that is under way, or the roster comes to it first.
MeetOK(n, o) ==
    /\ state[n][o] \in {"unknown", "alive"}
    /\ state[n][o] = "alive" => up[n] /\ up[o]
    /\ ~up[n] => joining[n] = 0
    /\ joining[n] # 0 =>
          /\ joining[o] = 0
          /\ state[n][o] = "unknown"
          /\ state[o][n] = "unknown" => net[n][o] = <<Join>> /\ net[o][n] = <<>>
          /\ state[o][n] # "unknown" => /\ net[n][o] = <<>>
                                        /\ net[o][n] # <<>> /\ net[o][n][1].type = "roster"
    /\ up[n] /\ up[o] /\ joining[n] = 0 /\ joining[o] = 0 => state[n][o] = "alive"

\* What a message from n to o that is under way says is so.
MeansOK(msg, n, o) ==
    /\ msg.type # "leave"
    /\ msg.type = "join" => joining[n] # 0 /\ state[o][n] = "unknown"
    /\ msg.type # "join" => state[n][o] = "alive"
    /\ msg.type = "roster" => /\ joining[o] # 0 /\ msg.state[n] = "alive"
                              /\ msg.role[n] = "leader" => IsLeader(n)
    /\ msg.type = "heartbeat" /\ msg.role = "leader" => IsLeader(n)
    /\ msg.type = "election_start" => /\ msg.term = 1 /\ Priority[o] > Priority[n]
                                      /\ role[n][n] = "candidate" /\ election[n].armed = {}
                                      /\ ~IsLeader(o)
    /\ msg.type = "victory" => msg.term = 1 /\ IsLeader(n)

MessagesOK(n, o) ==
    \A i \in DOMAIN net[n][o] : /\ MeansOK(net[n][o][i], n, o)
                                /\ net[n][o][i].type = "roster" => i = 1

\* Messages from n after which its peer takes it for the leader
Tells(msg, n) ==
    msg.type = "victory" \/ (msg.type = "roster" /\ msg.role[n] = "leader")
LeaderFrom(s, k) ==
    \A j \in DOMAIN s : j > k /\ s[j].type = "heartbeat" => s[j].role = "leader"
Announced(s, n) == \E i \in DOMAIN s : Tells(s[i], n) /\ LeaderFrom(s, i)

\* o follows n.
Settled(o, n) == state[o][n] = "alive" /\ role[o][n] = "leader" /\ IsFollower(o)

\* A leader's peer follows it, or will before it hears anything else of it.
LeadOK(n, o) ==
    /\ role[n][o] = "leader" => IsLeader(o)
    /\ IsLeader(n) => ~IsLeader(o)
    /\ IsLeader(n) /\ state[n][o] = "alive" =>
          Announced(net[n][o], n) \/ (Settled(o, n) /\ LeaderFrom(net[n][o], 0))
    /\ IsFollower(n) /\ election[n].term = 1 => IsLeader(o)

\* All of it of a pair, and of every pair: the invariant holds in calm.
Both(n, o) ==
    /\ OnceOK(n) /\ OnceOK(o)
    /\ MeetOK(n, o) /\ MeetOK(o, n)
    /\ MessagesOK(n, o) /\ MessagesOK(o, n)
    /\ LeadOK(n, o) /\ LeadOK(o, n)

Duo == \A n \in Nodes : \A o \in Nodes \ {n} : Both(n, o)
DInv == Calm => Duo

-----------------------------------------------------------------------------

\* A node has one peer.
LEMMA TheOther ==
    ASSUME MutualSeeds, NEW n \in Nodes
    PROVE  \E o \in Nodes : o # n /\ Nodes = {n, o}
  <1>1. PICK a \in Nodes, b \in Nodes : Nodes = {a, b} /\ \A p \in Nodes : Seeds[p] # <<>>
    BY DEF MutualSeeds
  <1>2. a # b
    <2>1. Seeds[a] \in Seq(Nodes) /\ Seeds[a] # <<>>
      BY <1>1, SeedsAssumption
    <2>2. Seeds[a][1] \in Nodes /\ 1 \in DOMAIN Seeds[a]
      BY <2>1
    <2>3. Seeds[a][1] # a
      BY <2>2, SeedsAssumption
    <2> QED
      BY <1>1, <2>2, <2>3
  <1> QED
    BY <1>1, <1>2

\* What is so of every pair is so of the two, and back.
LEMMA TwoNodes ==
    ASSUME MutualSeeds, NEW m \in Nodes, NEW n \in Nodes, m # n
    PROVE  /\ Nodes = {m, n} /\ Seeds[n] # <<>>
           /\ Duo => Both(m, n)
           /\ Both(m, n)' => Duo'
  <1>1. Nodes = {m, n}
    BY TheOther
  <1>2. Seeds[n] # <<>>
    BY DEF MutualSeeds
  <1>3. Duo => Both(m, n)
    BY DEF Duo
  <1>4. Both(m, n)' => Both(n, m)'
    BY DEF Both
  <1>5. Both(m, n)' => Duo'
    BY <1>1, <1>4 DEF Duo
  <1> QED
    BY <1>1, <1>2, <1>3, <1>5

\* A step in calm costs nothing.
LEMMA Costless ==
    ASSUME Typed, NEW lost \in Nat, NEW raced \in Nat, Spends(lost, raced), Calm'
    PROVE  Calm /\ lost = 0 /\ raced = 0
  BY DEF Spends, Typed, Calm

-----------------------------------------------------------------------------
(* Channels.                                                               *)

\* The channels, as the first message of one is taken
LEMMA FirstTaken ==
    ASSUME NetOK(net), NEW m \in Nodes, NEW n \in Nodes, 1 \in DOMAIN net[m][n]
    PROVE  \A p, q \in Nodes : Taken(m, n, 1)[p][q] =
               IF p = m /\ q = n THEN Tail(net[m][n]) ELSE net[p][q]
  <1>1. net[m][n] \in Seq(Messages) /\ net[m][n] # <<>>
    BY DEF NetOK
  <1>2. RemoveAt(net[m][n], 1) = Tail(net[m][n])
    <2> DEFINE s == net[m][n]
    <2>1. SubSeq(s, 1, 0) = <<>> /\ SubSeq(s, 2, Len(s)) = Tail(s)
      BY <1>1
    <2>2. <<>> \o Tail(s) = Tail(s)
      BY <1>1
    <2> QED
      BY <2>1, <2>2 DEF RemoveAt
  <1> QED
    BY <1>2 DEF Taken, NetOK

\* What a channel announces, as its first message is taken.
LEMMA AnnouncedTail ==
    ASSUME NEW s \in Seq(Messages), s # <<>>, NEW n
    PROVE  /\ Announced(s, n) => \/ Announced(Tail(s), n)
                                 \/ Tells(s[1], n) /\ LeaderFrom(Tail(s), 0)
           /\ LeaderFrom(s, 0) => /\ LeaderFrom(Tail(s), 0)
                                  /\ s[1].type = "heartbeat" => s[1].role = "leader"
  <1> DEFINE t == Tail(s)
  <1>1. /\ Len(s) \in Nat /\ 1 \in DOMAIN s
        /\ DOMAIN t = 1..(Len(s) - 1) /\ \A j \in DOMAIN t : t[j] = s[j + 1] /\ j + 1 \in DOMAIN s
    OBVIOUS
  <1>2. \A j \in DOMAIN s : j \in Nat /\ j >= 1 /\ (j > 1 => j - 1 \in DOMAIN t /\ t[j - 1] = s[j])
    OBVIOUS
  <1>3. \A k \in Nat : LeaderFrom(s, k + 1) => LeaderFrom(t, k)
    BY <1>1 DEF LeaderFrom
  <1>4. LeaderFrom(s, 0) => LeaderFrom(t, 0) /\ (s[1].type = "heartbeat" => s[1].role = "leader")
    BY <1>1 DEF LeaderFrom
  <1>5. ASSUME NEW i \in DOMAIN s, Tells(s[i], n), LeaderFrom(s, i)
        PROVE  Announced(t, n) \/ (Tells(s[1], n) /\ LeaderFrom(t, 0))
    <2>1. CASE i = 1
      BY <1>3, <1>5, <2>1
    <2>2. CASE i # 1
      <3>1. i - 1 \in DOMAIN t /\ t[i - 1] = s[i] /\ i - 1 \in Nat /\ (i - 1) + 1 = i
        BY <1>2, <2>2
      <3>2. LeaderFrom(t, i - 1)
        BY <1>3, <1>5, <3>1
      <3> QED
        BY <1>5, <3>1, <3>2 DEF Announced
    <2> QED
      BY <2>1, <2>2
  <1> HIDE DEF t
  <1> QED
    BY <1>4, <1>5 DEF Announced, t

\* What a channel announces, as a message is sent.
LEMMA AnnouncedAppend ==
    ASSUME NEW s \in Seq(Messages), NEW n, NEW msg \in Messages
    PROVE  /\ (msg.type = "heartbeat" => msg.role = "leader")
              => /\ Announced(s, n) => Announced(Append(s, msg), n)
                 /\ LeaderFrom(s, 0) => LeaderFrom(Append(s, msg), 0)
           /\ Tells(msg, n) => Announced(Append(s, msg), n)
  <1> DEFINE t == Append(s, msg)
  <1>1. /\ Len(s) \in Nat /\ DOMAIN s = 1..Len(s) /\ DOMAIN t = 1..(Len(s) + 1)
        /\ \A j \in DOMAIN s : t[j] = s[j]
        /\ t[Len(s) + 1] = msg
    OBVIOUS
  <1>2. ASSUME msg.type = "heartbeat" => msg.role = "leader", NEW k \in Nat, LeaderFrom(s, k)
        PROVE  LeaderFrom(t, k)
    <2> SUFFICES ASSUME NEW j \in DOMAIN t, j > k, t[j].type = "heartbeat"
                 PROVE  t[j].role = "leader"
      BY DEF LeaderFrom
    <2>1. j \in DOMAIN s \/ j = Len(s) + 1
      BY <1>1
    <2> HIDE DEF t
    <2> QED
      BY <1>1, <1>2, <2>1 DEF LeaderFrom
  <1>3. ASSUME msg.type = "heartbeat" => msg.role = "leader", Announced(s, n)
        PROVE  Announced(t, n)
    <2>1. PICK i \in DOMAIN s : Tells(s[i], n) /\ LeaderFrom(s, i)
      BY <1>3 DEF Announced
    <2>2. i \in Nat /\ i \in DOMAIN t
      BY <1>1
    <2>3. LeaderFrom(t, i)
      BY <1>2, <1>3, <2>1, <2>2
    <2> HIDE DEF t
    <2> QED
      BY <1>1, <2>1, <2>2, <2>3 DEF Announced
  <1>4. ASSUME Tells(msg, n)
        PROVE  Announced(t, n)
    <2>1. Len(s) + 1 \in DOMAIN t /\ LeaderFrom(t, Len(s) + 1)
      BY <1>1 DEF LeaderFrom
    <2> HIDE DEF t
    <2> QED
      BY <1>1, <1>4, <2>1 DEF Announced
  <1> HIDE DEF t
  <1> QED
    BY <1>2, <1>3, <1>4 DEF t

-----------------------------------------------------------------------------
(* What follows from the invariant before a step.                          *)

\* The step of a delivery: it is of the first message, and it costs nothing.
LEMMA Delivered ==
    ASSUME IInv, DInv, MutualSeeds, Calm',
           NEW m \in Nodes, NEW n \in Nodes, NEW i, NEW type, Reaches(m, n, i, type)
    PROVE  /\ i = 1 /\ m # n /\ Nodes = {m, n} /\ up[n]
           /\ net[m][n] \in Seq(Messages) /\ net[m][n] # <<>>
           /\ 1 \in DOMAIN net[m][n]
           /\ net[m][n][1] \in Messages /\ net[m][n][1].type = type
           /\ Both(m, n)
           /\ Both(m, n)' => Duo'
  <1>1. /\ m # n /\ i \in DOMAIN net[m][n]
        /\ net[m][n][i] \in Messages /\ net[m][n][i].type = type
    BY ReachesOK
  <1>2. Calm /\ i = 1 /\ up[n]
    <2>1. PICK raced \in Nat : Spends(0, raced) /\ raced = IF i = 1 THEN 0 ELSE 1
      BY DEF Reaches, Race
    <2> QED
      BY <2>1, Costless DEF Reaches, IInv
  <1>3. Both(m, n) /\ Nodes = {m, n} /\ (Both(m, n)' => Duo')
    BY <1>1, <1>2, TwoNodes DEF DInv
  <1>4. net[m][n] \in Seq(Messages) /\ net[m][n] # <<>>
    BY <1>1 DEF IInv, NetOK
  <1> QED
    BY <1>1, <1>2, <1>3, <1>4

\* A message of two that know each other
LEMMA Met ==
    ASSUME IInv, NEW m \in Nodes, NEW n \in Nodes, Both(m, n), 1 \in DOMAIN net[m][n],
           net[m][n][1].type \notin {"join", "roster"}
    PROVE  /\ up[m] /\ up[n] /\ joining[m] = 0 /\ joining[n] = 0
           /\ state[m][n] = "alive" /\ state[n][m] = "alive"
  <1>1. MeansOK(net[m][n][1], m, n)
    BY DEF Both, MessagesOK
  <1>2. state[m][n] = "alive"
    BY <1>1 DEF MeansOK
  <1> QED
    BY <1>2 DEF Both, MeetOK

\* What the step leaves alone, of the channels and of the rest
LEMMA ChannelTaken ==
    ASSUME IInv, NEW m \in Nodes, NEW n \in Nodes, m # n, 1 \in DOMAIN net[m][n]
    PROVE  /\ Taken(m, n, 1)[m][n] = Tail(net[m][n])
           /\ Taken(m, n, 1)[n][m] = net[n][m]
  BY FirstTaken DEF IInv

\* A message means the same under another name.
LEMMA Renamed ==
    ASSUME NEW m \in Nodes, NEW n \in Nodes, NEW i, NEW msg, net'[m][n][i] = msg,
           MeansOK(msg, m, n)'
    PROVE  MeansOK(net[m][n][i], m, n)'
  BY DEF MeansOK

\* The rest of the messages still mean what they say.
LEMMA TailMeans ==
    ASSUME NEW m \in Nodes, NEW n \in Nodes, MessagesOK(m, n),
           net[m][n] \in Seq(Messages), net[m][n] # <<>>, net'[m][n] = Tail(net[m][n]),
           \A msg \in Messages : msg.type # "roster" /\ MeansOK(msg, m, n) => MeansOK(msg, m, n)'
    PROVE  MessagesOK(m, n)'
  <1> SUFFICES ASSUME NEW i \in DOMAIN net'[m][n]
               PROVE  /\ MeansOK(net[m][n][i], m, n)'
                      /\ net'[m][n][i].type # "roster"
    BY DEF MessagesOK
  <1>1. PICK msg \in Messages : /\ i + 1 \in DOMAIN net[m][n] /\ i + 1 # 1
                                /\ net'[m][n][i] = msg /\ net[m][n][i + 1] = msg
    OBVIOUS
  <1>2. MeansOK(msg, m, n) /\ msg.type # "roster"
    BY <1>1 DEF MessagesOK
  <1>3. MeansOK(msg, m, n)'
    BY <1>2
  <1> QED
    BY <1>1, <1>2, <1>3, Renamed

\* The messages of a channel that stays still mean what they say.
LEMMA SameMeans ==
    ASSUME NEW m \in Nodes, NEW n \in Nodes, MessagesOK(m, n),
           net[m][n] \in Seq(Messages), net'[m][n] = net[m][n],
           \A msg \in Messages : MeansOK(msg, m, n) => MeansOK(msg, m, n)'
    PROVE  MessagesOK(m, n)'
  <1> SUFFICES ASSUME NEW i \in DOMAIN net'[m][n]
               PROVE  /\ MeansOK(net[m][n][i], m, n)'
                      /\ net'[m][n][i].type = "roster" => i = 1
    BY DEF MessagesOK
  <1>1. PICK msg \in Messages : net'[m][n][i] = msg /\ net[m][n][i] = msg
    OBVIOUS
  <1>2. MeansOK(msg, m, n) /\ (msg.type = "roster" => i = 1)
    BY <1>1 DEF MessagesOK
  <1>3. MeansOK(msg, m, n)'
    BY <1>2
  <1> QED
    BY <1>1, <1>2, <1>3, Renamed

\* A message is sent that means what it says, behind the others.
LEMMA AppendMeans ==
    ASSUME NEW m \in Nodes, NEW n \in Nodes, MessagesOK(m, n),
           net[m][n] \in Seq(Messages), NEW new \in Messages,
           net'[m][n] = Append(net[m][n], new),
           new.type = "roster" => net[m][n] = <<>>,
           MeansOK(new, m, n)',
           \A msg \in Messages : MeansOK(msg, m, n) => MeansOK(msg, m, n)'
    PROVE  MessagesOK(m, n)'
  <1> SUFFICES ASSUME NEW i \in DOMAIN net'[m][n]
               PROVE  /\ MeansOK(net[m][n][i], m, n)'
                      /\ net'[m][n][i].type = "roster" => i = 1
    BY DEF MessagesOK
  <1>1. CASE i \in DOMAIN net[m][n]
    <2>1. PICK msg \in Messages : net'[m][n][i] = msg /\ net[m][n][i] = msg
      BY <1>1
    <2>2. MeansOK(msg, m, n) /\ (msg.type = "roster" => i = 1)
      BY <1>1, <2>1 DEF MessagesOK
    <2>3. MeansOK(msg, m, n)'
      BY <2>2
    <2> QED
      BY <2>1, <2>2, <2>3, Renamed
  <1>2. CASE i \notin DOMAIN net[m][n]
    <2>1. net'[m][n][i] = new /\ (net[m][n] = <<>> => i = 1)
      BY <1>2
    <2> QED
      BY <2>1, Renamed
  <1> QED
    BY <1>1, <1>2

-----------------------------------------------------------------------------
(* The steps.                                                              *)

\* An answered request only ends the wait.
LEMMA SettleAnswered ==
    ASSUME IInv, NEW n \in Nodes, NEW m \in Nodes, NEW t, NEW onNet,
           Settle(n, t, m, TRUE, onNet)
    PROVE  /\ net' = onNet /\ UNCHANGED <<role, replicating>>
           /\ \A p \in Nodes \ {n} : election'[p] = election[p]
           /\ \A p \in Nodes : /\ election'[p].term = election[p].term
                               /\ election'[p].electing = election[p].electing
                               /\ election'[p].handle = election[p].handle
                               /\ election'[p].armed = election[p].armed
  <1> DEFINE e == election[n]
             awaiting == {r \in e.asked : r.term = t}
             settled == {[r EXCEPT !.left = @ \ {m}, !.answered = @ \/ TRUE] : r \in awaiting}
             done == {r \in settled : r.left = {}}
             left == [e EXCEPT !.asked = (@ \ awaiting) \cup (settled \ done)]
  <1>1. e \in Elections /\ e.asked \subseteq Requests /\ election \in [Nodes -> Elections]
    BY DEF IInv, Typed, Elections
  <1>2. \A r \in done : r.answered
    BY <1>1 DEF Requests
  <1>3. /\ left.term = e.term /\ left.electing = e.electing
        /\ left.handle = e.handle /\ left.armed = e.armed
        /\ \A b : LET f == [left EXCEPT !.yields = b]
                  IN  /\ f.term = e.term /\ f.electing = e.electing
                      /\ f.handle = e.handle /\ f.armed = e.armed
    <2> HIDE DEF awaiting, settled, done
    <2> QED
      BY <1>1 DEF Elections
  <1>4. IF done # {} THEN \E r \in done : GoOn(n, left, r.answered, onNet)
        ELSE /\ election' = [election EXCEPT ![n] = left]
             /\ net' = onNet
             /\ UNCHANGED <<role, replicating>>
    BY DEF Settle
  <1> HIDE DEF left, done
  <1>5. CASE done = {}
    BY <1>1, <1>3, <1>4, <1>5 DEF e
  <1>6. CASE done # {}
    <2>1. PICK r \in done : GoOn(n, left, r.answered, onNet)
      BY <1>4, <1>6
    <2>2. /\ election' = [election EXCEPT ![n] = [left EXCEPT !.yields = r.answered]]
          /\ net' = onNet /\ UNCHANGED <<role, replicating>>
      BY <1>2, <2>1 DEF GoOn
    <2> QED
      BY <1>1, <1>3, <2>2 DEF e
  <1> QED
    BY <1>5, <1>6

\* The answer of a node of a higher priority
LEMMA AnswerInCalm ==
    ASSUME IInv, DInv, MutualSeeds, Calm',
           NEW m \in Nodes, NEW n \in Nodes, NEW i, ElectionAnswered(m, n, i)
    PROVE  Duo'
  <1>1. /\ i = 1 /\ m # n /\ Both(m, n) /\ (Both(m, n)' => Duo')
        /\ net[m][n] \in Seq(Messages) /\ net[m][n] # <<>> /\ 1 \in DOMAIN net[m][n]
        /\ net[m][n][1].type = "ok"
    BY Delivered DEF ElectionAnswered, Arrives
  <1>2. /\ up[m] /\ up[n] /\ joining[m] = 0 /\ joining[n] = 0
        /\ state[m][n] = "alive" /\ state[n][m] = "alive"
    BY <1>1, Met
  <1>3. /\ net' = Taken(m, n, 1) /\ UNCHANGED <<up, state, joining, role, replicating>>
        /\ \A p \in Nodes : /\ election'[p].term = election[p].term
                            /\ election'[p].electing = election[p].electing
                            /\ election'[p].handle = election[p].handle
                            /\ election'[p].armed = election[p].armed
    BY <1>1, SettleAnswered DEF ElectionAnswered
  <1>4. net'[m][n] = Tail(net[m][n]) /\ net'[n][m] = net[n][m] /\ net[n][m] \in Seq(Messages)
    BY <1>1, <1>3, ChannelTaken DEF IInv, NetOK
  <1>5. OnceOK(m)' /\ OnceOK(n)'
    BY <1>1, <1>3 DEF Both, OnceOK, IsLeader, IsFollower
  <1>6. MeetOK(m, n)' /\ MeetOK(n, m)'
    BY <1>1, <1>2, <1>3 DEF Both, MeetOK
  <1>7. MessagesOK(m, n)' /\ MessagesOK(n, m)'
    <2>1. \A msg \in Messages : /\ MeansOK(msg, m, n) => MeansOK(msg, m, n)'
                                /\ MeansOK(msg, n, m) => MeansOK(msg, n, m)'
      BY <1>3 DEF MeansOK, IsLeader
    <2> QED
      BY <1>1, <1>4, <2>1, TailMeans, SameMeans DEF Both
  <1>8. LeadOK(m, n)' /\ LeadOK(n, m)'
    <2>1. LeadOK(n, m)'
      BY <1>1, <1>3, <1>4 DEF Both, LeadOK, IsLeader, IsFollower, Settled
    <2>2. ~Tells(net[m][n][1], m)
      BY <1>1 DEF Tells
    <2>3. /\ Announced(net[m][n], m) => Announced(net'[m][n], m)
          /\ LeaderFrom(net[m][n], 0) => LeaderFrom(net'[m][n], 0)
      BY <1>1, <1>4, <2>2, AnnouncedTail
    <2>4. LeadOK(m, n)'
      BY <1>1, <1>3, <2>3 DEF Both, LeadOK, IsLeader, IsFollower, Settled
    <2> QED
      BY <2>1, <2>4
  <1> QED
    BY <1>1, <1>5, <1>6, <1>7, <1>8 DEF Both

\* The role that a heartbeat tells is the one its sender has.
LEMMA HeartbeatInCalm ==
    ASSUME IInv, DInv, MutualSeeds, Calm',
           NEW m \in Nodes, NEW n \in Nodes, NEW i, HandleHeartbeat(m, n, i), Quiet
    PROVE  Duo'
  <1>1. /\ i = 1 /\ m # n /\ Nodes = {m, n} /\ Both(m, n) /\ (Both(m, n)' => Duo')
        /\ net[m][n] \in Seq(Messages) /\ net[m][n] # <<>> /\ 1 \in DOMAIN net[m][n]
        /\ net[m][n][1] \in Messages /\ net[m][n][1].type = "heartbeat"
    BY Delivered DEF HandleHeartbeat, Arrives
  <1>2. /\ up[m] /\ up[n] /\ joining[m] = 0 /\ joining[n] = 0
        /\ state[m][n] = "alive" /\ state[n][m] = "alive"
    BY <1>1, Met
  <1>3. /\ net' = Taken(m, n, 1) /\ UNCHANGED <<up, state, joining, election, replicating>>
        /\ role' = [role EXCEPT ![n][m] = net[m][n][1].role]
    BY <1>1, <1>2 DEF HandleHeartbeat, Quiet, IInv, Typed
  <1>4. net'[m][n] = Tail(net[m][n]) /\ net'[n][m] = net[n][m] /\ net[n][m] \in Seq(Messages)
    BY <1>1, <1>3, ChannelTaken DEF IInv, NetOK
  <1>5. /\ \A p \in Nodes : role'[p][p] = role[p][p]
        /\ role'[m][n] = role[m][n] /\ role'[n][m] = net[m][n][1].role
    BY <1>1, <1>3 DEF IInv, Typed
  <1>6. OnceOK(m)' /\ OnceOK(n)'
    BY <1>1, <1>3, <1>5 DEF Both, OnceOK, IsLeader, IsFollower
  <1>7. MeetOK(m, n)' /\ MeetOK(n, m)'
    BY <1>1, <1>2, <1>3 DEF Both, MeetOK
  <1>8. MessagesOK(m, n)' /\ MessagesOK(n, m)'
    <2>1. \A msg \in Messages : /\ MeansOK(msg, m, n) => MeansOK(msg, m, n)'
                                /\ MeansOK(msg, n, m) => MeansOK(msg, n, m)'
      BY <1>3, <1>5 DEF MeansOK, IsLeader
    <2> QED
      BY <1>1, <1>4, <2>1, TailMeans, SameMeans DEF Both
  <1>9. LeadOK(m, n)' /\ LeadOK(n, m)'
    <2>1. LeadOK(n, m)'
      <3>1. net[m][n][1].role = "leader" => IsLeader(m)
        BY <1>1 DEF Both, MessagesOK, MeansOK
      <3>2. Settled(m, n)' <=> Settled(m, n)
        BY <1>3, <1>5 DEF Settled, IsFollower
      <3> QED
        BY <1>1, <1>3, <1>4, <1>5, <3>1, <3>2 DEF Both, LeadOK, IsLeader, IsFollower
    <2>2. ~Tells(net[m][n][1], m)
      BY <1>1 DEF Tells
    <2>3. /\ Announced(net[m][n], m) => Announced(net'[m][n], m)
          /\ LeaderFrom(net[m][n], 0) => LeaderFrom(net'[m][n], 0) /\ net[m][n][1].role = "leader"
      BY <1>1, <1>4, <2>2, AnnouncedTail
    <2>4. LeadOK(m, n)'
      BY <1>1, <1>3, <1>5, <2>3 DEF Both, LeadOK, IsLeader, IsFollower, Settled
    <2> QED
      BY <2>1, <2>4
  <1> QED
    BY <1>1, <1>6, <1>7, <1>8, <1>9 DEF Both

\* The other node follows the one that declared its victory.
LEMMA VictoryInCalm ==
    ASSUME IInv, DInv, MutualSeeds, Calm',
           NEW m \in Nodes, NEW n \in Nodes, NEW i, HandleVictory(m, n, i)
    PROVE  Duo'
  <1>1. /\ i = 1 /\ m # n /\ Nodes = {m, n} /\ Both(m, n) /\ (Both(m, n)' => Duo')
        /\ net[m][n] \in Seq(Messages) /\ net[m][n] # <<>> /\ 1 \in DOMAIN net[m][n]
        /\ net[m][n][1] \in Messages /\ net[m][n][1].type = "victory"
    BY Delivered DEF HandleVictory, Arrives
  <1>2. /\ up[m] /\ up[n] /\ joining[m] = 0 /\ joining[n] = 0
        /\ state[m][n] = "alive" /\ state[n][m] = "alive"
    BY <1>1, Met
  <1>3. IsLeader(m) /\ ~IsLeader(n) /\ role[m][n] # "leader" /\ net[m][n][1].term = 1
    BY <1>1 DEF Both, MessagesOK, MeansOK, LeadOK
  <1>4. election[n] \in Elections /\ 1 >= election[n].term
    BY <1>1 DEF Both, OnceOK, IInv, Typed, Elections
  <1>5. /\ net' = Taken(m, n, 1) /\ UNCHANGED <<up, state, joining>>
        /\ election' = [election EXCEPT ![n] = Accepted(election[n], 1)]
        /\ role' = [role EXCEPT ![n][n] = "follower", ![n][m] = "leader"]
        /\ replicating' = [replicating EXCEPT ![n] = Off]
    BY <1>1, <1>2, <1>3, <1>4 DEF HandleVictory, Follow, IInv, Typed
  <1>6. net'[m][n] = Tail(net[m][n]) /\ net'[n][m] = net[n][m] /\ net[n][m] \in Seq(Messages)
    BY <1>1, <1>5, ChannelTaken DEF IInv, NetOK
  <1>7. /\ role'[m] = role[m] /\ role'[n][m] = "leader" /\ role'[n][n] = "follower"
        /\ replicating'[m] = replicating[m] /\ replicating'[n] # On
        /\ election'[m] = election[m] /\ election'[n].term = 1 /\ ~election'[n].electing
        /\ election'[n].handle = 0 /\ election'[n].armed = election[n].armed \ {election[n].handle}
    BY <1>1, <1>4, <1>5 DEF IInv, Typed, Elections, Accepted, On, Off
  <1>8. OnceOK(m)' /\ OnceOK(n)'
    BY <1>1, <1>2, <1>5, <1>7 DEF Both, OnceOK, IsLeader, IsFollower
  <1>9. MeetOK(m, n)' /\ MeetOK(n, m)'
    BY <1>1, <1>2, <1>5 DEF Both, MeetOK
  <1>10. MessagesOK(m, n)' /\ MessagesOK(n, m)'
    <2>1. \A msg \in Messages : /\ MeansOK(msg, m, n) => MeansOK(msg, m, n)'
                                /\ MeansOK(msg, n, m) => MeansOK(msg, n, m)'
      BY <1>3, <1>5, <1>7 DEF MeansOK, IsLeader
    <2> QED
      BY <1>1, <1>6, <2>1, TailMeans, SameMeans DEF Both
  <1>11. LeadOK(m, n)' /\ LeadOK(n, m)'
    <2>1. LeadOK(n, m)'
      BY <1>3, <1>7 DEF LeadOK, IsLeader, IsFollower
    <2>2. Settled(n, m)'
      BY <1>2, <1>5, <1>7 DEF Settled, IsFollower
    <2>3. Announced(net[m][n], m) \/ LeaderFrom(net[m][n], 0)
      BY <1>1, <1>2, <1>3 DEF Both, LeadOK
    <2>4. Announced(net'[m][n], m) \/ LeaderFrom(net'[m][n], 0)
      BY <1>1, <1>6, <2>3, AnnouncedTail
    <2>5. LeadOK(m, n)'
      BY <1>3, <1>7, <2>2, <2>4 DEF LeadOK, IsLeader, IsFollower
    <2> QED
      BY <2>1, <2>5
  <1> QED
    BY <1>1, <1>8, <1>9, <1>10, <1>11 DEF Both

\* A node that joins is a follower in no election, and has said nothing else.
LEMMA JoinInCalm ==
    ASSUME IInv, DInv, MutualSeeds, Calm',
           NEW m \in Nodes, NEW n \in Nodes, NEW i, HandleJoinRequest(m, n, i), Quiet
    PROVE  Duo'
  <1>1. /\ i = 1 /\ m # n /\ Nodes = {m, n} /\ Both(m, n) /\ (Both(m, n)' => Duo')
        /\ net[m][n] \in Seq(Messages) /\ net[m][n] # <<>> /\ 1 \in DOMAIN net[m][n]
        /\ net[m][n][1] \in Messages /\ net[m][n][1].type = "join" /\ up[n]
    BY Delivered DEF HandleJoinRequest, Arrives
  <1>2. /\ up[m] /\ joining[m] # 0 /\ joining[n] = 0
        /\ state[m][n] = "unknown" /\ state[n][m] = "unknown"
        /\ net[m][n] = <<Join>> /\ net[n][m] = <<>>
        /\ IsFollower(m)
    BY <1>1 DEF Both, MessagesOK, MeansOK, MeetOK, OnceOK
  <1>3. /\ UNCHANGED <<up, joining, election, replicating>>
        /\ net' = Sent(Taken(m, n, 1), n, {m},
                       [type |-> "roster", state |-> state'[n], role |-> role'[n]])
        /\ state' = [state EXCEPT ![n][m] = "alive"]
        /\ role' = [role EXCEPT ![n][m] = "follower"]
    BY <1>1 DEF HandleJoinRequest, Quiet
  <1>4. /\ \A p \in Nodes : role'[p][p] = role[p][p] /\ state'[p][p] = state[p][p]
        /\ role'[m][n] = role[m][n] /\ role'[n][m] = "follower"
        /\ state'[m][n] = state[m][n] /\ state'[n][m] = "alive"
    BY <1>1, <1>3 DEF IInv, Typed
  <1>5. PICK roster \in Messages :
            /\ net' = Sent(Taken(m, n, 1), n, {m}, roster)
            /\ roster.type = "roster" /\ roster.state[n] = "alive" /\ roster.role[n] = role[n][n]
    <2>1. /\ state'[n] \in [Nodes -> States] /\ role'[n] \in [Nodes -> Roles]
          /\ state'[n][n] = "alive" /\ role'[n][n] = role[n][n]
      BY <1>1, <1>4, HandleJoinRequestOK DEF Kept, IInv, Typed, Both, OnceOK
    <2> QED
      BY <1>3, <2>1 DEF Messages
  <1>6. net'[m][n] = <<>> /\ net'[n][m] = <<roster>>
    <2>1. Tail(net[m][n]) = <<>>
      BY <1>2
    <2>2. Taken(m, n, 1)[m][n] = <<>> /\ Taken(m, n, 1)[n][m] = <<>>
      BY <1>1, <1>2, <2>1, ChannelTaken
    <2>3. Taken(m, n, 1) \in [Nodes -> [Nodes -> Seq(Messages)]]
      BY <1>1, TakenOK DEF IInv, NetOK
    <2>4. \A p, q \in Nodes : net'[p][q] = IF p = n /\ q \in {m}
              THEN Append(Taken(m, n, 1)[p][q], roster) ELSE Taken(m, n, 1)[p][q]
      BY <1>5, <2>3 DEF Sent
    <2>5. net'[m][n] = <<>> /\ net'[n][m] = Append(<<>>, roster)
      BY <1>1, <2>2, <2>4
    <2> QED
      BY <2>5
  <1>7. OnceOK(m)' /\ OnceOK(n)'
    BY <1>1, <1>3, <1>4 DEF Both, OnceOK, IsLeader, IsFollower
  <1>8. MeetOK(m, n)' /\ MeetOK(n, m)'
    <2>1. net'[n][m] # <<>> /\ net'[n][m][1].type = "roster"
      <3>1. net'[n][m] # <<>> /\ net'[n][m][1] = roster
        BY <1>6
      <3> QED
        BY <1>5, <3>1, Zenon
    <2> QED
      BY <1>1, <1>2, <1>3, <1>4, <1>6, <2>1 DEF MeetOK
  <1>9. MessagesOK(m, n)' /\ MessagesOK(n, m)'
    <2>1. MessagesOK(m, n)'
      BY <1>6 DEF MessagesOK
    <2>2. MeansOK(roster, n, m)'
      BY <1>2, <1>3, <1>4, <1>5 DEF MeansOK, IsLeader
    <2>3. \A j \in DOMAIN net'[n][m] : j = 1 /\ net'[n][m][j] = roster
      BY <1>6
    <2>4. MessagesOK(n, m)'
      BY <2>2, <2>3, Renamed DEF MessagesOK
    <2> QED
      BY <2>1, <2>4
  <1>10. LeadOK(m, n)' /\ LeadOK(n, m)'
    <2>1. LeadOK(m, n)'
      BY <1>1, <1>2, <1>3, <1>4 DEF Both, LeadOK, IsLeader, IsFollower
    <2>2. IsLeader(n) => Announced(net'[n][m], n)
      <3>1. IsLeader(n) => Tells(roster, n)
        BY <1>5 DEF Tells, IsLeader
      <3>2. net'[n][m] = Append(<<>>, roster) /\ <<>> \in Seq(Messages)
        BY <1>6
      <3> QED
        BY <1>5, <3>1, <3>2, AnnouncedAppend
    <2>3. LeadOK(n, m)'
      BY <1>1, <1>2, <1>3, <1>4, <2>2 DEF Both, LeadOK, IsLeader, IsFollower
    <2> QED
      BY <2>1, <2>3
  <1> QED
    BY <1>1, <1>7, <1>8, <1>9, <1>10 DEF Both

\* A node that joined a leader takes it for the leader.
LEMMA RosterInCalm ==
    ASSUME IInv, DInv, MutualSeeds, Calm',
           NEW m \in Nodes, NEW n \in Nodes, NEW i, MergeRoster(m, n, i), Quiet
    PROVE  Duo'
  <1> DEFINE roster == net[m][n][1]
  <1>1. /\ i = 1 /\ m # n /\ Nodes = {m, n} /\ Both(m, n) /\ (Both(m, n)' => Duo')
        /\ net[m][n] \in Seq(Messages) /\ net[m][n] # <<>> /\ 1 \in DOMAIN net[m][n]
        /\ roster \in Messages /\ roster.type = "roster" /\ up[n]
    BY Delivered DEF MergeRoster, Arrives
  <1>2. /\ joining[n] # 0 /\ state[m][n] = "alive" /\ roster.state[m] = "alive"
        /\ roster.role[m] = "leader" => IsLeader(m)
    BY <1>1 DEF Both, MessagesOK, MeansOK
  <1>3. /\ up[m] /\ joining[m] = 0 /\ state[n][m] = "unknown" /\ net[n][m] = <<>>
        /\ IsFollower(n) /\ ~IsLeader(n) /\ election[n].term = 0
        /\ state[n][n] = "alive"
    BY <1>1, <1>2 DEF Both, MeetOK, OnceOK, IsFollower, IsLeader
  <1>4. /\ UNCHANGED <<up, election, replicating>>
        /\ net' = Taken(m, n, 1) /\ joining' = [joining EXCEPT ![n] = 0]
        /\ state' = [state EXCEPT ![n] =
               [p \in Nodes |-> IF state[n][p] = "unknown" THEN roster.state[p] ELSE state[n][p]]]
        /\ role' = [role EXCEPT ![n] =
               [p \in Nodes |-> IF state[n][p] = "unknown" THEN roster.role[p] ELSE role[n][p]]]
    BY <1>1 DEF MergeRoster, Quiet, IInv, Typed
  <1> HIDE DEF roster
  <1>5. /\ \A p \in Nodes : role'[p][p] = role[p][p] /\ state'[p][p] = state[p][p]
        /\ role'[m][n] = role[m][n] /\ role'[n][m] = roster.role[m]
        /\ state'[m][n] = state[m][n] /\ state'[n][m] = "alive"
        /\ joining'[m] = 0 /\ joining'[n] = 0
    BY <1>1, <1>2, <1>3, <1>4 DEF IInv, Typed
  <1>6. net'[m][n] = Tail(net[m][n]) /\ net'[n][m] = <<>>
    BY <1>1, <1>3, <1>4, ChannelTaken
  <1>7. OnceOK(m)' /\ OnceOK(n)'
    BY <1>1, <1>3, <1>4, <1>5 DEF Both, OnceOK, IsLeader, IsFollower
  <1>8. MeetOK(m, n)' /\ MeetOK(n, m)'
    BY <1>1, <1>2, <1>3, <1>4, <1>5 DEF Both, MeetOK
  <1>9. MessagesOK(m, n)' /\ MessagesOK(n, m)'
    <2>1. \A msg \in Messages : msg.type # "roster" /\ MeansOK(msg, m, n) => MeansOK(msg, m, n)'
      BY <1>2, <1>3, <1>4, <1>5 DEF MeansOK, IsLeader
    <2>2. MessagesOK(n, m)'
      BY <1>6 DEF MessagesOK
    <2> QED
      BY <1>1, <1>6, <2>1, <2>2, TailMeans DEF Both
  <1>10. LeadOK(m, n)' /\ LeadOK(n, m)'
    <2>1. LeadOK(n, m)'
      BY <1>1, <1>2, <1>3, <1>4, <1>5 DEF Both, LeadOK, IsLeader, IsFollower
    <2>2. IsLeader(m) => \/ Announced(net'[m][n], m)
                         \/ roster.role[m] = "leader" /\ LeaderFrom(net'[m][n], 0)
      <3>1. IsLeader(m) => Announced(net[m][n], m)
        BY <1>1, <1>2, <1>3 DEF Both, LeadOK, Settled
      <3> QED
        BY <1>1, <1>6, <3>1, AnnouncedTail DEF Tells, roster
    <2>3. LeadOK(m, n)'
      BY <1>1, <1>3, <1>4, <1>5, <2>2 DEF Both, LeadOK, IsLeader, IsFollower, Settled
    <2> QED
      BY <2>1, <2>3
  <1> QED
    BY <1>1, <1>7, <1>8, <1>9, <1>10 DEF Both

\* A node asks to join, or finds that nobody is there.
LEMMA ContactInCalm ==
    ASSUME IInv, NEW m \in Nodes, NEW n \in Nodes, m # n, Nodes = {m, n}, Both(m, n),
           NEW onNet \in [Nodes -> [Nodes -> Seq(Messages)]],
           onNet[m][n] = <<>>, onNet[n][m] = <<>>,
           NEW position \in Nat, position <= Len(Seeds[m]), Contact(onNet, m, position),
           state[m][n] = "unknown", state[n][m] = "unknown",
           IsFollower(m), election[m].term = 0, joining[n] = 0,
           up'[m], up'[n] = up[n], position = 0 => ~up[n],
           UNCHANGED <<views, election, replicating>>
    PROVE  Both(m, n)'
  <1>1. joining'[m] = position /\ joining'[n] = 0 /\ UNCHANGED <<state, role>>
    BY DEF Contact, IInv, Typed, views
  <1>2. net'[m][n] = (IF position = 0 THEN <<>> ELSE <<Join>>) /\ net'[n][m] = <<>>
    <2>1. CASE position = 0
      BY <2>1 DEF Contact
    <2>2. CASE position # 0
      <3>1. Seeds[m][position] = n
        <4>1. position \in DOMAIN Seeds[m]
          BY <2>2, SeedsAssumption
        <4> QED
          BY <4>1, SeedsAssumption
      <3>2. net' = Sent(onNet, m, {n}, Join)
        BY <2>2, <3>1 DEF Contact
      <3>3. net'[m][n] = Append(<<>>, Join) /\ net'[n][m] = <<>>
        BY <3>2 DEF Sent
      <3> QED
        BY <2>2, <3>3
    <2> QED
      BY <2>1, <2>2
  <1>3. OnceOK(m)' /\ OnceOK(n)'
    BY <1>1 DEF Both, OnceOK, IsLeader, IsFollower
  <1>4. MeetOK(m, n)' /\ MeetOK(n, m)'
    BY <1>1, <1>2 DEF MeetOK
  <1>5. MessagesOK(m, n)' /\ MessagesOK(n, m)'
    <2>1. MessagesOK(n, m)'
      BY <1>2 DEF MessagesOK
    <2>2. ASSUME position # 0
          PROVE  MeansOK(Join, m, n)'
      BY <1>1, <2>2 DEF MeansOK, Join
    <2>3. \A j \in DOMAIN net'[m][n] : position # 0 /\ j = 1 /\ net'[m][n][j] = Join
      BY <1>2
    <2>4. MessagesOK(m, n)'
      BY <2>2, <2>3, Renamed DEF MessagesOK, Join
    <2> QED
      BY <2>1, <2>4
  <1>6. LeadOK(m, n)' /\ LeadOK(n, m)'
    BY <1>1 DEF Both, LeadOK, IsLeader, IsFollower
  <1> QED
    BY <1>3, <1>4, <1>5, <1>6 DEF Both

\* What fails in calm is a request to join a node that is down.
LEMMA FailsInCalm ==
    ASSUME IInv, DInv, MutualSeeds, Calm',
           NEW m \in Nodes, NEW n \in Nodes, NEW i, NEW type, Fails(m, n, i, type)
    PROVE  /\ m # n /\ Nodes = {m, n} /\ Both(m, n) /\ (Both(m, n)' => Duo')
           /\ i = 1 /\ type = "join" /\ up[m] /\ ~up[n] /\ joining[m] # 0
           /\ net[m][n] = <<Join>> /\ net[n][m] = <<>>
           /\ state[m][n] = "unknown" /\ state[n][m] = "unknown"
           /\ IsFollower(m) /\ election[m].term = 0 /\ joining[n] = 0
  <1>1. m # n /\ i \in DOMAIN net[m][n] /\ net[m][n][i].type = type
    BY FailsOK
  <1>2. Calm /\ ~(up[m] /\ up[n])
    <2>1. PICK lost \in Nat : Spends(lost, 0) /\ lost = IF up[m] /\ up[n] THEN 1 ELSE 0
      BY DEF Fails, Spend
    <2> QED
      BY <2>1, Costless DEF IInv
  <1>3. Both(m, n) /\ Nodes = {m, n} /\ (Both(m, n)' => Duo')
    BY <1>1, <1>2, TwoNodes DEF DInv
  <1>4. MeansOK(net[m][n][i], m, n)
    BY <1>1, <1>3 DEF Both, MessagesOK
  <1>5. type = "join" /\ joining[m] # 0 /\ state[n][m] = "unknown"
    BY <1>1, <1>2, <1>3, <1>4 DEF MeansOK, Both, MeetOK
  <1>6. /\ up[m] /\ joining[n] = 0 /\ state[m][n] = "unknown"
        /\ net[m][n] = <<Join>> /\ net[n][m] = <<>>
        /\ IsFollower(m) /\ election[m].term = 0
    BY <1>3, <1>5 DEF Both, MeetOK, OnceOK
  <1>7. i = 1
    BY <1>1, <1>6
  <1> QED
    BY <1>1, <1>2, <1>3, <1>5, <1>6, <1>7

\* A failed request to join goes to the next seed.
LEMMA FailureInCalm ==
    ASSUME IInv, DInv, MutualSeeds, Calm',
           NEW m \in Nodes, NEW n \in Nodes, NEW i, Failure(m, n, i)
    PROVE  Duo'
  <1>1. JoinFails(m, n, i) /\ Quiet /\ Fails(m, n, i, "join")
    <2>2. \A type : Fails(m, n, i, type) => type = "join"
      BY FailsInCalm
    <2>3. ~NoticeFails(m, n, i)
      BY <2>2 DEF NoticeFails
    <2>4. ~ElectionRequestFails(m, n, i)
      BY <2>2 DEF ElectionRequestFails
    <2>5. JoinFails(m, n, i) /\ Quiet
      BY <2>3, <2>4 DEF Failure
    <2> QED
      BY <2>2, <2>5 DEF JoinFails
  <1>2. /\ m # n /\ Nodes = {m, n} /\ Both(m, n) /\ (Both(m, n)' => Duo')
        /\ i = 1 /\ up[m] /\ ~up[n] /\ joining[m] # 0
        /\ net[m][n] = <<Join>> /\ net[n][m] = <<>>
        /\ state[m][n] = "unknown" /\ state[n][m] = "unknown"
        /\ IsFollower(m) /\ election[m].term = 0 /\ joining[n] = 0
    BY <1>1, FailsInCalm
  <1>3. ~Fails(m, n, i, "roster")
    BY <1>1, FailsInCalm
  <1>4. Contact(Taken(m, n, 1), m, NextSeed(m)) /\ UNCHANGED <<up, views, election, replicating>>
    BY <1>1, <1>2, <1>3 DEF JoinFails, Quiet
  <1>5. 1 \in DOMAIN net[m][n] /\ Tail(net[m][n]) = <<>>
    BY <1>2
  <1>6. /\ Taken(m, n, 1) \in [Nodes -> [Nodes -> Seq(Messages)]]
        /\ Taken(m, n, 1)[m][n] = <<>> /\ Taken(m, n, 1)[n][m] = <<>>
    BY <1>2, <1>5, TakenOK, ChannelTaken DEF IInv, NetOK
  <1>7. NextSeed(m) \in Nat /\ NextSeed(m) <= Len(Seeds[m])
    BY SeedPositions DEF IInv
  <1>8. Both(m, n)'
    BY <1>2, <1>4, <1>6, <1>7, ContactInCalm
  <1> QED
    BY <1>2, <1>8

\* A node that starts asks to join its peer.
LEMMA StartInCalm ==
    ASSUME IInv, DInv, MutualSeeds, Calm', NEW m \in Nodes, Start(m)
    PROVE  Duo'
  <1>1. PICK n \in Nodes : m # n
    BY TheOther
  <1>2. /\ Nodes = {m, n} /\ Both(m, n) /\ (Both(m, n)' => Duo')
        /\ Seeds[m] # <<>>
    BY <1>1, TwoNodes DEF DInv, Calm, Start, counts
  <1>3. /\ ~up[m] /\ net[m][n] = <<>> /\ net[n][m] = <<>> /\ up' = [up EXCEPT ![m] = TRUE]
        /\ Contact(net, m, 1) /\ UNCHANGED <<views, election, replicating>>
    BY <1>1, <1>2 DEF Start, FirstSeed
  <1>4. /\ state[m][n] = "unknown" /\ state[n][m] = "unknown" /\ joining[n] = 0
        /\ IsFollower(m) /\ election[m].term = 0
    BY <1>2, <1>3 DEF Both, MeetOK, OnceOK
  <1>5. up'[m] /\ up'[n] = up[n]
    BY <1>1, <1>3 DEF IInv, Typed
  <1>6. 1 <= Len(Seeds[m])
    BY <1>2, SeedsAssumption
  <1>7. net \in [Nodes -> [Nodes -> Seq(Messages)]]
    BY DEF IInv, NetOK
  <1>8. ASSUME NEW position, position = 1
        PROVE  Both(m, n)'
    <2>1. /\ position \in Nat /\ position <= Len(Seeds[m]) /\ position # 0
          /\ Contact(net, m, position)
      BY <1>3, <1>6, <1>8
    <2> QED
      BY <1>1, <1>2, <1>3, <1>4, <1>5, <1>7, <2>1, ContactInCalm
  <1> QED
    BY <1>2, <1>8

\* A heartbeat tells the role of its sender, so a leader's tells nothing else.
LEMMA HeartbeatSentInCalm ==
    ASSUME IInv, DInv, MutualSeeds, Calm', NEW n \in Nodes, Heartbeat(n), Quiet
    PROVE  Duo'
  <1>1. PICK o \in Nodes : n # o
    BY TheOther
  <1>2. Nodes = {n, o} /\ Both(n, o) /\ (Both(n, o)' => Duo')
    BY <1>1, TwoNodes DEF DInv, Calm, Heartbeat, counts
  <1>3. UNCHANGED <<up, state, role, joining, election, replicating>>
    BY DEF Heartbeat, Quiet, views
  <1>4. PICK targets \in SUBSET Peers(n) : net' = Sent(net, n, targets, HeartbeatOf(n))
    BY DEF Heartbeat
  <1>5. PICK beat \in Messages : /\ beat = HeartbeatOf(n) /\ beat.type = "heartbeat"
                                 /\ beat.role = role[n][n]
    <2>1. role[n][n] \in Roles
      BY DEF IInv, Typed
    <2>2. HeartbeatOf(n) \in Messages
      BY <2>1 DEF HeartbeatOf, Messages
    <2> QED
      BY <2>2 DEF HeartbeatOf
  <1>6. /\ net'[o][n] = net[o][n]
        /\ net[o][n] \in Seq(Messages) /\ net[n][o] \in Seq(Messages)
        /\ IF o \in targets THEN net'[n][o] = Append(net[n][o], beat) ELSE net'[n][o] = net[n][o]
    BY <1>1, <1>4, <1>5 DEF Sent, IInv, NetOK
  <1>7. o \in targets => state[n][o] = "alive" /\ joining[n] = 0
    BY <1>1, <1>2, <1>4 DEF Peers, Both, MeetOK
  <1>8. OnceOK(n)' /\ OnceOK(o)'
    BY <1>2, <1>3 DEF Both, OnceOK, IsLeader, IsFollower
  <1>9. MeetOK(n, o)' /\ MeetOK(o, n)'
    <2>1. CASE o \in targets
      <3>1. net[n][o] # <<>> => net'[n][o] # <<>> /\ net'[n][o][1] = net[n][o][1]
        BY <1>6, <2>1
      <3> QED
        BY <1>2, <1>3, <1>6, <1>7, <2>1, <3>1 DEF Both, MeetOK
    <2>2. CASE o \notin targets
      BY <1>2, <1>3, <1>6, <2>2 DEF Both, MeetOK
    <2> QED
      BY <2>1, <2>2
  <1>10. MessagesOK(n, o)' /\ MessagesOK(o, n)'
    <2>1. \A msg \in Messages : /\ MeansOK(msg, n, o) => MeansOK(msg, n, o)'
                                /\ MeansOK(msg, o, n) => MeansOK(msg, o, n)'
      BY <1>3 DEF MeansOK, IsLeader
    <2>2. o \in targets => MeansOK(beat, n, o)'
      BY <1>3, <1>5, <1>7 DEF MeansOK, IsLeader
    <2> QED
      BY <1>2, <1>5, <1>6, <2>1, <2>2, AppendMeans, SameMeans DEF Both
  <1>11. LeadOK(n, o)' /\ LeadOK(o, n)'
    <2>1. LeadOK(o, n)'
      BY <1>2, <1>3, <1>6 DEF Both, LeadOK, IsLeader, IsFollower, Settled
    <2>2. IsLeader(n) => /\ Announced(net[n][o], n) => Announced(net'[n][o], n)
                         /\ LeaderFrom(net[n][o], 0) => LeaderFrom(net'[n][o], 0)
      BY <1>5, <1>6, AnnouncedAppend DEF IsLeader
    <2>3. LeadOK(n, o)'
      BY <1>2, <1>3, <2>2 DEF Both, LeadOK, IsLeader, IsFollower, Settled
    <2> QED
      BY <2>1, <2>3
  <1> QED
    BY <1>2, <1>8, <1>9, <1>10, <1>11 DEF Both

\* What does not happen in calm: nobody leaves, falls silent or is late.
LEMMA NoneLeavesInCalm ==
    ASSUME IInv, DInv, MutualSeeds, Calm',
           NEW m \in Nodes, NEW n \in Nodes, NEW i, HandleLeave(m, n, i)
    PROVE  FALSE
  <1>1. Both(m, n) /\ 1 \in DOMAIN net[m][n] /\ net[m][n][1].type = "leave"
    BY Delivered DEF HandleLeave, Arrives
  <1> QED
    BY <1>1 DEF Both, MessagesOK, MeansOK

\* The heartbeats of a node that runs come in time.
LEMMA NoneSuspectedInCalm ==
    ASSUME IInv, DInv, MutualSeeds, Calm', NEW n \in Nodes, NEW m \in Nodes,
           Suspect(n, m) \/ DeclareDead(n, m)
    PROVE  FALSE
  <1>1. m # n /\ Both(n, m)
    <2>1. m # n /\ Calm
      <3>1. m # n /\ Spends(IF Silent(m, n) THEN 0 ELSE 1, 0)
        BY DEF Suspect, DeclareDead, BuryPeer, Spend
      <3> QED
        BY <3>1, Costless DEF IInv
    <2> QED
      BY <2>1, TwoNodes DEF DInv
  <1>2. state[n][m] # "suspect" /\ (state[n][m] = "alive" => up[m] /\ state[m][n] # "dead")
    BY <1>1 DEF Both, MeetOK
  <1>3. state[n][m] = "alive" /\ Spends(IF Silent(m, n) THEN 0 ELSE 1, 0)
    BY <1>2 DEF Suspect, DeclareDead, BuryPeer, Spend
  <1>4. ~Silent(m, n)
    BY <1>2, <1>3 DEF Silent
  <1> QED
    BY <1>3, <1>4, Costless DEF IInv

\* The answers come in time.
LEMMA NoTimeoutInCalm ==
    ASSUME IInv, Calm', NEW n \in Nodes, NEW r, RequestTimeout(n, r)
    PROVE  FALSE
  BY Costless DEF RequestTimeout, Spend, IInv

\* No process ends.
LEMMA NoEndInCalm ==
    ASSUME IInv, Calm', NEW n \in Nodes, End(n)
    PROVE  FALSE
  BY DEF End, Calm, IInv, Typed

\* Where only heartbeats are under way, the peer of a leader follows it.
LEMMA Unawaited ==
    ASSUME NEW n \in Nodes, NEW o \in Nodes, n # o, Both(n, o), NothingAwaited(n),
           IsLeader(o), up[n], joining[n] = 0
    PROVE  Settled(n, o)
  <1>1. up[o] /\ joining[o] = 0 /\ state[o][n] = "alive"
    BY DEF Both, OnceOK, MeetOK, IsLeader, IsFollower
  <1>2. ~Announced(net[o][n], o)
    BY DEF NothingAwaited, Announced, Tells
  <1> QED
    BY <1>1, <1>2 DEF Both, LeadOK

\* Nothing that matters here changes.
LEMMA StillInCalm ==
    ASSUME Duo, UNCHANGED <<up, state, role, joining, net, election>>,
           \A n \in Nodes : replicating'[n] = On => replicating[n] = On
    PROVE  Duo'
  <1> SUFFICES ASSUME NEW n \in Nodes, NEW o \in Nodes \ {n}
               PROVE  Both(n, o)'
    BY DEF Duo
  <1>1. Both(n, o)
    BY DEF Duo
  <1>2. ASSUME NEW p \in Nodes, NEW q \in Nodes, MessagesOK(p, q)
        PROVE  MessagesOK(p, q)'
    BY <1>2 DEF MessagesOK, MeansOK, IsLeader
  <1> QED
    BY <1>1, <1>2 DEF Both, OnceOK, MeetOK, LeadOK, IsLeader, IsFollower, Settled

\* No operator makes a node replicate as the winner of an election.
LEMMA CommandedOff ==
    ASSUME IInv, NEW n \in Nodes, Operate(n)
    PROVE  \A p \in Nodes : replicating'[p] = On => replicating[p] = On
  <1>1. CASE UNCHANGED replicating
    BY <1>1
  <1>2. CASE \E enabled \in BOOLEAN : SetEnabled(n, enabled)
    <2>1. PICK enabled \in BOOLEAN :
              replicating' = [replicating EXCEPT ![n] = [enabled |-> enabled, byHand |-> TRUE]]
      BY <1>2 DEF SetEnabled
    <2>2. [enabled |-> enabled, byHand |-> TRUE] # On
      BY DEF On
    <2> QED
      BY <2>1, <2>2 DEF IInv, Typed
  <1> QED
    BY <1>1, <1>2 DEF Operate, Quiet

\* No node runs at the start.
LEMMA StartsInCalm ==
    ASSUME Init
    PROVE  Duo
  <1> SUFFICES ASSUME NEW n \in Nodes, NEW o \in Nodes \ {n}
               PROVE  Both(n, o)
    BY DEF Duo
  <1>1. \A p \in Nodes : OnceOK(p)
    BY DEF Init, OnceOK, IsLeader, IsFollower, NoElection, Alone, Followers, On, Off
  <1>2. \A p, q \in Nodes : p # q => MeetOK(p, q)
    BY DEF Init, MeetOK, Alone
  <1>3. \A p, q \in Nodes : net[p][q] = <<>> /\ MessagesOK(p, q)
    BY DEF Init, MessagesOK
  <1>4. \A p, q \in Nodes : LeadOK(p, q)
    BY DEF Init, LeadOK, IsLeader, IsFollower, NoElection, Followers
  <1> QED
    BY <1>1, <1>2, <1>3, <1>4 DEF Both

\* A node sends to one that it knows, behind what it sent before.
LEMMA MeetSent ==
    ASSUME NEW n \in Nodes, NEW o \in Nodes, MeetOK(n, o), MeetOK(o, n),
           net[n][o] \in Seq(Messages), NEW msg \in Messages,
           UNCHANGED <<up, state, joining>>, net'[o][n] = net[o][n],
           \/ net'[n][o] = net[n][o]
           \/ /\ net'[n][o] = Append(net[n][o], msg)
              /\ state[n][o] = "alive" /\ joining[n] = 0
    PROVE  MeetOK(n, o)' /\ MeetOK(o, n)'
  <1>1. CASE net'[n][o] = net[n][o]
    BY <1>1 DEF MeetOK
  <1>2. CASE net'[n][o] # net[n][o]
    <2>1. net[n][o] # <<>> => net'[n][o] # <<>> /\ net'[n][o][1] = net[n][o][1]
      BY <1>2
    <2> QED
      BY <1>2, <2>1 DEF MeetOK
  <1> QED
    BY <1>1, <1>2

\* The winner of the only election
LEMMA TimerInCalm ==
    ASSUME IInv, DInv, MutualSeeds, Calm', NEW n \in Nodes,
           NEW t \in election[n].armed, VictoryTimer(n, t)
    PROVE  Duo'
  <1>1. NothingAwaited(n) /\ Calm
    <2>1. Spends(1, 0) \/ Spends(0, IF NothingAwaited(n) THEN 0 ELSE 1)
      BY DEF VictoryTimer, Spend, Race
    <2> QED
      BY <2>1, Costless DEF IInv
  <1>2. PICK o \in Nodes : n # o
    BY TheOther
  <1>3. Nodes = {n, o} /\ Both(n, o) /\ (Both(n, o)' => Duo')
    BY <1>1, <1>2, TwoNodes DEF DInv
  <1>4. /\ election[n].electing /\ role[n][n] = "candidate" /\ election[n].term = 1
        /\ election[n].armed = {t} /\ election[n].handle = t
        /\ up[n] /\ joining[n] = 0
    BY <1>3 DEF Both, OnceOK, IsFollower
  <1>5. ~IsLeader(o)
    BY <1>1, <1>2, <1>3, <1>4, Unawaited DEF Settled, IsFollower
  <1>6. PICK e \in Elections :
            /\ DeclareVictory(n, e, net)
            /\ e.term = 1 /\ e.armed = {} /\ e.electing
    <2> DEFINE e == [election[n] EXCEPT !.armed = @ \ {t}, !.handle = IF @ = t THEN 0 ELSE @]
    <2>1. election[n] \in Elections
      BY DEF IInv, Typed
    <2>2. e \in Elections /\ e.term = 1 /\ e.armed = {} /\ e.electing
      BY <1>4, <2>1 DEF Elections
    <2>3. IF e.electing THEN DeclareVictory(n, e, net)
          ELSE /\ election' = [election EXCEPT ![n] = e]
               /\ UNCHANGED <<role, net, replicating>>
      BY DEF VictoryTimer
    <2> HIDE DEF e
    <2> QED
      BY <2>2, <2>3
  <1>7. /\ election' = [election EXCEPT ![n] = [e EXCEPT !.electing = FALSE]]
        /\ role' = [role EXCEPT ![n][n] = "leader"]
        /\ replicating' = [replicating EXCEPT ![n] = On]
        /\ net' = Sent(net, n, AlivePeers(n), Victory(1))
        /\ UNCHANGED <<up, state, joining>>
    BY <1>6 DEF DeclareVictory, VictoryTimer
  <1>8. PICK victory \in Messages : /\ victory = Victory(1) /\ victory.type = "victory"
                                    /\ victory.term = 1
    <2>1. Victory(1) \in Messages
      BY DEF Victory, Messages
    <2> QED
      BY <2>1 DEF Victory
  <1>9. /\ net'[o][n] = net[o][n]
        /\ net[o][n] \in Seq(Messages) /\ net[n][o] \in Seq(Messages)
        /\ IF state[n][o] = "alive" THEN net'[n][o] = Append(net[n][o], victory)
                                    ELSE net'[n][o] = net[n][o]
    BY <1>2, <1>7, <1>8 DEF Sent, AlivePeers, IInv, NetOK
  <1>10. /\ election'[o] = election[o] /\ election'[n].term = 1
         /\ ~election'[n].electing /\ election'[n].armed = {}
         /\ replicating'[o] = replicating[o]
         /\ role'[o] = role[o] /\ role'[n][o] = role[n][o] /\ role'[n][n] = "leader"
    BY <1>2, <1>6, <1>7 DEF IInv, Typed, Elections
  <1>11. OnceOK(n)' /\ OnceOK(o)'
    BY <1>3, <1>4, <1>7, <1>10 DEF Both, OnceOK, IsLeader, IsFollower
  <1>12. MeetOK(n, o)' /\ MeetOK(o, n)'
    BY <1>3, <1>4, <1>7, <1>9, MeetSent DEF Both
  <1>13. MessagesOK(n, o)' /\ MessagesOK(o, n)'
    <2>1. \A msg \in Messages : MeansOK(msg, n, o) => MeansOK(msg, n, o)'
      BY <1>4, <1>7, <1>10 DEF MeansOK, IsLeader
    <2>2. state[n][o] = "alive" => MeansOK(victory, n, o)'
      BY <1>7, <1>8, <1>10 DEF MeansOK, IsLeader
    <2>3. MessagesOK(n, o)'
      BY <1>3, <1>8, <1>9, <2>1, <2>2, AppendMeans, SameMeans DEF Both
    <2>4. ASSUME NEW i \in DOMAIN net'[o][n]
          PROVE  MeansOK(net[o][n][i], o, n)' /\ net'[o][n][i].type = "heartbeat"
      <3>1. PICK msg \in Messages : net'[o][n][i] = msg /\ net[o][n][i] = msg
        BY <1>9, <2>4
      <3>2. msg.type = "heartbeat" /\ MeansOK(msg, o, n)
        BY <1>1, <1>3, <1>9, <2>4, <3>1 DEF NothingAwaited, Both, MessagesOK
      <3>3. MeansOK(msg, o, n)'
        BY <1>7, <1>10, <3>2 DEF MeansOK, IsLeader
      <3> QED
        BY <3>1, <3>2, <3>3, Renamed
    <2>5. MessagesOK(o, n)'
      BY <2>4 DEF MessagesOK
    <2> QED
      BY <2>3, <2>5
  <1>14. LeadOK(n, o)' /\ LeadOK(o, n)'
    <2>1. state[n][o] = "alive" => Announced(net'[n][o], n)
      <3>1. Tells(victory, n)
        BY <1>8 DEF Tells
      <3>2. Announced(Append(net[n][o], victory), n)
        BY <1>9, <3>1, AnnouncedAppend
      <3> QED
        BY <1>9, <3>2
    <2>2. LeadOK(n, o)'
      BY <1>3, <1>5, <1>7, <1>10, <2>1 DEF Both, LeadOK, IsLeader, IsFollower
    <2>3. LeadOK(o, n)'
      BY <1>3, <1>5, <1>7, <1>10 DEF Both, LeadOK, IsLeader, IsFollower
    <2> QED
      BY <2>2, <2>3
  <1> QED
    BY <1>3, <1>11, <1>12, <1>13, <1>14 DEF Both

\* What a step leaves that begins an election of n while nobody leads
Begins(n, o, onNet) ==
    /\ OnceOK(n)' /\ OnceOK(o)' /\ LeadOK(n, o)' /\ LeadOK(o, n)'
    /\ \A msg \in Messages : /\ MeansOK(msg, n, o) => MeansOK(msg, n, o)'
                             /\ MeansOK(msg, o, n) => MeansOK(msg, o, n)'
    /\ net'[o][n] = onNet[o][n]
    /\ \/ net'[n][o] = onNet[n][o]
       \/ \E start \in Messages :
              /\ net'[n][o] = Append(onNet[n][o], start)
              /\ state[n][o] = "alive" /\ Priority[o] > Priority[n]
              /\ start.type = "election_start" /\ MeansOK(start, n, o)'

\* A follower of nobody begins its election, and asks the other if that one
\* goes first.
LEMMA BeginsInCalm ==
    ASSUME IInv, NEW n \in Nodes, NEW o \in Nodes, n # o, Nodes = {n, o}, Both(n, o),
           NEW onNet \in [Nodes -> [Nodes -> Seq(Messages)]],
           NEW heard \in Nat, heard <= 1, NEW onOlder, StartElection(n, onNet, onOlder, heard),
           ~election[n].electing, ~IsLeader(n), ~IsLeader(o),
           up[n], joining[n] = 0, UNCHANGED <<up, state, joining>>
    PROVE  Begins(n, o, onNet)
  <1>1. election[n] \in Elections /\ election \in [Nodes -> Elections] /\ role[n][n] \in Roles
    BY DEF IInv, Typed
  <1>2. IsFollower(n) /\ election[n].armed = {}
    BY <1>1 DEF Both, OnceOK, Roles, IsLeader, IsFollower
  <1>3. election[n].term = 0
    <2>1. election[n].term # 1 /\ election[n].term <= 1
      BY <1>2 DEF Both, OnceOK, LeadOK
    <2>2. election[n].term \in Nat
      BY <1>1 DEF Elections
    <2>3. \A term \in Nat : term <= 1 /\ term # 1 => term = 0
      OBVIOUS
    <2> QED
      BY <2>1, <2>2, <2>3
  <1>4. PICK higher \in SUBSET Nodes :
            /\ higher = Higher(n)
            /\ o \in higher <=> state[n][o] = "alive" /\ Priority[o] > Priority[n]
            /\ higher \subseteq {o}
    BY DEF Higher
  <1>5. PICK e \in Elections :
            /\ e = Begun(n) /\ e.term = 1 /\ e.electing
            /\ e.armed \subseteq {e.handle}
            /\ o \in higher => e.armed = {}
    <2> DEFINE b == [election[n] EXCEPT !.term = 1, !.electing = TRUE, !.yields = FALSE]
               request == [term |-> 1, left |-> higher, answered |-> FALSE]
               timing == [b EXCEPT !.handle = 1, !.armed = @ \cup {1}]
               asking == [b EXCEPT !.asked = @ \cup {request}]
    <2>1. b \in Elections /\ b.term = 1 /\ b.electing /\ b.armed = {}
      BY <1>1, <1>2 DEF Elections
    <2>2. Begun(n) = IF higher = {} THEN timing ELSE asking
      BY <1>3, <1>4 DEF Begun
    <2>3. Begun(n) \in Elections
      BY BegunOK DEF IInv
    <2> HIDE DEF b, request
    <2>4. /\ timing.term = 1 /\ timing.electing /\ timing.armed = {1} /\ timing.handle = 1
          /\ asking.term = 1 /\ asking.electing /\ asking.armed = {}
      BY <2>1 DEF Elections
    <2> HIDE DEF timing, asking
    <2> QED
      BY <2>2, <2>3, <2>4
  <1>6. /\ election' = [election EXCEPT ![n] = [e EXCEPT !.term = 1]]
        /\ role' = [role EXCEPT ![n][n] = "candidate"]
        /\ net' = Sent(onNet, n, higher, ElectionStart(1))
        /\ UNCHANGED replicating
    <2>1. (IF heard > e.term THEN heard ELSE e.term) = 1
      BY <1>5
    <2>2. /\ election' = [election EXCEPT ![n] =
                              [e EXCEPT !.term = IF heard > e.term THEN heard ELSE e.term]]
          /\ role' = [role EXCEPT ![n][n] = "candidate"]
          /\ net' = Sent(onNet, n, Higher(n), ElectionStart(e.term))
          /\ UNCHANGED replicating
      BY <1>5 DEF StartElection, Elections
    <2> QED
      BY <1>4, <1>5, <2>1, <2>2
  <1>7. /\ election'[o] = election[o] /\ election'[n].term = 1
        /\ election'[n].electing /\ election'[n].armed \subseteq {election'[n].handle}
        /\ o \in higher => election'[n].armed = {}
        /\ role'[o] = role[o] /\ role'[n][o] = role[n][o] /\ role'[n][n] = "candidate"
    BY <1>1, <1>5, <1>6 DEF IInv, Typed, Elections
  <1>8. OnceOK(n)' /\ OnceOK(o)'
    BY <1>6, <1>7 DEF Both, OnceOK, IsLeader, IsFollower
  <1>9. LeadOK(n, o)' /\ LeadOK(o, n)'
    BY <1>6, <1>7 DEF Both, LeadOK, IsLeader, IsFollower
  <1>10. \A msg \in Messages : /\ MeansOK(msg, n, o) => MeansOK(msg, n, o)'
                               /\ MeansOK(msg, o, n) => MeansOK(msg, o, n)'
    BY <1>2, <1>7 DEF MeansOK, IsLeader, IsFollower
  <1>11. PICK start \in Messages : /\ start = ElectionStart(1) /\ start.type = "election_start"
                                   /\ start.term = 1
    <2>1. ElectionStart(1) \in Messages
      BY DEF ElectionStart, Messages
    <2> QED
      BY <2>1 DEF ElectionStart
  <1>12. /\ net'[o][n] = onNet[o][n]
         /\ IF o \in higher THEN net'[n][o] = Append(onNet[n][o], start)
                            ELSE net'[n][o] = onNet[n][o]
    BY <1>6, <1>11 DEF Sent
  <1>13. o \in higher => MeansOK(start, n, o)'
    BY <1>4, <1>7, <1>11 DEF MeansOK, IsLeader
  <1> QED
    BY <1>4, <1>8, <1>9, <1>10, <1>11, <1>12, <1>13 DEF Begins

\* A node that knows of no leader elects, and there is none.
LEMMA CheckInCalm ==
    ASSUME IInv, DInv, MutualSeeds, Calm', NEW n \in Nodes, CheckLeaderHealth(n)
    PROVE  Duo'
  <1>1. NothingAwaited(n) /\ joining[n] = 0 /\ Calm
    <2>1. PICK lost \in Nat, raced \in Nat :
              /\ Spends(lost, raced)
              /\ lost = IF joining[n] = 0 THEN 0 ELSE 1
              /\ raced = IF NothingAwaited(n) THEN 0 ELSE 1
      BY DEF CheckLeaderHealth
    <2> QED
      BY <2>1, Costless DEF IInv
  <1>2. PICK o \in Nodes : n # o
    BY TheOther
  <1>3. Nodes = {n, o} /\ Both(n, o) /\ (Both(n, o)' => Duo')
    BY <1>1, <1>2, TwoNodes DEF DInv
  <1>4. /\ up[n] /\ ~election[n].electing /\ StartElection(n, net, older, 0)
        /\ UNCHANGED <<up, state, joining>>
        /\ ~(state[n][n] = "alive" /\ role[n][n] = "leader")
        /\ ~(state[n][o] = "alive" /\ role[n][o] = "leader")
    BY DEF CheckLeaderHealth
  <1>5. ~IsLeader(n)
    BY <1>3, <1>4 DEF Both, OnceOK, IsLeader
  <1>6. ~IsLeader(o)
    BY <1>1, <1>2, <1>3, <1>4, Unawaited DEF Settled
  <1>7. Begins(n, o, net)
    <2>1. net \in [Nodes -> [Nodes -> Seq(Messages)]]
      BY DEF IInv, NetOK
    <2>2. PICK heard \in Nat : heard <= 1 /\ StartElection(n, net, older, heard)
      BY <1>4
    <2> QED
      BY <1>1, <1>2, <1>3, <1>4, <1>5, <1>6, <2>1, <2>2, BeginsInCalm
  <1>8. net[n][o] \in Seq(Messages) /\ net[o][n] \in Seq(Messages)
    BY DEF IInv, NetOK
  <1>9. Join \in Messages
    BY DEF Join, Messages
  <1>10. MeetOK(n, o)' /\ MeetOK(o, n)'
    BY <1>1, <1>3, <1>4, <1>7, <1>8, <1>9, MeetSent DEF Both, Begins
  <1>11. MessagesOK(n, o)' /\ MessagesOK(o, n)'
    <2>1. MessagesOK(o, n)'
      BY <1>3, <1>7, <1>8, SameMeans DEF Both, Begins
    <2>2. CASE net'[n][o] = net[n][o]
      BY <1>3, <1>7, <1>8, <2>1, <2>2, SameMeans DEF Both, Begins
    <2>3. CASE net'[n][o] # net[n][o]
      BY <1>3, <1>7, <1>8, <2>1, <2>3, AppendMeans DEF Both, Begins
    <2> QED
      BY <2>2, <2>3
  <1> QED
    BY <1>3, <1>7, <1>10, <1>11 DEF Both, Begins

\* A node of a higher priority answers, and begins its own election unless
\* one is in progress.
LEMMA ElectionStartInCalm ==
    ASSUME IInv, DInv, MutualSeeds, Calm',
           NEW m \in Nodes, NEW n \in Nodes, NEW i, HandleElectionStart(m, n, i)
    PROVE  Duo'
  <1>1. /\ i = 1 /\ m # n /\ Nodes = {n, m} /\ Both(m, n) /\ Both(n, m)
        /\ (Both(m, n)' => Duo')
        /\ net[m][n] \in Seq(Messages) /\ net[m][n] # <<>> /\ 1 \in DOMAIN net[m][n]
        /\ net[m][n][1] \in Messages /\ net[m][n][1].type = "election_start"
    BY Delivered DEF HandleElectionStart, Both
  <1>2. /\ up[m] /\ up[n] /\ joining[m] = 0 /\ joining[n] = 0
        /\ state[m][n] = "alive" /\ state[n][m] = "alive"
    BY <1>1, Met
  <1>3. /\ net[m][n][1].term = 1 /\ Priority[n] > Priority[m]
        /\ role[m][m] = "candidate" /\ ~IsLeader(m) /\ ~IsLeader(n)
    BY <1>1 DEF Both, MessagesOK, MeansOK, IsLeader
  <1>4. PICK ok \in Messages : ok = Ok(1) /\ ok.type = "ok"
    <2>1. Ok(1) \in Messages
      BY DEF Ok, Messages
    <2> QED
      BY <2>1 DEF Ok
  <1>5. PICK onNet \in [Nodes -> [Nodes -> Seq(Messages)]] :
            /\ onNet = Sent(Taken(m, n, 1), n, {m}, ok)
            /\ onNet[m][n] = Tail(net[m][n]) /\ onNet[n][m] = Append(net[n][m], ok)
    <2>1. NetOK(Taken(m, n, 1))
      BY <1>1, TakenOK DEF IInv
    <2>2. NetOK(Sent(Taken(m, n, 1), n, {m}, ok))
      BY <1>1, <2>1, SentOK
    <2>3. /\ Taken(m, n, 1) \in [Nodes -> [Nodes -> Seq(Messages)]]
          /\ Sent(Taken(m, n, 1), n, {m}, ok) \in [Nodes -> [Nodes -> Seq(Messages)]]
      BY <2>1, <2>2 DEF NetOK
    <2>4. Taken(m, n, 1)[m][n] = Tail(net[m][n]) /\ Taken(m, n, 1)[n][m] = net[n][m]
      BY <1>1, ChannelTaken
    <2>5. ASSUME NEW onNet, onNet = Taken(m, n, 1),
                 onNet \in [Nodes -> [Nodes -> Seq(Messages)]]
          PROVE  /\ Sent(onNet, n, {m}, ok)[m][n] = onNet[m][n]
                 /\ Sent(onNet, n, {m}, ok)[n][m] = Append(onNet[n][m], ok)
      BY <1>1, <2>5 DEF Sent
    <2> QED
      BY <2>3, <2>4, <2>5
  <1>6. /\ UNCHANGED <<up, state, joining>>
        /\ StartElection(n, onNet, FewerOlder(m, n, 1), 1)
    BY <1>1, <1>3, <1>4, <1>5 DEF HandleElectionStart
  <1>7. net[n][m] \in Seq(Messages)
    BY DEF IInv, NetOK
  <1>8. MeetOK(m, n)' /\ MeetOK(n, m)'
    BY <1>1, <1>2, <1>6 DEF Both, MeetOK
  <1>9. /\ OnceOK(m)' /\ OnceOK(n)' /\ LeadOK(m, n)' /\ LeadOK(n, m)'
        /\ \A msg \in Messages : /\ MeansOK(msg, m, n) => MeansOK(msg, m, n)'
                                 /\ MeansOK(msg, n, m) => MeansOK(msg, n, m)'
        /\ net'[m][n] = onNet[m][n] /\ net'[n][m] = onNet[n][m]
    <2>1. CASE ~election[n].electing
      <3>1. ~(Priority[m] > Priority[n])
        BY <1>3, PriorityAssumption
      <3>2. PICK heard \in Nat : heard <= 1 /\ StartElection(n, onNet, FewerOlder(m, n, 1), heard)
        BY <1>6
      <3>3. Begins(n, m, onNet)
        BY <1>1, <1>2, <1>3, <1>6, <2>1, <3>2, BeginsInCalm
      <3> QED
        BY <3>1, <3>3 DEF Begins
    <2>2. CASE election[n].electing
      <3>1. election[n].term = 1
        BY <1>1, <2>2 DEF Both, OnceOK, IsFollower
      <3>2. /\ net' = onNet /\ UNCHANGED <<role, replicating>>
            /\ election' = [election EXCEPT ![n] = [election[n] EXCEPT !.term = 1]]
        BY <1>6, <2>2, <3>1 DEF StartElection
      <3>3. \A p \in Nodes : /\ election'[p].term = election[p].term
                             /\ election'[p].electing = election[p].electing
                             /\ election'[p].handle = election[p].handle
                             /\ election'[p].armed = election[p].armed
        BY <3>1, <3>2 DEF IInv, Typed, Elections
      <3>4. OnceOK(m)' /\ OnceOK(n)'
        BY <1>1, <1>6, <3>2, <3>3 DEF Both, OnceOK, IsLeader, IsFollower
      <3>5. LeadOK(m, n)' /\ LeadOK(n, m)'
        BY <1>1, <1>3, <3>2, <3>3 DEF Both, LeadOK, IsLeader, IsFollower
      <3>6. \A msg \in Messages : /\ MeansOK(msg, m, n) => MeansOK(msg, m, n)'
                                  /\ MeansOK(msg, n, m) => MeansOK(msg, n, m)'
        BY <1>6, <3>2, <3>3 DEF MeansOK, IsLeader
      <3> QED
        BY <3>2, <3>4, <3>5, <3>6
    <2> QED
      BY <2>1, <2>2
  <1>10. MessagesOK(m, n)' /\ MessagesOK(n, m)'
    <2>1. MessagesOK(m, n)'
      BY <1>1, <1>5, <1>9, TailMeans DEF Both
    <2>2. MeansOK(ok, n, m)'
      BY <1>2, <1>4, <1>6 DEF MeansOK
    <2>3. MessagesOK(n, m)'
      BY <1>1, <1>4, <1>5, <1>7, <1>9, <2>2, AppendMeans DEF Both
    <2> QED
      BY <2>1, <2>3
  <1> QED
    BY <1>1, <1>8, <1>9, <1>10 DEF Both

\* Every step that leaves the nodes in calm keeps what is so of the two.
LEMMA CalmStep ==
    ASSUME IInv, DInv, MutualSeeds, [Next]_evars
    PROVE  DInv'
  <1> SUFFICES ASSUME Calm' PROVE Duo'
    BY DEF DInv
  <1>1. ASSUME NEW m \in Nodes, NEW n \in Nodes, Delivery(m, n)
        PROVE  Duo'
    <2>1. PICK i \in DOMAIN net[m][n] : Message(m, n, i) \/ Failure(m, n, i)
      BY <1>1 DEF Delivery
    <2>2. CASE Message(m, n, i)
      BY <2>2, HeartbeatInCalm, JoinInCalm, RosterInCalm, NoneLeavesInCalm,
         ElectionStartInCalm, AnswerInCalm, VictoryInCalm DEF Message
    <2>3. CASE Failure(m, n, i)
      BY <2>3, FailureInCalm
    <2> QED
      BY <2>1, <2>2, <2>3
  <1>2. ASSUME NEW n \in Nodes, NEW m \in Nodes, Detect(n, m)
        PROVE  Duo'
    BY <1>2, NoneSuspectedInCalm DEF Detect
  <1>3. ASSUME NEW n \in Nodes, Heartbeat(n) /\ Quiet
        PROVE  Duo'
    BY <1>3, HeartbeatSentInCalm
  <1>4. ASSUME NEW n \in Nodes, Timeout(n)
        PROVE  Duo'
    BY <1>4, CheckInCalm, TimerInCalm, NoTimeoutInCalm DEF Timeout
  <1>5. ASSUME NEW n \in Nodes, Start(n) \/ Crash(n) \/ Stop(n)
        PROVE  Duo'
    BY <1>5, StartInCalm, NoEndInCalm DEF Crash, Stop
  <1>6. ASSUME NEW n \in Nodes, Operate(n)
        PROVE  Duo'
    <2>1. UNCHANGED <<up, state, role, joining, net, election, late, stops, races>>
      BY <1>6 DEF Operate, PostReplica, DeleteReplica, SetEnabled, Command, Quiet, views
    <2>2. \A p \in Nodes : replicating'[p] = On => replicating[p] = On
      BY <1>6, CommandedOff
    <2> QED
      BY <2>1, <2>2, StillInCalm DEF DInv, Calm
  <1>7. CASE UNCHANGED evars
    BY <1>7, StillInCalm DEF evars, views, counts, DInv, Calm
  <1> QED
    BY <1>1, <1>2, <1>3, <1>4, <1>5, <1>6, <1>7 DEF Next

-----------------------------------------------------------------------------
(* Two nodes that are each other's seed, whatever races with what, until a *)
(* process ends or a message is late.                                      *)

Undisturbed == late = 0 /\ stops = 0

\* The messages under way; some of them are rosters, or one that is was under
\* way already when the timer was set.
Held(m, n) == {net[m][n][i] : i \in DOMAIN net[m][n]}
Welcomed(m, n) == \E msg \in Held(m, n) : msg.type = "roster"
Asks(m, n) == \E msg \in Held(m, n) : msg.type = "join"
WelcomedFirst(m, n) ==
    \E i \in DOMAIN net[m][n] : net[m][n][i].type = "roster" /\ i <= older[n][m]

\* A node that took part in no election
Idle(n) ==
    /\ IsFollower(n) /\ replicating[n] # On
    /\ ~election[n].electing /\ election[n].term = 0

OwnOK(n) ==
    /\ state[n][n] = "alive"
    /\ election[n].electing <=> role[n][n] = "candidate"
    /\ ~up[n] => Idle(n) /\ election[n].armed = {} /\ joining[n] = 0

\* A node that does not know its peer asks to join it, or has its roster under
\* way, behind which its timer does not run out; or nobody was there.
KnowsOK(n, o) ==
    /\ state[n][o] \in {"unknown", "alive"}
    /\ state[n][o] = "alive" => up[n] /\ up[o]
    /\ ~up[n] => net[n][o] = <<>>
    /\ ~up[o] => net[n][o] \in {<<>>, <<Join>>}
    /\ state[n][o] = "unknown" /\ joining[n] # 0 =>
          /\ state[o][n] = "unknown" => Asks(n, o)
          /\ state[o][n] = "alive" => Welcomed(o, n)
          /\ election[n].armed # {} => WelcomedFirst(o, n)
    /\ state[n][o] = "unknown" /\ up[n] /\ joining[n] = 0 =>
          /\ Idle(o) /\ state[o][n] = "unknown" /\ net[n][o] = <<>>
          /\ up[o] => joining[o] # 0

\* What is so of a message from n to o while it is under way
Says(msg, n, o) ==
    /\ msg.type # "leave"
    /\ msg.type = "ok" => up[n] /\ up[o]
    /\ msg.type \notin {"join", "ok"} => state[n][o] = "alive"
    /\ msg.type = "roster" => msg.state[n] = "alive"
    /\ msg.type = "election_start" =>
          Priority[o] > Priority[n] /\ msg.term >= 1 /\ msg.term <= election[n].term
SaysOK(n, o) == \A msg \in Held(n, o) : Says(msg, n, o)

\* n won while it was alone; its peer was never told otherwise.
Presents(msg, n) == \/ msg.type = "heartbeat" /\ msg.role = "leader"
                    \/ msg.type = "roster" /\ msg.role[n] = "leader"
Unrivalled(n, o) ==
    /\ Idle(o)
    /\ state[n][o] = "unknown" => joining[n] = 0
    /\ state[n][o] = "alive" =>
          /\ \A msg \in Held(n, o) : Presents(msg, n)
          /\ state[o][n] = "alive" => role[o][n] = "leader"
          /\ state[o][n] = "unknown" => joining[o] # 0

\* The victory of n in term t is under way to o, or o is beyond it.
Told(n, o, t) ==
    \/ \E msg \in Held(n, o) : msg.type = "victory" /\ msg.term = t
    \/ election[o].term > t
    \/ election[o].term = t /\ ~election[o].electing /\ ~IsLeader(o)

LeadershipTold(n, o) ==
    IsLeader(n) => Told(n, o, election[n].term) \/ Unrivalled(n, o)

\* A leader that elects again, for its peer asked it to, is one term ahead of
\* its victory, or no further than its peer.
Ahead(n, o, t) ==
    t < election[n].term /\ (election[n].term <= t + 1 \/ election[n].term <= election[o].term)
RetreatTold(n, o) ==
    replicating[n] = On /\ ~IsLeader(n) =>
        /\ election[n].electing /\ Priority[n] > Priority[o]
        /\ \E t \in Nat : Told(n, o, t) /\ Ahead(n, o, t)

View(n, o) ==
    OwnOK(n) /\ KnowsOK(n, o) /\ SaysOK(n, o) /\ LeadershipTold(n, o) /\ RetreatTold(n, o)
Couple(n, o) == View(n, o) /\ View(o, n)
RInv == Undisturbed => \A n \in Nodes : \A o \in Nodes \ {n} : View(n, o)

-----------------------------------------------------------------------------
(* Channels.                                                               *)

\* Two sequences, one behind the other
LEMMA Joined ==
    ASSUME NEW S, NEW a \in Seq(S), NEW b \in Seq(S)
    PROVE  /\ DOMAIN (a \o b) = 1..(Len(a) + Len(b))
           /\ \A j \in 1..(Len(a) + Len(b)) :
                  (a \o b)[j] = IF j <= Len(a) THEN a[j] ELSE b[j - Len(a)]
  OBVIOUS

\* What is left of a sequence, and where
LEMMA Removed ==
    ASSUME NEW S, NEW s \in Seq(S), NEW i \in DOMAIN s
    PROVE  /\ DOMAIN RemoveAt(s, i) = 1..(Len(s) - 1)
           /\ \A k \in DOMAIN RemoveAt(s, i) : \E j \in DOMAIN s : RemoveAt(s, i)[k] = s[j]
           /\ \A j \in DOMAIN s : j < i => RemoveAt(s, i)[j] = s[j]
           /\ \A j \in DOMAIN s : j > i => RemoveAt(s, i)[j - 1] = s[j]
  <1> DEFINE a == SubSeq(s, 1, i - 1)
             b == SubSeq(s, i + 1, Len(s))
  <1>1. i \in 1..Len(s) /\ Len(s) \in Nat /\ DOMAIN s = 1..Len(s)
    OBVIOUS
  <1>2. a \in Seq(S) /\ Len(a) = i - 1 /\ \A j \in 1..(i - 1) : a[j] = s[j]
    BY <1>1
  <1>3. b \in Seq(S) /\ Len(b) = Len(s) - i /\ \A j \in 1..(Len(s) - i) : b[j] = s[j + i]
    BY <1>1
  <1> HIDE DEF a, b
  <1>4. /\ DOMAIN (a \o b) = 1..(Len(s) - 1)
        /\ \A j \in 1..(Len(s) - 1) : (a \o b)[j] = IF j <= i - 1 THEN a[j] ELSE b[j - (i - 1)]
    <2>1. Len(a) + Len(b) = Len(s) - 1
      BY <1>1, <1>2, <1>3
    <2>2. /\ DOMAIN (a \o b) = 1..(Len(a) + Len(b))
          /\ \A j \in 1..(Len(a) + Len(b)) :
                 (a \o b)[j] = IF j <= Len(a) THEN a[j] ELSE b[j - Len(a)]
      BY <1>2, <1>3, Joined
    <2> QED
      BY <1>2, <2>1, <2>2
  <1>5. ASSUME NEW j \in 1..(Len(s) - 1)
        PROVE  (a \o b)[j] = IF j < i THEN s[j] ELSE s[j + 1]
    <2>1. CASE j < i
      <3>1. j \in 1..(i - 1) /\ j <= i - 1
        BY <1>1, <2>1
      <3> QED
        BY <1>2, <1>4, <2>1, <3>1
    <2>2. CASE ~(j < i)
      <3>1. j - (i - 1) \in 1..(Len(s) - i) /\ (j - (i - 1)) + i = j + 1 /\ ~(j <= i - 1)
        BY <1>1, <2>2
      <3> QED
        BY <1>3, <1>4, <2>2, <3>1
    <2> QED
      BY <2>1, <2>2
  <1>6. RemoveAt(s, i) = a \o b
    BY DEF RemoveAt, a, b
  <1>7. \A j \in DOMAIN s : j < i => j \in 1..(Len(s) - 1)
    BY <1>1
  <1>8. \A j \in DOMAIN s : j > i => j - 1 \in 1..(Len(s) - 1) /\ ~(j - 1 < i) /\ (j - 1) + 1 = j
    BY <1>1
  <1>9. \A j \in 1..(Len(s) - 1) : j \in DOMAIN s /\ j + 1 \in DOMAIN s
    BY <1>1
  <1> HIDE DEF RemoveAt
  <1> QED
    BY <1>4, <1>5, <1>6, <1>7, <1>8, <1>9

\* A message is taken: the others stay, each at its place or one before.
LEMMA TakesOne ==
    ASSUME IInv, NEW m \in Nodes, NEW n \in Nodes, NEW i \in DOMAIN net[m][n],
           net'[m][n] = RemoveAt(net[m][n], i)
    PROVE  /\ Held(m, n)' \subseteq Held(m, n)
           /\ Held(m, n) \subseteq Held(m, n)' \cup {net[m][n][i]}
           /\ net[m][n] = <<net[m][n][i]>> => net'[m][n] = <<>>
  <1>1. net[m][n] \in Seq(Messages)
    BY DEF IInv, NetOK
  <1>2. /\ DOMAIN net'[m][n] = 1..(Len(net[m][n]) - 1)
        /\ \A k \in DOMAIN net'[m][n] : \E j \in DOMAIN net[m][n] : net'[m][n][k] = net[m][n][j]
        /\ \A j \in DOMAIN net[m][n] : j < i => net'[m][n][j] = net[m][n][j]
        /\ \A j \in DOMAIN net[m][n] : j > i => net'[m][n][j - 1] = net[m][n][j]
    BY <1>1, Removed
  <1>3. /\ DOMAIN net[m][n] = 1..Len(net[m][n]) /\ Len(net[m][n]) \in Nat
        /\ i \in 1..Len(net[m][n])
    BY <1>1
  <1>4. ASSUME NEW j \in DOMAIN net[m][n], j # i
        PROVE  \E k \in DOMAIN net'[m][n] : net'[m][n][k] = net[m][n][j]
    <2>1. CASE j < i
      <3>1. j \in DOMAIN net'[m][n]
        BY <1>2, <1>3, <2>1
      <3> QED
        BY <1>2, <2>1, <3>1
    <2>2. CASE j > i
      <3>1. j - 1 \in DOMAIN net'[m][n]
        BY <1>2, <1>3, <2>2
      <3> QED
        BY <1>2, <2>2, <3>1
    <2> QED
      BY <1>3, <1>4, <2>1, <2>2
  <1>5. ASSUME net[m][n] = <<net[m][n][i]>>
        PROVE  net'[m][n] = <<>>
    <2>1. Len(net[m][n]) = 1
      BY <1>5
    <2>2. net'[m][n] \in Seq(Messages) /\ DOMAIN net'[m][n] = {}
      BY <1>1, <1>2, <2>1, RemoveAtSeq
    <2> QED
      BY <2>2
  <1> QED
    BY <1>2, <1>4, <1>5 DEF Held

\* A roster that came first still does.
LEMMA StillFirst ==
    ASSUME IInv, NEW m \in Nodes, NEW n \in Nodes, NEW i \in DOMAIN net[m][n],
           net'[m][n] = RemoveAt(net[m][n], i), net[m][n][i].type # "roster",
           older' = FewerOlder(m, n, i), WelcomedFirst(m, n)
    PROVE  WelcomedFirst(m, n)'
  <1>1. net[m][n] \in Seq(Messages)
    BY DEF IInv, NetOK
  <1>2. /\ DOMAIN net'[m][n] = 1..(Len(net[m][n]) - 1)
        /\ \A j \in DOMAIN net[m][n] : j < i => net'[m][n][j] = net[m][n][j]
        /\ \A j \in DOMAIN net[m][n] : j > i => net'[m][n][j - 1] = net[m][n][j]
    BY <1>1, Removed
  <1>3. /\ DOMAIN net[m][n] = 1..Len(net[m][n]) /\ Len(net[m][n]) \in Nat
        /\ i \in 1..Len(net[m][n])
    BY <1>1
  <1>4. /\ older[n][m] \in Nat
        /\ older'[n][m] = IF i <= older[n][m] THEN older[n][m] - 1 ELSE older[n][m]
    BY DEF FewerOlder, IInv, Typed
  <1>5. PICK j \in DOMAIN net[m][n] : net[m][n][j].type = "roster" /\ j <= older[n][m]
    BY DEF WelcomedFirst
  <1>6. CASE j < i
    <2>1. j \in DOMAIN net'[m][n] /\ j <= older'[n][m]
      BY <1>2, <1>3, <1>4, <1>5, <1>6
    <2> QED
      BY <1>2, <1>5, <1>6, <2>1 DEF WelcomedFirst
  <1>7. CASE j > i
    <2>1. j - 1 \in DOMAIN net'[m][n] /\ j - 1 <= older'[n][m]
      BY <1>2, <1>3, <1>4, <1>5, <1>7
    <2> QED
      BY <1>2, <1>5, <1>7, <2>1 DEF WelcomedFirst
  <1> QED
    BY <1>3, <1>5, <1>6, <1>7

\* A message is sent.
LEMMA SendsOne ==
    ASSUME IInv, NEW m \in Nodes, NEW n \in Nodes, NEW msg,
           net'[m][n] = Append(net[m][n], msg)
    PROVE  /\ Held(m, n)' = Held(m, n) \cup {msg}
           /\ WelcomedFirst(m, n) /\ older'[n] = older[n] => WelcomedFirst(m, n)'
  <1>1. net[m][n] \in Seq(Messages)
    BY DEF IInv, NetOK
  <1>2. /\ DOMAIN net'[m][n] = DOMAIN net[m][n] \cup {Len(net[m][n]) + 1}
        /\ \A j \in DOMAIN net[m][n] : net'[m][n][j] = net[m][n][j]
        /\ net'[m][n][Len(net[m][n]) + 1] = msg
    BY <1>1
  <1>3. Held(m, n)' = Held(m, n) \cup {msg}
    BY <1>2 DEF Held
  <1>4. WelcomedFirst(m, n) /\ older'[n] = older[n] => WelcomedFirst(m, n)'
    BY <1>2 DEF WelcomedFirst
  <1> QED
    BY <1>3, <1>4

\* A channel stays as it is.
LEMMA SendsNone ==
    ASSUME NEW m \in Nodes, NEW n \in Nodes, net'[m][n] = net[m][n]
    PROVE  /\ Held(m, n)' = Held(m, n)
           /\ WelcomedFirst(m, n) /\ older'[n] = older[n] => WelcomedFirst(m, n)'
  BY DEF Held, WelcomedFirst

-----------------------------------------------------------------------------
(* A step of one of the two.                                               *)

\* The other rests.
Rests(q) ==
    /\ up'[q] = up[q] /\ state'[q] = state[q] /\ role'[q] = role[q]
    /\ joining'[q] = joining[q]
    /\ election'[q] = election[q] /\ replicating'[q] = replicating[q]

\* Whoever is beyond a term stays beyond it.
Onward(p) ==
    /\ election'[p].term >= election[p].term
    /\ election'[p].term = election[p].term =>
          /\ election'[p].electing => election[p].electing
          /\ IsLeader(p)' => IsLeader(p) \/ election[p].electing

VictoriesKept(m, n) == \A msg \in Held(m, n) : msg.type = "victory" => msg \in Held(m, n)'

LEMMA ToldStill ==
    ASSUME Typed, NEW n \in Nodes, NEW o \in Nodes, NEW t \in Nat,
           Told(n, o, t), VictoriesKept(n, o), Onward(o), election'[o].term \in Nat
    PROVE  Told(n, o, t)'
  <1>1. election[o].term \in Nat
    BY DEF Typed, Elections
  <1>2. CASE \E msg \in Held(n, o) : msg.type = "victory" /\ msg.term = t
    BY <1>2 DEF VictoriesKept, Told
  <1>3. CASE election[o].term > t
    BY <1>1, <1>3 DEF Onward, Told
  <1>4. CASE election[o].term = t /\ ~election[o].electing /\ ~IsLeader(o)
    BY <1>1, <1>4 DEF Onward, Told
  <1> QED
    BY <1>2, <1>3, <1>4 DEF Told

\* A message under way still says what it did.
LEMMA SaysStill ==
    ASSUME Typed, NEW n \in Nodes, NEW o \in Nodes,
           up[n] => up'[n], up[o] => up'[o], state[n][o] = "alive" => state'[n][o] = "alive",
           election'[n].term \in Nat, election'[n].term >= election[n].term
    PROVE  \A msg \in Messages : Says(msg, n, o) => Says(msg, n, o)'
  <1> SUFFICES ASSUME NEW msg \in Messages, Says(msg, n, o)
               PROVE  Says(msg, n, o)'
    OBVIOUS
  <1>1. election[n].term \in Nat
    BY DEF Typed, Elections
  <1>2. msg.type = "election_start" => msg.term \in Nat
    BY MessageTypes
  <1> QED
    BY <1>1, <1>2 DEF Says

\* So do all, and one that is sent.
LEMMA SaysMore ==
    ASSUME IInv, NEW n \in Nodes, NEW o \in Nodes, SaysOK(n, o),
           NEW new, Held(n, o)' \subseteq Held(n, o) \cup {new}, Says(new, n, o)',
           \A msg \in Messages : Says(msg, n, o) => Says(msg, n, o)'
    PROVE  SaysOK(n, o)'
  <1>1. Held(n, o) \subseteq Messages
    BY DEF IInv, NetOK, Held
  <1>2. \A msg \in Held(n, o) : Says(msg, n, o)'
    BY <1>1 DEF SaysOK
  <1>3. \A msg \in Held(n, o)' : Says(msg, n, o)'
    BY <1>2
  <1> QED
    BY <1>3 DEF SaysOK

LEMMA SaysLess ==
    ASSUME IInv, NEW n \in Nodes, NEW o \in Nodes, SaysOK(n, o),
           Held(n, o)' \subseteq Held(n, o),
           \A msg \in Messages : Says(msg, n, o) => Says(msg, n, o)'
    PROVE  SaysOK(n, o)'
  <1>1. Held(n, o) \subseteq Messages
    BY DEF IInv, NetOK, Held
  <1> QED
    BY <1>1 DEF SaysOK

\* What the step of one must leave, for the two
LEMMA OneSteps ==
    ASSUME IInv, IInv', NEW p \in Nodes, NEW q \in Nodes, Couple(p, q), Rests(q), Onward(p),
           OwnOK(p)', KnowsOK(p, q)', KnowsOK(q, p)', SaysOK(p, q)', SaysOK(q, p)',
           LeadershipTold(p, q)', RetreatTold(p, q)',
           \A t \in Nat : Told(q, p, t) => Told(q, p, t)',
           IsLeader(q) /\ Unrivalled(q, p) => Unrivalled(q, p)'
    PROVE  Couple(p, q)'
  <1>1. OwnOK(q)'
    BY DEF Couple, View, OwnOK, Rests, Idle, IsFollower
  <1>2. /\ election[q].term \in Nat /\ election[p].term \in Nat
        /\ election'[q].term \in Nat /\ election'[p].term \in Nat
    BY DEF IInv, Typed, Elections
  <1>3. LeadershipTold(q, p)'
    <2> SUFFICES ASSUME IsLeader(q)'
                 PROVE  Told(q, p, election[q].term)' \/ Unrivalled(q, p)'
      BY DEF LeadershipTold
    <2>1. PICK t \in Nat : t = election[q].term /\ t = election'[q].term
      BY <1>2 DEF Rests
    <2>2. Told(q, p, t) \/ Unrivalled(q, p)
      BY <2>1 DEF Couple, View, LeadershipTold, IsLeader, Rests
    <2>3. Told(q, p, t)' => Told(q, p, election[q].term)'
      BY <2>1 DEF Told
    <2> QED
      BY <2>2, <2>3 DEF IsLeader, Rests
  <1>4. RetreatTold(q, p)'
    <2> SUFFICES ASSUME (replicating[q] = On /\ ~IsLeader(q))'
                 PROVE  /\ election'[q].electing /\ Priority[q] > Priority[p]
                        /\ \E t \in Nat : Told(q, p, t)' /\ Ahead(q, p, t)'
      BY DEF RetreatTold
    <2>1. /\ election[q].electing /\ Priority[q] > Priority[p]
          /\ \E t \in Nat : Told(q, p, t) /\ Ahead(q, p, t)
      BY DEF Couple, View, RetreatTold, IsLeader, Rests
    <2>2. PICK t \in Nat : Told(q, p, t) /\ Ahead(q, p, t)
      BY <2>1
    <2>3. Ahead(q, p, t)'
      BY <1>2, <2>2 DEF Ahead, Rests, Onward
    <2> QED
      BY <2>1, <2>2, <2>3 DEF Rests
  <1> QED
    BY <1>1, <1>3, <1>4 DEF Couple, View

\* What a taken message leaves
LEMMA Fewer ==
    ASSUME IInv, NEW m \in Nodes, NEW n \in Nodes, NEW i \in DOMAIN net[m][n],
           net'[m][n] = RemoveAt(net[m][n], i)
    PROVE  /\ Held(m, n)' \subseteq Held(m, n)
           /\ net[m][n][i].type # "roster" /\ Welcomed(m, n) => Welcomed(m, n)'
           /\ net[m][n][i].type # "join" /\ Asks(m, n) => Asks(m, n)'
           /\ net[m][n][i].type # "victory" => VictoriesKept(m, n)
  BY TakesOne DEF Welcomed, Asks, VictoriesKept

\* What a message adds
LEMMA More ==
    ASSUME IInv, NEW m \in Nodes, NEW n \in Nodes, NEW msg,
           net'[m][n] = Append(net[m][n], msg)
    PROVE  /\ Held(m, n)' = Held(m, n) \cup {msg}
           /\ Welcomed(m, n) => Welcomed(m, n)'
           /\ Asks(m, n) => Asks(m, n)'
           /\ VictoriesKept(m, n)
           /\ WelcomedFirst(m, n) /\ older'[n] = older[n] => WelcomedFirst(m, n)'
  <1>1. /\ Held(m, n)' = Held(m, n) \cup {msg}
        /\ WelcomedFirst(m, n) /\ older'[n] = older[n] => WelcomedFirst(m, n)'
    BY SendsOne
  <1> QED
    BY <1>1 DEF Welcomed, Asks, VictoriesKept

LEMMA AsMany ==
    ASSUME NEW m \in Nodes, NEW n \in Nodes, net'[m][n] = net[m][n]
    PROVE  /\ Held(m, n)' = Held(m, n)
           /\ Welcomed(m, n) <=> Welcomed(m, n)'
           /\ Asks(m, n) <=> Asks(m, n)'
           /\ VictoriesKept(m, n)
           /\ WelcomedFirst(m, n) /\ older'[n] = older[n] => WelcomedFirst(m, n)'
  BY SendsNone DEF Welcomed, Asks, VictoriesKept

\* The channels as a message is taken, and as one is sent
LEMMA TakenFrom ==
    ASSUME NetOK(net), NEW m \in Nodes, NEW n \in Nodes, NEW i
    PROVE  \A p, q \in Nodes : Taken(m, n, i)[p][q] =
               IF p = m /\ q = n THEN RemoveAt(net[m][n], i) ELSE net[p][q]
  BY DEF Taken, NetOK

LEMMA SentAlong ==
    ASSUME NEW onNet, NetOK(onNet), NEW n \in Nodes, NEW targets, NEW msg
    PROVE  \A p, q \in Nodes : Sent(onNet, n, targets, msg)[p][q] =
               IF p = n /\ q \in targets THEN Append(onNet[n][q], msg) ELSE onNet[p][q]
  BY DEF Sent, NetOK

-----------------------------------------------------------------------------
(* What follows from the invariant before a step.                          *)

\* The two are the only ones.
LEMMA OfTwo ==
    ASSUME MutualSeeds, NEW m \in Nodes, NEW n \in Nodes, m # n
    PROVE  /\ Nodes = {m, n} /\ Seeds[n] # <<>>
           /\ RInv /\ Undisturbed => Couple(n, m)
           /\ Couple(n, m)' => RInv'
  <1>1. Nodes = {m, n}
    BY TheOther
  <1>2. Seeds[n] # <<>>
    BY DEF MutualSeeds
  <1>3. RInv /\ Undisturbed => Couple(n, m)
    BY DEF RInv, Couple
  <1>4. Couple(n, m)' => RInv'
    BY <1>1 DEF RInv, Couple
  <1> QED
    BY <1>1, <1>2, <1>3, <1>4

\* Nothing was late, and nothing is.
LEMMA NothingLate ==
    ASSUME Typed, NEW lost \in Nat, NEW raced \in Nat, Spends(lost, raced), Undisturbed'
    PROVE  Undisturbed /\ lost = 0
  BY DEF Spends, Typed, Undisturbed

\* The step of a delivery, of any message under way
LEMMA Got ==
    ASSUME IInv, RInv, MutualSeeds, Undisturbed',
           NEW m \in Nodes, NEW n \in Nodes, NEW i, NEW type, Reaches(m, n, i, type)
    PROVE  /\ m # n /\ Nodes = {m, n} /\ up[m] /\ up[n] /\ i \in DOMAIN net[m][n]
           /\ net[m][n][i] \in Messages /\ net[m][n][i] \in Held(m, n)
           /\ net[m][n][i].type = type /\ Says(net[m][n][i], m, n)
           /\ Couple(n, m)
           /\ Couple(n, m)' => RInv'
  <1>1. /\ m # n /\ i \in DOMAIN net[m][n]
        /\ net[m][n][i] \in Messages /\ net[m][n][i].type = type /\ up[n]
    BY ReachesOK DEF Reaches
  <1>2. Undisturbed
    <2>1. PICK raced \in Nat : Spends(0, raced)
      BY DEF Reaches, Race
    <2> QED
      BY <2>1, NothingLate DEF IInv
  <1>3. Couple(n, m) /\ Nodes = {m, n} /\ (Couple(n, m)' => RInv')
    BY <1>1, <1>2, OfTwo
  <1>4. net[m][n][i] \in Held(m, n)
    BY <1>1 DEF Held
  <1>5. Says(net[m][n][i], m, n)
    BY <1>3, <1>4 DEF Couple, View, SaysOK
  <1>6. up[m]
    <2>1. net[m][n] # <<>>
      BY <1>1
    <2> QED
      BY <1>3, <2>1 DEF Couple, View, KnowsOK
  <1> QED
    BY <1>1, <1>3, <1>4, <1>5, <1>6

\* The leadership of one that goes on
LEMMA LeadershipStill ==
    ASSUME IInv, IInv', NEW p \in Nodes, NEW q \in Nodes, Couple(p, q), Rests(q),
           VictoriesKept(p, q),
           IsLeader(p)' => IsLeader(p), election'[p].term = election[p].term,
           IsLeader(p) /\ Unrivalled(p, q) => Unrivalled(p, q)'
    PROVE  LeadershipTold(p, q)'
  <1> SUFFICES ASSUME IsLeader(p)'
               PROVE  Told(p, q, election[p].term)' \/ Unrivalled(p, q)'
    BY DEF LeadershipTold
  <1>1. PICK t \in Nat : t = election[p].term /\ t = election'[p].term
    BY DEF IInv, Typed, Elections
  <1>2. Told(p, q, t) \/ Unrivalled(p, q)
    BY <1>1 DEF Couple, View, LeadershipTold
  <1>3. Onward(q) /\ election'[q].term \in Nat
    BY DEF Onward, Rests, IInv, Typed, Elections, IsLeader
  <1>4. Told(p, q, t) => Told(p, q, t)'
    BY <1>3, ToldStill DEF IInv
  <1>5. Told(p, q, t)' => Told(p, q, election[p].term)'
    BY <1>1 DEF Told
  <1> QED
    BY <1>2, <1>4, <1>5

\* The retreat of one that goes on
LEMMA RetreatStill ==
    ASSUME IInv, IInv', NEW p \in Nodes, NEW q \in Nodes, Couple(p, q), Rests(q),
           VictoriesKept(p, q),
           replicating'[p] = On => replicating[p] = On, IsLeader(p) => IsLeader(p)',
           election'[p].term = election[p].term, election'[p].electing = election[p].electing
    PROVE  RetreatTold(p, q)'
  <1> SUFFICES ASSUME (replicating[p] = On /\ ~IsLeader(p))'
               PROVE  /\ election'[p].electing /\ Priority[p] > Priority[q]
                      /\ \E t \in Nat : Told(p, q, t)' /\ Ahead(p, q, t)'
    BY DEF RetreatTold
  <1>1. /\ election[p].electing /\ Priority[p] > Priority[q]
        /\ \E t \in Nat : Told(p, q, t) /\ Ahead(p, q, t)
    BY DEF Couple, View, RetreatTold
  <1>2. PICK t \in Nat : Told(p, q, t) /\ Ahead(p, q, t)
    BY <1>1
  <1>3. Onward(q) /\ election'[q].term \in Nat
    BY DEF Onward, Rests, IInv, Typed, Elections, IsLeader
  <1>4. Told(p, q, t)'
    BY <1>2, <1>3, ToldStill DEF IInv
  <1>5. Ahead(p, q, t)'
    BY <1>2 DEF Ahead, Rests
  <1> QED
    BY <1>1, <1>4, <1>5

-----------------------------------------------------------------------------
(* The messages.                                                           *)

LEMMA HeartbeatHeard ==
    ASSUME IInv, IInv', RInv, MutualSeeds, Undisturbed',
           NEW m \in Nodes, NEW n \in Nodes, NEW i, HandleHeartbeat(m, n, i), Quiet
    PROVE  RInv'
  <1>1. /\ m # n /\ up[m] /\ up[n] /\ i \in DOMAIN net[m][n]
        /\ net[m][n][i] \in Messages /\ net[m][n][i] \in Held(m, n)
        /\ net[m][n][i].type = "heartbeat" /\ Says(net[m][n][i], m, n)
        /\ Couple(n, m)
        /\ Couple(n, m)' => RInv'
    BY Got DEF HandleHeartbeat, Arrives
  <1>2. /\ OwnOK(n) /\ KnowsOK(n, m) /\ SaysOK(n, m)
        /\ OwnOK(m) /\ KnowsOK(m, n) /\ SaysOK(m, n)
    BY <1>1 DEF Couple, View
  <1>3. state[m][n] = "alive" /\ state[n][m] \in {"unknown", "alive"}
    BY <1>1, <1>2 DEF Says, KnowsOK
  <1>4. /\ net' = Taken(m, n, i) /\ older' = FewerOlder(m, n, i)
        /\ UNCHANGED <<up, joining, election, replicating>>
        /\ state' = [state EXCEPT ![n][m] = "alive"]
        /\ role' = [role EXCEPT ![n][m] = net[m][n][i].role]
    BY <1>3 DEF HandleHeartbeat, Quiet, Arrives
  <1>5. /\ state'[m] = state[m] /\ state'[n][n] = state[n][n] /\ state'[n][m] = "alive"
        /\ role'[m] = role[m] /\ role'[n][n] = role[n][n] /\ role'[n][m] = net[m][n][i].role
        /\ older'[m] = older[m]
    BY <1>1, <1>4 DEF IInv, Typed, FewerOlder
  <1>6. net'[m][n] = RemoveAt(net[m][n], i) /\ net'[n][m] = net[n][m]
    BY <1>1, <1>4, TakenFrom DEF IInv
  <1>7. /\ Held(m, n)' \subseteq Held(m, n) /\ VictoriesKept(m, n)
        /\ Held(n, m)' = Held(n, m) /\ VictoriesKept(n, m)
    BY <1>1, <1>6, Fewer, AsMany
  <1>8. election[n].term \in Nat /\ election[m].term \in Nat
    BY DEF IInv, Typed, Elections
  <1>9. Rests(m) /\ Onward(n)
    BY <1>4, <1>5, <1>8 DEF Rests, Onward, IsLeader
  <1>10. OwnOK(n)'
    BY <1>2, <1>4, <1>5 DEF OwnOK, Idle, IsFollower
  <1>11. KnowsOK(n, m)' /\ KnowsOK(m, n)'
    BY <1>1, <1>3, <1>4, <1>5 DEF KnowsOK
  <1>12. SaysOK(n, m)' /\ SaysOK(m, n)'
    <2>1. \A msg \in Messages : /\ Says(msg, n, m) => Says(msg, n, m)'
                                /\ Says(msg, m, n) => Says(msg, m, n)'
      BY <1>3, <1>4, <1>5, <1>8, SaysStill DEF IInv
    <2> QED
      BY <1>2, <1>7, <2>1, SaysLess
  <1>13. LeadershipTold(n, m)'
    <2>1. Unrivalled(n, m) => Unrivalled(n, m)'
      BY <1>2, <1>3, <1>1, <1>4, <1>5, <1>7 DEF Unrivalled, KnowsOK, Presents, Idle, IsFollower
    <2> QED
      BY <1>1, <1>4, <1>5, <1>7, <1>9, <2>1, LeadershipStill DEF IsLeader
  <1>14. RetreatTold(n, m)'
    BY <1>1, <1>4, <1>5, <1>7, <1>9, RetreatStill DEF IsLeader
  <1>15. \A t \in Nat : Told(m, n, t) => Told(m, n, t)'
    BY <1>4, <1>7, <1>8, <1>9, ToldStill DEF IInv
  <1>16. Unrivalled(m, n) => Unrivalled(m, n)'
    <2>1. Unrivalled(m, n) => Presents(net[m][n][i], m)
      BY <1>1, <1>3 DEF Unrivalled
    <2>2. Unrivalled(m, n) => net[m][n][i].role = "leader"
      BY <1>1, <2>1 DEF Presents
    <2> QED
      BY <1>3, <1>4, <1>5, <1>7, <2>2 DEF Unrivalled, Presents, Idle, IsFollower
  <1>17. Couple(n, m)'
    BY <1>1, <1>9, <1>10, <1>11, <1>12, <1>13, <1>14, <1>15, <1>16, OneSteps
  <1> QED
    BY <1>1, <1>17

LEMMA JoinHeard ==
    ASSUME IInv, IInv', RInv, MutualSeeds, Undisturbed',
           NEW m \in Nodes, NEW n \in Nodes, NEW i, HandleJoinRequest(m, n, i), Quiet
    PROVE  RInv'
  <1>0. PICK welcome : welcome = [type |-> "roster", state |-> state'[n], role |-> role'[n]]
    OBVIOUS
  <1>1. /\ m # n /\ up[m] /\ up[n] /\ i \in DOMAIN net[m][n]
        /\ net[m][n][i] \in Messages /\ net[m][n][i] \in Held(m, n)
        /\ net[m][n][i].type = "join"
        /\ Couple(n, m)
        /\ Couple(n, m)' => RInv'
    BY Got DEF HandleJoinRequest, Arrives
  <1>2. /\ OwnOK(n) /\ KnowsOK(n, m) /\ SaysOK(n, m)
        /\ OwnOK(m) /\ KnowsOK(m, n) /\ SaysOK(m, n)
    BY <1>1 DEF Couple, View
  <1>3. /\ net' = Sent(Taken(m, n, i), n, {m}, welcome) /\ older' = FewerOlder(m, n, i)
        /\ UNCHANGED <<up, joining, election, replicating>>
        /\ state' = [state EXCEPT ![n][m] = "alive"]
        /\ role' = [role EXCEPT ![n][m] = "follower"]
    BY <1>0 DEF HandleJoinRequest, Quiet, Arrives
  <1>4. /\ state'[m] = state[m] /\ state'[n][n] = state[n][n] /\ state'[n][m] = "alive"
        /\ role'[m] = role[m] /\ role'[n][n] = role[n][n] /\ role'[n][m] = "follower"
        /\ older'[m] = older[m]
    BY <1>1, <1>3 DEF IInv, Typed, FewerOlder
  <1>5. /\ welcome.type = "roster" /\ welcome.state[n] = "alive"
        /\ welcome.role[n] = role[n][n]
    BY <1>0, <1>2, <1>4 DEF OwnOK
  <1>6. net'[m][n] = RemoveAt(net[m][n], i) /\ net'[n][m] = Append(net[n][m], welcome)
    <2>1. NetOK(Taken(m, n, i))
      BY <1>1, TakenOK DEF IInv
    <2>2. /\ Taken(m, n, i)[m][n] = RemoveAt(net[m][n], i)
          /\ Taken(m, n, i)[n][m] = net[n][m]
      BY <1>1, TakenFrom DEF IInv
    <2>3. \A p, q \in Nodes : Sent(Taken(m, n, i), n, {m}, welcome)[p][q] =
              IF p = n /\ q \in {m} THEN Append(Taken(m, n, i)[n][q], welcome)
              ELSE Taken(m, n, i)[p][q]
      BY <2>1, SentAlong
    <2> QED
      BY <1>1, <1>3, <2>2, <2>3
  <1>7. /\ Held(m, n)' \subseteq Held(m, n) /\ VictoriesKept(m, n)
        /\ Held(n, m)' = Held(n, m) \cup {welcome} /\ VictoriesKept(n, m)
        /\ WelcomedFirst(n, m) => WelcomedFirst(n, m)'
    BY <1>1, <1>4, <1>6, Fewer, More
  <1>8. election[n].term \in Nat /\ election[m].term \in Nat
    BY DEF IInv, Typed, Elections
  <1>9. Rests(m) /\ Onward(n)
    BY <1>3, <1>4, <1>8 DEF Rests, Onward, IsLeader
  <1>10. OwnOK(n)'
    BY <1>2, <1>3, <1>4 DEF OwnOK, Idle, IsFollower
  <1>11. /\ state[m][n] \in {"unknown", "alive"}
         /\ state[m][n] = "unknown" => joining[m] # 0
    <2>1. net[m][n] # <<>>
      BY <1>1
    <2> QED
      BY <1>1, <1>2, <2>1 DEF KnowsOK
  <1>12. KnowsOK(n, m)' /\ KnowsOK(m, n)'
    <2>1. Welcomed(n, m)'
      BY <1>5, <1>7 DEF Welcomed
    <2>2. KnowsOK(n, m)'
      BY <1>1, <1>3, <1>4 DEF KnowsOK
    <2>3. state[m][n] = "unknown" /\ election[m].armed # {} => WelcomedFirst(n, m)
      BY <1>2, <1>11 DEF KnowsOK
    <2>4. KnowsOK(m, n)'
      BY <1>1, <1>3, <1>4, <1>7, <1>11, <2>1, <2>3 DEF KnowsOK
    <2> QED
      BY <2>2, <2>4
  <1>13. SaysOK(n, m)' /\ SaysOK(m, n)'
    <2>1. \A msg \in Messages : /\ Says(msg, n, m) => Says(msg, n, m)'
                                /\ Says(msg, m, n) => Says(msg, m, n)'
      BY <1>3, <1>4, <1>8, SaysStill DEF IInv
    <2>2. Says(welcome, n, m)'
      BY <1>4, <1>5 DEF Says
    <2>3. Held(n, m)' \subseteq Held(n, m) \cup {welcome}
      BY <1>7
    <2>4. SaysOK(n, m)'
      BY <1>2, <2>1, <2>2, <2>3, SaysMore
    <2> QED
      BY <1>2, <1>7, <2>1, <2>4, SaysLess
  <1>14. LeadershipTold(n, m)'
    <2>1. IsLeader(n) /\ Unrivalled(n, m) => Unrivalled(n, m)'
      <3> SUFFICES ASSUME IsLeader(n), Unrivalled(n, m)
                   PROVE  Unrivalled(n, m)'
        OBVIOUS
      <3>1. Presents(welcome, n)
        BY <1>4, <1>5 DEF Presents, IsLeader
      <3>2. state[n][m] = "unknown" => Held(n, m) = {} /\ state[m][n] = "unknown"
        <4>1. state[n][m] = "unknown" => net[n][m] = <<>> /\ state[m][n] = "unknown"
          BY <1>1, <1>2 DEF Unrivalled, KnowsOK
        <4> QED
          BY <4>1 DEF Held
      <3>3. state[n][m] \in {"unknown", "alive"}
        BY <1>2 DEF KnowsOK
      <3>4. \A msg \in Held(n, m)' : Presents(msg, n)
        BY <1>7, <3>1, <3>2, <3>3 DEF Unrivalled
      <3>5. Idle(m)'
        BY <1>3, <1>4 DEF Unrivalled, Idle, IsFollower
      <3>6. (state[m][n] = "alive" => role[m][n] = "leader")'
        BY <1>4, <3>2, <3>3 DEF Unrivalled
      <3> QED
        BY <1>3, <1>4, <1>11, <3>4, <3>5, <3>6 DEF Unrivalled
    <2> QED
      BY <1>1, <1>3, <1>4, <1>7, <1>9, <2>1, LeadershipStill DEF IsLeader
  <1>15. RetreatTold(n, m)'
    BY <1>1, <1>3, <1>4, <1>7, <1>9, RetreatStill DEF IsLeader
  <1>16. \A t \in Nat : Told(m, n, t) => Told(m, n, t)'
    BY <1>3, <1>7, <1>8, <1>9, ToldStill DEF IInv
  <1>17. ~Unrivalled(m, n)
    BY <1>1, <1>11 DEF Unrivalled, Presents
  <1>18. Couple(n, m)'
    BY <1>1, <1>9, <1>10, <1>12, <1>13, <1>14, <1>15, <1>16, <1>17, OneSteps
  <1> QED
    BY <1>1, <1>18

LEMMA RosterHeard ==
    ASSUME IInv, IInv', RInv, MutualSeeds, Undisturbed',
           NEW m \in Nodes, NEW n \in Nodes, NEW i, MergeRoster(m, n, i), Quiet
    PROVE  RInv'
  <1>1. /\ m # n /\ up[m] /\ up[n] /\ i \in DOMAIN net[m][n]
        /\ net[m][n][i] \in Messages /\ net[m][n][i] \in Held(m, n)
        /\ net[m][n][i].type = "roster" /\ Says(net[m][n][i], m, n)
        /\ Couple(n, m)
        /\ Couple(n, m)' => RInv'
    BY Got DEF MergeRoster, Arrives
  <1>2. /\ OwnOK(n) /\ KnowsOK(n, m) /\ SaysOK(n, m)
        /\ OwnOK(m) /\ KnowsOK(m, n) /\ SaysOK(m, n)
    BY <1>1 DEF Couple, View
  <1>3. /\ state[m][n] = "alive" /\ state[n][m] \in {"unknown", "alive"}
        /\ net[m][n][i].state[m] = "alive" /\ state[n][n] = "alive"
    BY <1>1, <1>2 DEF Says, KnowsOK, OwnOK
  <1>4. /\ net' = Taken(m, n, i) /\ older' = FewerOlder(m, n, i)
        /\ UNCHANGED <<up, election, replicating>>
        /\ joining' = [joining EXCEPT ![n] = 0]
    BY DEF MergeRoster, Quiet, Arrives
  <1>5. /\ state'[m] = state[m] /\ state'[n][n] = state[n][n] /\ state'[n][m] = "alive"
        /\ role'[m] = role[m] /\ role'[n][n] = role[n][n]
        /\ role'[n][m] = IF state[n][m] = "unknown" THEN net[m][n][i].role[m] ELSE role[n][m]
        /\ joining'[m] = joining[m] /\ joining'[n] = 0 /\ older'[m] = older[m]
    <2>1. /\ state' = [state EXCEPT ![n] = [p \in Nodes |->
                 IF state[n][p] = "unknown" THEN net[m][n][i].state[p] ELSE @[p]]]
          /\ role' = [role EXCEPT ![n] = [p \in Nodes |->
                 IF state[n][p] = "unknown" THEN net[m][n][i].role[p] ELSE @[p]]]
      BY DEF MergeRoster
    <2>2. /\ state \in [Nodes -> [Nodes -> States]] /\ role \in [Nodes -> [Nodes -> Roles]]
          /\ joining \in [Nodes -> Nat] /\ older \in [Nodes -> [Nodes -> Nat]]
      BY DEF IInv, Typed
    <2>3. state'[m] = state[m] /\ state'[n][n] = state[n][n] /\ state'[n][m] = "alive"
      BY <1>1, <1>3, <2>1, <2>2
    <2>4. /\ role'[m] = role[m] /\ role'[n][n] = role[n][n]
          /\ role'[n][m] = IF state[n][m] = "unknown" THEN net[m][n][i].role[m] ELSE role[n][m]
      BY <1>1, <1>3, <2>1, <2>2
    <2>5. joining'[m] = joining[m] /\ joining'[n] = 0 /\ older'[m] = older[m]
      BY <1>1, <1>4, <2>2 DEF FewerOlder
    <2> QED
      BY <2>3, <2>4, <2>5
  <1>6. net'[m][n] = RemoveAt(net[m][n], i) /\ net'[n][m] = net[n][m]
    BY <1>1, <1>4, TakenFrom DEF IInv
  <1>7. /\ Held(m, n)' \subseteq Held(m, n) /\ VictoriesKept(m, n)
        /\ Held(n, m)' = Held(n, m) /\ VictoriesKept(n, m)
    BY <1>1, <1>6, Fewer, AsMany
  <1>8. election[n].term \in Nat /\ election[m].term \in Nat
    BY DEF IInv, Typed, Elections
  <1>9. Rests(m) /\ Onward(n)
    BY <1>4, <1>5, <1>8 DEF Rests, Onward, IsLeader
  <1>10. OwnOK(n)'
    BY <1>1, <1>2, <1>4, <1>5 DEF OwnOK, Idle, IsFollower
  <1>11. KnowsOK(n, m)' /\ KnowsOK(m, n)'
    BY <1>1, <1>3, <1>4, <1>5 DEF KnowsOK
  <1>12. SaysOK(n, m)' /\ SaysOK(m, n)'
    <2>1. \A msg \in Messages : /\ Says(msg, n, m) => Says(msg, n, m)'
                                /\ Says(msg, m, n) => Says(msg, m, n)'
      BY <1>3, <1>4, <1>5, <1>8, SaysStill DEF IInv
    <2> QED
      BY <1>2, <1>7, <2>1, SaysLess
  <1>13. LeadershipTold(n, m)'
    <2>1. Unrivalled(n, m) => Unrivalled(n, m)'
      BY <1>2, <1>3, <1>1, <1>4, <1>5, <1>7 DEF Unrivalled, KnowsOK, Presents, Idle, IsFollower
    <2> QED
      BY <1>1, <1>4, <1>5, <1>7, <1>9, <2>1, LeadershipStill DEF IsLeader
  <1>14. RetreatTold(n, m)'
    BY <1>1, <1>4, <1>5, <1>7, <1>9, RetreatStill DEF IsLeader
  <1>15. \A t \in Nat : Told(m, n, t) => Told(m, n, t)'
    BY <1>4, <1>7, <1>8, <1>9, ToldStill DEF IInv
  <1>16. Unrivalled(m, n) => Unrivalled(m, n)'
    <2>1. Unrivalled(m, n) => Presents(net[m][n][i], m)
      BY <1>1, <1>3 DEF Unrivalled
    <2>2. Unrivalled(m, n) => net[m][n][i].role[m] = "leader"
      BY <1>1, <2>1 DEF Presents
    <2> QED
      BY <1>3, <1>4, <1>5, <1>7, <2>2 DEF Unrivalled, Presents, Idle, IsFollower
  <1>17. Couple(n, m)'
    BY <1>1, <1>9, <1>10, <1>11, <1>12, <1>13, <1>14, <1>15, <1>16, OneSteps
  <1> QED
    BY <1>1, <1>17

LEMMA AnswerHeard ==
    ASSUME IInv, IInv', RInv, MutualSeeds, Undisturbed',
           NEW m \in Nodes, NEW n \in Nodes, NEW i, ElectionAnswered(m, n, i)
    PROVE  RInv'
  <1>1. /\ m # n /\ up[m] /\ up[n] /\ i \in DOMAIN net[m][n]
        /\ net[m][n][i] \in Messages /\ net[m][n][i] \in Held(m, n)
        /\ net[m][n][i].type = "ok"
        /\ Couple(n, m)
        /\ Couple(n, m)' => RInv'
    BY Got DEF ElectionAnswered, Arrives
  <1>2. /\ OwnOK(n) /\ KnowsOK(n, m) /\ SaysOK(n, m)
        /\ OwnOK(m) /\ KnowsOK(m, n) /\ SaysOK(m, n)
    BY <1>1 DEF Couple, View
  <1>3. /\ net' = Taken(m, n, i) /\ older' = FewerOlder(m, n, i)
        /\ UNCHANGED <<up, state, joining, role, replicating>>
        /\ election'[m] = election[m]
        /\ election'[n].term = election[n].term /\ election'[n].electing = election[n].electing
        /\ election'[n].armed = election[n].armed
    BY <1>1, SettleAnswered DEF ElectionAnswered, Arrives
  <1>4. older'[m] = older[m]
    BY <1>1, <1>3 DEF IInv, Typed, FewerOlder
  <1>5. net'[m][n] = RemoveAt(net[m][n], i) /\ net'[n][m] = net[n][m]
    BY <1>1, <1>3, TakenFrom DEF IInv
  <1>6. /\ Held(m, n)' \subseteq Held(m, n) /\ VictoriesKept(m, n)
        /\ Welcomed(m, n) => Welcomed(m, n)'
        /\ Asks(m, n) => Asks(m, n)'
        /\ WelcomedFirst(m, n) => WelcomedFirst(m, n)'
    BY <1>1, <1>3, <1>5, Fewer, StillFirst
  <1>7. /\ Held(n, m)' = Held(n, m) /\ VictoriesKept(n, m)
        /\ Welcomed(n, m) => Welcomed(n, m)'
        /\ Asks(n, m) => Asks(n, m)'
        /\ WelcomedFirst(n, m) => WelcomedFirst(n, m)'
    BY <1>1, <1>4, <1>5, AsMany
  <1>8. election[n].term \in Nat /\ election[m].term \in Nat
    BY DEF IInv, Typed, Elections
  <1>9. Rests(m) /\ Onward(n)
    BY <1>3, <1>4, <1>8 DEF Rests, Onward, IsLeader
  <1>10. OwnOK(n)'
    BY <1>2, <1>3 DEF OwnOK, Idle, IsFollower
  <1>11. KnowsOK(n, m)'
    BY <1>1, <1>2, <1>3, <1>5, <1>6, <1>7 DEF KnowsOK, Idle, IsFollower
  <1>12. KnowsOK(m, n)'
    <2>1. net[m][n] # <<>>
      BY <1>1
    <2> QED
      BY <1>1, <1>2, <1>3, <1>5, <1>6, <1>7, <2>1 DEF KnowsOK, Idle, IsFollower
  <1>13. SaysOK(n, m)' /\ SaysOK(m, n)'
    <2>1. \A msg \in Messages : /\ Says(msg, n, m) => Says(msg, n, m)'
                                /\ Says(msg, m, n) => Says(msg, m, n)'
      BY <1>3, <1>8, SaysStill DEF IInv
    <2> QED
      BY <1>2, <1>6, <1>7, <2>1, SaysLess
  <1>14. LeadershipTold(n, m)'
    <2>1. Unrivalled(n, m) => Unrivalled(n, m)'
      BY <1>3, <1>7 DEF Unrivalled, Presents, Idle, IsFollower
    <2> QED
      BY <1>1, <1>3, <1>7, <1>9, <2>1, LeadershipStill DEF IsLeader
  <1>15. RetreatTold(n, m)'
    BY <1>1, <1>3, <1>7, <1>9, RetreatStill DEF IsLeader
  <1>16. \A t \in Nat : Told(m, n, t) => Told(m, n, t)'
    BY <1>3, <1>6, <1>8, <1>9, ToldStill DEF IInv
  <1>17. Unrivalled(m, n) => Unrivalled(m, n)'
    BY <1>3, <1>6 DEF Unrivalled, Presents, Idle, IsFollower
  <1>18. Couple(n, m)'
    BY <1>1, <1>9, <1>10, <1>11, <1>12, <1>13, <1>14, <1>15, <1>16, <1>17, OneSteps
  <1> QED
    BY <1>1, <1>18

LEMMA VictoryHeard ==
    ASSUME IInv, IInv', RInv, MutualSeeds, Undisturbed',
           NEW m \in Nodes, NEW n \in Nodes, NEW i, HandleVictory(m, n, i)
    PROVE  RInv'
  <1>1. /\ m # n /\ up[m] /\ up[n] /\ i \in DOMAIN net[m][n]
        /\ net[m][n][i] \in Messages /\ net[m][n][i] \in Held(m, n)
        /\ net[m][n][i].type = "victory" /\ Says(net[m][n][i], m, n)
        /\ Couple(n, m)
        /\ Couple(n, m)' => RInv'
    BY Got DEF HandleVictory, Arrives
  <1>2. /\ OwnOK(n) /\ KnowsOK(n, m) /\ SaysOK(n, m)
        /\ OwnOK(m) /\ KnowsOK(m, n) /\ SaysOK(m, n)
    BY <1>1 DEF Couple, View
  <1>3. state[m][n] = "alive"
    BY <1>1 DEF Says
  <1>4. net' = Taken(m, n, i) /\ older' = FewerOlder(m, n, i) /\ UNCHANGED <<up, state, joining>>
    BY DEF HandleVictory, Arrives
  <1>5. PICK t \in Nat : t = net[m][n][i].term
    BY <1>1, MessageTypes
  <1>6. /\ election[n].term \in Nat /\ election[m].term \in Nat
        /\ election \in [Nodes -> Elections] /\ replicating \in [Nodes -> Switches]
        /\ role \in [Nodes -> [Nodes -> Roles]]
    BY DEF IInv, Typed, Elections, Switches
  <1>7. older'[m] = older[m]
    BY <1>1, <1>4 DEF IInv, Typed, FewerOlder
  <1>8. \/ /\ t >= election[n].term /\ election'[n].term = t /\ ~election'[n].electing
           /\ election'[n].armed \subseteq election[n].armed /\ election'[m] = election[m]
           /\ role'[n][n] = "follower" /\ role'[m] = role[m]
           /\ replicating'[n] = Off /\ replicating'[m] = replicating[m]
        \/ t < election[n].term /\ UNCHANGED <<role, election, replicating>>
    <2>1. CASE t >= election[n].term
      <3>1. /\ election' = [election EXCEPT ![n] = Accepted(@, t)]
            /\ Follow(m, n)
        BY <1>5, <2>1 DEF HandleVictory
      <3>2. /\ Accepted(election[n], t).term = t /\ ~Accepted(election[n], t).electing
            /\ Accepted(election[n], t).armed \subseteq election[n].armed
        BY <1>6 DEF Accepted, Elections
      <3>3. /\ election'[n].term = t /\ ~election'[n].electing
            /\ election'[n].armed \subseteq election[n].armed /\ election'[m] = election[m]
        BY <1>1, <1>6, <3>1, <3>2
      <3>4. role'[n][n] = "follower" /\ role'[m] = role[m]
        BY <1>1, <1>6, <3>1 DEF Follow
      <3>5. replicating'[n] = Off /\ replicating'[m] = replicating[m]
        BY <1>1, <1>6, <3>1 DEF Follow
      <3> QED
        BY <2>1, <3>3, <3>4, <3>5
    <2>2. CASE ~(t >= election[n].term)
      BY <1>5, <1>6, <2>2 DEF HandleVictory
    <2> QED
      BY <2>1, <2>2
  <1>9. net'[m][n] = RemoveAt(net[m][n], i) /\ net'[n][m] = net[n][m]
    BY <1>1, <1>4, TakenFrom DEF IInv
  <1>10. /\ Held(m, n)' \subseteq Held(m, n)
         /\ Held(m, n) \subseteq Held(m, n)' \cup {net[m][n][i]}
         /\ Welcomed(m, n) => Welcomed(m, n)'
         /\ WelcomedFirst(m, n) => WelcomedFirst(m, n)'
    BY <1>1, <1>4, <1>9, Fewer, TakesOne, StillFirst
  <1>11. Held(n, m)' = Held(n, m) /\ VictoriesKept(n, m)
    BY <1>1, <1>9, AsMany
  <1>12. Rests(m) /\ Onward(n)
    BY <1>4, <1>6, <1>7, <1>8 DEF Rests, Onward, IsLeader
  <1>13. OwnOK(n)'
    BY <1>1, <1>2, <1>4, <1>8 DEF OwnOK
  <1>14. KnowsOK(n, m)' /\ KnowsOK(m, n)'
    <2>1. KnowsOK(n, m)'
      BY <1>1, <1>2, <1>3, <1>4, <1>8, <1>10 DEF KnowsOK
    <2>2. KnowsOK(m, n)'
      BY <1>1, <1>3, <1>4 DEF KnowsOK
    <2> QED
      BY <2>1, <2>2
  <1>15. SaysOK(n, m)' /\ SaysOK(m, n)'
    <2>1. /\ election'[n].term \in Nat /\ election'[n].term >= election[n].term
          /\ election'[m].term \in Nat /\ election'[m].term >= election[m].term
      BY <1>6, <1>8
    <2>2. \A msg \in Messages : /\ Says(msg, n, m) => Says(msg, n, m)'
                                /\ Says(msg, m, n) => Says(msg, m, n)'
      BY <1>4, <2>1, SaysStill DEF IInv
    <2> QED
      BY <1>2, <1>10, <1>11, <2>2, SaysLess
  <1>16. LeadershipTold(n, m)' /\ RetreatTold(n, m)'
    <2>1. CASE ~IsLeader(n)' /\ replicating'[n] = Off
      BY <2>1 DEF LeadershipTold, RetreatTold, On, Off
    <2>2. CASE UNCHANGED <<role, election, replicating>>
      <3>1. Unrivalled(n, m) => Unrivalled(n, m)'
        BY <1>4, <1>11, <2>2 DEF Unrivalled, Presents, Idle, IsFollower
      <3>2. LeadershipTold(n, m)'
        BY <1>1, <1>11, <1>12, <2>2, <3>1, LeadershipStill DEF IsLeader
      <3>3. RetreatTold(n, m)'
        BY <1>1, <1>11, <1>12, <2>2, RetreatStill DEF IsLeader
      <3> QED
        BY <3>2, <3>3
    <2> QED
      BY <1>8, <2>1, <2>2 DEF IsLeader
  <1>17. ASSUME NEW s \in Nat, Told(m, n, s)
         PROVE  Told(m, n, s)'
    <2>1. CASE \E msg \in Held(m, n)' : msg.type = "victory" /\ msg.term = s
      BY <2>1 DEF Told
    <2>2. CASE s = t
      BY <1>6, <1>8, <2>2 DEF Told, IsLeader
    <2>3. CASE election[n].term > s
      <3>1. election'[n].term > s
        BY <1>6, <1>8, <2>3
      <3> QED
        BY <3>1 DEF Told
    <2>4. CASE election[n].term = s /\ ~election[n].electing /\ ~IsLeader(n)
      <3>1. CASE t >= election[n].term
        <4>1. election'[n].term = t /\ ~election'[n].electing /\ role'[n][n] = "follower"
          BY <1>5, <1>6, <1>8, <3>1
        <4>2. t >= s
          BY <2>4, <3>1
        <4>3. t > s \/ t = s
          BY <4>2
        <4> QED
          BY <4>1, <4>3 DEF Told, IsLeader
      <3>2. CASE ~(t >= election[n].term)
        <4>1. UNCHANGED <<role, election>>
          BY <1>8, <3>2
        <4> QED
          BY <2>4, <4>1 DEF Told, IsLeader
      <3> QED
        BY <3>1, <3>2
    <2> QED
      BY <1>5, <1>10, <1>17, <2>1, <2>2, <2>3, <2>4 DEF Told
  <1>18. ~Unrivalled(m, n)
    BY <1>1, <1>3 DEF Unrivalled, Presents
  <1>19. Couple(n, m)'
    BY <1>1, <1>12, <1>13, <1>14, <1>15, <1>16, <1>17, <1>18, OneSteps
  <1> QED
    BY <1>1, <1>19

\* An election that begins
LEMMA BegunElecting ==
    ASSUME Typed, NEW n \in Nodes
    PROVE  /\ Begun(n).term = election[n].term + 1 /\ Begun(n).electing
           /\ Begun(n) \in Elections
  <1> DEFINE t == election[n].term + 1
             e == [election[n] EXCEPT !.term = t, !.electing = TRUE, !.yields = FALSE]
             request == [term |-> t, left |-> Higher(n), answered |-> FALSE]
  <1>1. election[n] \in Elections
    BY DEF Typed
  <1>2. e \in Elections /\ e.electing
    <2>1. t \in Nat
      BY <1>1 DEF Elections
    <2> HIDE DEF t
    <2> QED
      BY <1>1, <2>1 DEF Elections
  <1>3. \/ Begun(n) = [e EXCEPT !.handle = t, !.armed = @ \cup {t}]
        \/ Begun(n) = [e EXCEPT !.asked = @ \cup {request}]
    BY DEF Begun
  <1>4. Begun(n) \in Elections /\ Begun(n).term = t
    BY BegunOK
  <1> HIDE DEF e, t, request
  <1>5. Begun(n).electing = e.electing
    BY <1>2, <1>3 DEF Elections
  <1> QED
    BY <1>2, <1>4, <1>5 DEF t

\* What a node does that a node of a lower priority asks to take over
LEMMA TakesOver ==
    ASSUME IInv, NEW m \in Nodes, NEW n \in Nodes, m # n, Nodes = {m, n},
           NEW i \in DOMAIN net[m][n], NEW t \in Nat, UNCHANGED state,
           Priority[n] > Priority[m],
           StartElection(n, Sent(Taken(m, n, i), n, {m}, Ok(t)), FewerOlder(m, n, i), t)
    PROVE  /\ net'[m][n] = RemoveAt(net[m][n], i) /\ net'[n][m] = Append(net[n][m], Ok(t))
           /\ replicating' = replicating /\ role'[m] = role[m] /\ election'[m] = election[m]
           /\ older'[m] = older[m] /\ election'[n].electing
           /\ \/ /\ election[n].electing
                 /\ election'[n].term = IF t > election[n].term THEN t ELSE election[n].term
                 /\ role' = role /\ older' = FewerOlder(m, n, i)
                 /\ election'[n].armed = election[n].armed
              \/ /\ ~election[n].electing
                 /\ election'[n].term = IF t > election[n].term + 1 THEN t ELSE election[n].term + 1
                 /\ role'[n][n] = "candidate" /\ older'[n][m] = Len(net'[m][n])
  <1> DEFINE onNet == Sent(Taken(m, n, i), n, {m}, Ok(t))
             e == IF ~election[n].electing THEN Begun(n) ELSE election[n]
  <1>1. Higher(n) = {}
    <2>1. Priority[n] \in Nat /\ Priority[m] \in Nat
      BY PriorityAssumption
    <2> QED
      BY <2>1 DEF Higher
  <1>2. NetOK(Taken(m, n, i)) /\ Ok(t) \in Messages
    BY TakenOK DEF IInv, Ok, Messages
  <1>3. NetOK(onNet)
    BY <1>2, SentOK
  <1>4. onNet[m][n] = RemoveAt(net[m][n], i) /\ onNet[n][m] = Append(net[n][m], Ok(t))
    <2>1. /\ Taken(m, n, i)[m][n] = RemoveAt(net[m][n], i)
          /\ Taken(m, n, i)[n][m] = net[n][m]
      BY TakenFrom DEF IInv
    <2>2. \A p, q \in Nodes : Sent(Taken(m, n, i), n, {m}, Ok(t))[p][q] =
              IF p = n /\ q \in {m} THEN Append(Taken(m, n, i)[n][q], Ok(t))
              ELSE Taken(m, n, i)[p][q]
      BY <1>2, SentAlong
    <2> QED
      BY <2>1, <2>2
  <1> HIDE DEF onNet
  <1>5. StartElection(n, onNet, FewerOlder(m, n, i), t)
    BY DEF onNet
  <1>6. /\ election' = [election EXCEPT ![n] = [e EXCEPT !.term = IF t > @ THEN t ELSE @]]
        /\ role' = IF ~election[n].electing THEN [role EXCEPT ![n][n] = "candidate"] ELSE role
        /\ older' = IF ~election[n].electing /\ Higher(n) = {}
                    THEN [FewerOlder(m, n, i) EXCEPT ![n] = UnderWay(onNet, n)]
                    ELSE FewerOlder(m, n, i)
        /\ replicating' = replicating
    BY <1>5 DEF StartElection
  <1>7. net' = onNet
    <2>1. \/ net' = onNet
          \/ net' = Sent(onNet, n, Higher(n), ElectionStart(e.term))
      BY <1>5 DEF StartElection
    <2>2. Sent(onNet, n, {}, ElectionStart(e.term)) = onNet
      <3> HIDE DEF e
      <3> DEFINE row == [p \in Nodes |-> onNet[n][p]]
      <3>1. Sent(onNet, n, {}, ElectionStart(e.term)) = [onNet EXCEPT ![n] = row]
        BY DEF Sent
      <3>2. row = onNet[n] /\ onNet[n] \in [Nodes -> Seq(Messages)] /\ onNet \in [Nodes -> [Nodes -> Seq(Messages)]]
        BY <1>3 DEF NetOK
      <3> HIDE DEF row
      <3> QED
        BY <3>1, <3>2
    <2> QED
      BY <1>1, <2>1, <2>2
  <1>8. /\ election \in [Nodes -> Elections] /\ election[n] \in Elections
        /\ role \in [Nodes -> [Nodes -> Roles]] /\ older \in [Nodes -> [Nodes -> Nat]]
    BY DEF IInv, Typed
  <1>9. e \in Elections /\ e.electing
    BY <1>8, BegunElecting DEF IInv
  <1>10. /\ election'[n].electing /\ election'[m] = election[m]
         /\ election'[n].term = IF t > e.term THEN t ELSE e.term
         /\ election'[n].armed = e.armed
    <2> HIDE DEF e
    <2> QED
      BY <1>6, <1>8, <1>9 DEF Elections
  <1>11. role'[m] = role[m] /\ older'[m] = older[m]
    BY <1>6, <1>8 DEF FewerOlder
  <1>12. CASE election[n].electing
    BY <1>4, <1>6, <1>7, <1>10, <1>11, <1>12
  <1>13. CASE ~election[n].electing
    <2>1. e.term = election[n].term + 1
      BY <1>13, BegunElecting DEF IInv
    <2>2. role'[n][n] = "candidate"
      BY <1>6, <1>8, <1>13
    <2>3. older'[n][m] = Len(net'[m][n])
      <3>1. older'[n] = UnderWay(onNet, n)
        BY <1>1, <1>6, <1>8, <1>13 DEF FewerOlder
      <3> QED
        BY <1>7, <3>1 DEF UnderWay
    <2> HIDE DEF e
    <2> QED
      BY <1>4, <1>6, <1>7, <1>10, <1>11, <1>13, <2>1, <2>2, <2>3
  <1> QED
    BY <1>12, <1>13

LEMMA ElectionStartHeard ==
    ASSUME IInv, IInv', RInv, MutualSeeds, Undisturbed',
           NEW m \in Nodes, NEW n \in Nodes, NEW i, HandleElectionStart(m, n, i)
    PROVE  RInv'
  <1>1. /\ m # n /\ Nodes = {m, n} /\ up[m] /\ up[n] /\ i \in DOMAIN net[m][n]
        /\ net[m][n][i] \in Messages /\ net[m][n][i] \in Held(m, n)
        /\ net[m][n][i].type = "election_start" /\ Says(net[m][n][i], m, n)
        /\ Couple(n, m)
        /\ Couple(n, m)' => RInv'
    BY Got DEF HandleElectionStart
  <1>2. /\ OwnOK(n) /\ KnowsOK(n, m) /\ SaysOK(n, m)
        /\ OwnOK(m) /\ KnowsOK(m, n) /\ SaysOK(m, n)
    BY <1>1 DEF Couple, View
  <1>3. PICK t \in Nat : t = net[m][n][i].term
    BY <1>1, MessageTypes
  <1>4. /\ state[m][n] = "alive" /\ Priority[n] > Priority[m]
        /\ t >= 1 /\ t <= election[m].term
    BY <1>1, <1>3 DEF Says
  <1>5. UNCHANGED <<up, state, joining>>
    BY DEF HandleElectionStart
  <1>6. StartElection(n, Sent(Taken(m, n, i), n, {m}, Ok(t)), FewerOlder(m, n, i), t)
    BY <1>3, <1>4 DEF HandleElectionStart
  <1>7. /\ net'[m][n] = RemoveAt(net[m][n], i) /\ net'[n][m] = Append(net[n][m], Ok(t))
        /\ replicating' = replicating /\ role'[m] = role[m] /\ election'[m] = election[m]
        /\ older'[m] = older[m] /\ election'[n].electing
        /\ \/ /\ election[n].electing
              /\ election'[n].term = IF t > election[n].term THEN t ELSE election[n].term
              /\ role' = role /\ older' = FewerOlder(m, n, i)
              /\ election'[n].armed = election[n].armed
           \/ /\ ~election[n].electing
              /\ election'[n].term = IF t > election[n].term + 1 THEN t ELSE election[n].term + 1
              /\ role'[n][n] = "candidate" /\ older'[n][m] = Len(net'[m][n])
    BY <1>1, <1>4, <1>5, <1>6, TakesOver
  <1>8. /\ election[n].term \in Nat /\ election[m].term \in Nat
        /\ election'[n].term \in Nat
    BY DEF IInv, Typed, Elections
  <1>9. election'[n].term >= election[n].term
    BY <1>7, <1>8
  <1>10. role'[n][n] = "candidate" /\ ~IsLeader(n)'
    BY <1>2, <1>7 DEF OwnOK, IsLeader
  <1>11. /\ Held(m, n)' \subseteq Held(m, n) /\ VictoriesKept(m, n)
         /\ Welcomed(m, n) => Welcomed(m, n)'
    BY <1>1, <1>7, Fewer
  <1>12. /\ Held(n, m)' = Held(n, m) \cup {Ok(t)} /\ VictoriesKept(n, m)
         /\ WelcomedFirst(n, m) => WelcomedFirst(n, m)'
    BY <1>7, More
  <1>13. Rests(m) /\ Onward(n) /\ Onward(m)
    <2>1. election'[n].term = election[n].term => election[n].electing
      BY <1>7, <1>8
    <2> QED
      BY <1>5, <1>7, <1>8, <1>9, <1>10, <2>1 DEF Rests, Onward, IsLeader
  <1>14. OwnOK(n)'
    BY <1>1, <1>2, <1>5, <1>7, <1>10 DEF OwnOK
  <1>15. KnowsOK(n, m)'
    <2>1. state[n][m] \in {"unknown", "alive"} /\ (state[n][m] = "unknown" => joining[n] # 0)
      BY <1>1, <1>2, <1>4 DEF KnowsOK
    <2>2. state[n][m] = "unknown" => Welcomed(m, n)'
      BY <1>2, <1>4, <1>11, <2>1 DEF KnowsOK
    <2>3. state[n][m] = "unknown" /\ election'[n].armed # {} => WelcomedFirst(m, n)'
      <3>1. CASE older' = FewerOlder(m, n, i) /\ election'[n].armed = election[n].armed
        <4>1. WelcomedFirst(m, n) => WelcomedFirst(m, n)'
          BY <1>1, <1>7, <3>1, StillFirst
        <4> QED
          BY <1>2, <2>1, <3>1, <4>1 DEF KnowsOK
      <3>2. CASE older'[n][m] = Len(net'[m][n])
        <4>1. net'[m][n] \in Seq(Messages)
          BY DEF IInv, NetOK
        <4>2. \A k \in DOMAIN net'[m][n] : k <= Len(net'[m][n])
          BY <4>1
        <4> QED
          BY <2>2, <3>2, <4>2 DEF Welcomed, WelcomedFirst, Held
      <3> QED
        BY <1>7, <3>1, <3>2
    <2> QED
      BY <1>1, <1>4, <1>5, <2>1, <2>2, <2>3 DEF KnowsOK
  <1>16. KnowsOK(m, n)'
    BY <1>1, <1>4, <1>5 DEF KnowsOK
  <1>17. SaysOK(n, m)' /\ SaysOK(m, n)'
    <2>1. \A msg \in Messages : /\ Says(msg, n, m) => Says(msg, n, m)'
                                /\ Says(msg, m, n) => Says(msg, m, n)'
      BY <1>5, <1>7, <1>8, <1>9, SaysStill DEF IInv
    <2>2. Says(Ok(t), n, m)'
      BY <1>1, <1>5 DEF Says, Ok
    <2>3. Held(n, m)' \subseteq Held(n, m) \cup {Ok(t)}
      BY <1>12
    <2>4. SaysOK(n, m)'
      BY <1>2, <2>1, <2>2, <2>3, SaysMore
    <2> QED
      BY <1>2, <1>11, <2>1, <2>4, SaysLess
  <1>18. ~Unrivalled(n, m) /\ ~Unrivalled(m, n)
    <2>1. ~Unrivalled(n, m)
      BY <1>4, <1>8 DEF Unrivalled, Idle
    <2>2. ~Unrivalled(m, n)
      BY <1>1, <1>4 DEF Unrivalled, Presents
    <2> QED
      BY <2>1, <2>2
  <1>19. LeadershipTold(n, m)'
    BY <1>10 DEF LeadershipTold
  <1>20. RetreatTold(n, m)'
    <2> SUFFICES ASSUME replicating[n] = On
                 PROVE  \E s \in Nat : Told(n, m, s)' /\ Ahead(n, m, s)'
      BY <1>4, <1>7 DEF RetreatTold
    <2>1. PICK s \in Nat : /\ Told(n, m, s) /\ s < election'[n].term
                           /\ \/ election'[n].term <= s + 1
                              \/ election'[n].term <= election[m].term
      <3>1. CASE IsLeader(n)
        <4>1. ~election[n].electing
          BY <1>2, <3>1 DEF OwnOK, IsLeader
        <4>2. Told(n, m, election[n].term)
          BY <1>1, <1>18, <3>1 DEF Couple, View, LeadershipTold
        <4>3. election'[n].term = IF t > election[n].term + 1 THEN t ELSE election[n].term + 1
          BY <1>7, <4>1
        <4> QED
          BY <1>4, <1>8, <4>2, <4>3
      <3>2. CASE ~IsLeader(n)
        <4>1. /\ election[n].electing
              /\ \E s \in Nat : Told(n, m, s) /\ Ahead(n, m, s)
          BY <1>1, <3>2 DEF Couple, View, RetreatTold
        <4>2. PICK s \in Nat : Told(n, m, s) /\ Ahead(n, m, s)
          BY <4>1
        <4>3. election'[n].term = IF t > election[n].term THEN t ELSE election[n].term
          BY <1>7, <4>1
        <4>4. /\ s < election'[n].term
              /\ \/ election'[n].term <= s + 1
                 \/ election'[n].term <= election[m].term
          BY <1>4, <1>8, <4>2, <4>3 DEF Ahead
        <4> QED
          BY <4>2, <4>4
      <3> QED
        BY <3>1, <3>2
    <2>2. Told(n, m, s)'
      BY <1>7, <1>8, <1>12, <1>13, <2>1, ToldStill DEF IInv
    <2>3. Ahead(n, m, s)'
      BY <1>7, <2>1 DEF Ahead
    <2> QED
      BY <2>2, <2>3
  <1>21. \A s \in Nat : Told(m, n, s) => Told(m, n, s)'
    BY <1>8, <1>11, <1>13, ToldStill DEF IInv
  <1>22. Couple(n, m)'
    BY <1>1, <1>13, <1>14, <1>15, <1>16, <1>17, <1>18, <1>19, <1>20, <1>21, OneSteps
  <1> QED
    BY <1>1, <1>22

-----------------------------------------------------------------------------
(* The other steps.                                                        *)

\* All that fails is a request to join a node that does not run.
LEMMA OnlyJoinsFail ==
    ASSUME IInv, RInv, MutualSeeds, Undisturbed',
           NEW m \in Nodes, NEW n \in Nodes, NEW i, NEW type, Fails(m, n, i, type)
    PROVE  /\ m # n /\ type = "join" /\ up[m] /\ ~up[n]
           /\ i \in DOMAIN net[m][n] /\ net[m][n] = <<Join>> /\ net[n][m] = <<>>
           /\ Couple(m, n) /\ (Couple(m, n)' => RInv')
  <1>1. m # n /\ i \in DOMAIN net[m][n] /\ net[m][n][i].type = type
    BY FailsOK
  <1>2. Undisturbed /\ ~(up[m] /\ up[n])
    <2>1. PICK lost \in Nat : Spends(lost, 0) /\ lost = IF up[m] /\ up[n] THEN 1 ELSE 0
      BY DEF Fails, Spend
    <2> QED
      BY <2>1, NothingLate DEF IInv
  <1>3. Couple(m, n) /\ (Couple(m, n)' => RInv')
    BY <1>1, <1>2, OfTwo
  <1>4. Says(net[m][n][i], m, n) /\ KnowsOK(m, n) /\ KnowsOK(n, m)
    BY <1>1, <1>3 DEF Couple, View, SaysOK, Held
  <1>5. type = "join"
    BY <1>1, <1>2, <1>4 DEF Says, KnowsOK
  <1>6. up[m]
    BY <1>1, <1>4 DEF KnowsOK
  <1>7. net[m][n] = <<Join>> /\ net[n][m] = <<>>
    BY <1>1, <1>2, <1>4, <1>6 DEF KnowsOK
  <1> QED
    BY <1>1, <1>2, <1>3, <1>5, <1>6, <1>7

\* A node turns to its seed, or finds that nobody is there.
LEMMA Contacts ==
    ASSUME IInv, IInv', NEW m \in Nodes, NEW n \in Nodes, m # n, Nodes = {m, n}, Couple(m, n),
           net[m][n] \in {<<>>, <<Join>>}, net[n][m] = <<>>,
           NEW onNet, NetOK(onNet), onNet[m][n] = <<>>, onNet[n][m] = <<>>,
           NEW position \in Nat, position <= Len(Seeds[m]), Contact(onNet, m, position),
           up'[m], up'[n] = up[n], position = 0 => ~up[n],
           state[m][n] = "unknown", state[n][m] = "unknown", joining[n] = 0,
           election[m].armed = {}, ~Unrivalled(m, n) \/ ~IsLeader(m),
           UNCHANGED <<views, election, replicating>>
    PROVE  Couple(m, n)'
  <1>1. /\ OwnOK(m) /\ KnowsOK(m, n) /\ SaysOK(m, n)
        /\ OwnOK(n) /\ KnowsOK(n, m) /\ SaysOK(n, m)
    BY DEF Couple, View
  <1>2. joining'[m] = position /\ joining'[n] = 0 /\ UNCHANGED <<state, role>>
    BY DEF Contact, IInv, Typed, views
  <1>3. net'[m][n] = (IF position = 0 THEN <<>> ELSE <<Join>>) /\ net'[n][m] = <<>>
    <2>1. CASE position = 0
      BY <2>1 DEF Contact
    <2>2. CASE position # 0
      <3>1. Seeds[m][position] = n
        <4>1. position \in DOMAIN Seeds[m]
          BY <2>2, SeedsAssumption
        <4> QED
          BY <4>1, SeedsAssumption
      <3>2. net' = Sent(onNet, m, {n}, Join)
        BY <2>2, <3>1 DEF Contact
      <3>3. net'[m][n] = Append(<<>>, Join) /\ net'[n][m] = <<>>
        BY <3>2 DEF Sent, NetOK
      <3> QED
        BY <2>2, <3>3
    <2> QED
      BY <2>1, <2>2
  <1>4. /\ Held(m, n) \subseteq {Join} /\ Held(n, m)' = Held(n, m)
        /\ Held(m, n)' = IF position = 0 THEN {} ELSE {Join}
    BY <1>3 DEF Held
  <1>5. VictoriesKept(m, n) /\ VictoriesKept(n, m)
    BY <1>4 DEF VictoriesKept, Join
  <1>6. election[n].term \in Nat /\ election[m].term \in Nat
    BY DEF IInv, Typed, Elections
  <1>7. Rests(n) /\ Onward(m)
    BY <1>2, <1>6 DEF Rests, Onward, IsLeader
  <1>8. OwnOK(m)'
    BY <1>1, <1>2 DEF OwnOK
  <1>9. KnowsOK(m, n)'
    <2>1. position # 0 => Asks(m, n)'
      <3>1. position # 0 => Join \in Held(m, n)'
        BY <1>4
      <3>2. Join.type = "join"
        BY DEF Join
      <3> QED
        BY <3>1, <3>2 DEF Asks
    <2>2. position = 0 => Idle(n)'
      BY <1>1, <1>2 DEF OwnOK, Idle, IsFollower
    <2> QED
      BY <1>2, <1>3, <2>1, <2>2 DEF KnowsOK
  <1>10. KnowsOK(n, m)'
    <2>1. up[n] => position # 0
      OBVIOUS
    <2>2. up[n] => Idle(m)
      <3> SUFFICES ASSUME up[n]
                   PROVE  Idle(m)
        OBVIOUS
      <3> QED
        BY <1>1 DEF KnowsOK
    <2> QED
      BY <1>2, <1>3, <2>1, <2>2 DEF KnowsOK, Idle, IsFollower
  <1>11. SaysOK(m, n)' /\ SaysOK(n, m)'
    <2>1. \A msg \in Held(m, n)' \cup Held(n, m)' : msg = Join
      <3>1. Held(n, m) = {}
        BY DEF Held
      <3> QED
        BY <1>4, <3>1
    <2>2. Says(Join, m, n)' /\ Says(Join, n, m)'
      BY DEF Says, Join
    <2>3. \A msg \in Held(m, n)' : Says(msg, m, n)'
      BY <2>1, <2>2
    <2>4. \A msg \in Held(n, m)' : Says(msg, n, m)'
      BY <2>1, <2>2
    <2> QED
      BY <2>3, <2>4 DEF SaysOK
  <1>12. LeadershipTold(m, n)'
    BY <1>2, <1>5, <1>7, LeadershipStill DEF IsLeader
  <1>13. RetreatTold(m, n)'
    BY <1>2, <1>5, <1>7, RetreatStill DEF IsLeader
  <1>14. \A t \in Nat : Told(n, m, t) => Told(n, m, t)'
    BY <1>5, <1>6, <1>7, ToldStill DEF IInv
  <1>15. Unrivalled(n, m) => Unrivalled(n, m)'
    BY <1>2, <1>4 DEF Unrivalled, Presents, Idle, IsFollower
  <1> QED
    BY <1>7, <1>8, <1>9, <1>10, <1>11, <1>12, <1>13, <1>14, <1>15, OneSteps

LEMMA FailureSettled ==
    ASSUME IInv, IInv', RInv, MutualSeeds, Undisturbed',
           NEW m \in Nodes, NEW n \in Nodes, NEW i, Failure(m, n, i)
    PROVE  RInv'
  <1>1. JoinFails(m, n, i) /\ Quiet /\ Fails(m, n, i, "join") /\ ~Fails(m, n, i, "roster")
    <2>1. \A type : Fails(m, n, i, type) => type = "join"
      BY OnlyJoinsFail
    <2>2. ~NoticeFails(m, n, i)
      BY <2>1 DEF NoticeFails
    <2>3. ~ElectionRequestFails(m, n, i)
      BY <2>1 DEF ElectionRequestFails
    <2>4. JoinFails(m, n, i) /\ Quiet
      BY <2>2, <2>3 DEF Failure
    <2> QED
      BY <2>1, <2>4 DEF JoinFails
  <1>2. /\ m # n /\ up[m] /\ ~up[n]
        /\ i \in DOMAIN net[m][n] /\ net[m][n] = <<Join>> /\ net[n][m] = <<>>
        /\ Couple(m, n) /\ (Couple(m, n)' => RInv')
    BY <1>1, OnlyJoinsFail
  <1>3. Contact(Taken(m, n, i), m, NextSeed(m)) /\ UNCHANGED <<up, views, election, replicating>>
    BY <1>1, <1>2 DEF JoinFails, Quiet
  <1>4. /\ OwnOK(m) /\ KnowsOK(m, n) /\ OwnOK(n) /\ KnowsOK(n, m)
    BY <1>2 DEF Couple, View
  <1>5. /\ state[m][n] = "unknown" /\ state[n][m] = "unknown" /\ joining[n] = 0
        /\ joining[m] # 0
    BY <1>2, <1>4 DEF KnowsOK, OwnOK
  <1>6. election[m].armed = {}
    <2>1. ~WelcomedFirst(n, m)
      BY <1>2 DEF WelcomedFirst
    <2> QED
      BY <1>4, <1>5, <2>1 DEF KnowsOK
  <1>7. ~Unrivalled(m, n)
    BY <1>5 DEF Unrivalled
  <1>8. NetOK(Taken(m, n, i)) /\ Taken(m, n, i)[m][n] = <<>> /\ Taken(m, n, i)[n][m] = <<>>
    <2>1. NetOK(Taken(m, n, i))
      BY <1>2, TakenOK DEF IInv
    <2>2. i = 1 /\ 1 \in DOMAIN net[m][n] /\ Tail(net[m][n]) = <<>>
      BY <1>2
    <2> QED
      BY <1>2, <2>1, <2>2, ChannelTaken
  <1>9. NextSeed(m) \in Nat /\ NextSeed(m) <= Len(Seeds[m])
    BY SeedPositions DEF IInv
  <1>10. Nodes = {m, n}
    BY <1>2, OfTwo
  <1>11. Couple(m, n)'
    BY <1>2, <1>3, <1>5, <1>6, <1>7, <1>8, <1>9, <1>10, Contacts
  <1> QED
    BY <1>2, <1>11

LEMMA StartSettled ==
    ASSUME IInv, IInv', RInv, MutualSeeds, Undisturbed', NEW m \in Nodes, Start(m)
    PROVE  RInv'
  <1>1. PICK n \in Nodes : m # n
    BY TheOther
  <1>2. /\ Nodes = {m, n} /\ Couple(m, n) /\ (Couple(m, n)' => RInv')
        /\ Seeds[m] # <<>>
    BY <1>1, OfTwo DEF Undisturbed, Start, counts
  <1>3. /\ ~up[m] /\ net[m][n] = <<>> /\ net[n][m] = <<>> /\ up' = [up EXCEPT ![m] = TRUE]
        /\ Contact(net, m, 1) /\ UNCHANGED <<views, election, replicating>>
    BY <1>1, <1>2 DEF Start, FirstSeed
  <1>4. OwnOK(m) /\ KnowsOK(m, n) /\ OwnOK(n) /\ KnowsOK(n, m)
    BY <1>2 DEF Couple, View
  <1>5. state[m][n] = "unknown" /\ state[n][m] = "unknown"
    BY <1>3, <1>4 DEF KnowsOK
  <1>6. joining[n] = 0
    <2>1. ~Asks(n, m)
      BY <1>3 DEF Asks, Held
    <2> QED
      BY <1>4, <1>5, <2>1 DEF KnowsOK
  <1>7. election[m].armed = {} /\ ~IsLeader(m)
    BY <1>3, <1>4 DEF OwnOK, Idle, IsFollower, IsLeader
  <1>8. up'[m] /\ up'[n] = up[n]
    BY <1>1, <1>3 DEF IInv, Typed
  <1>9. 1 <= Len(Seeds[m])
    BY <1>2, SeedsAssumption
  <1>10. ASSUME NEW position, position = 1
         PROVE  Couple(m, n)'
    <2>1. /\ position \in Nat /\ position <= Len(Seeds[m]) /\ position # 0
          /\ Contact(net, m, position) /\ NetOK(net)
      BY <1>3, <1>9, <1>10 DEF IInv
    <2> QED
      BY <1>1, <1>2, <1>3, <1>5, <1>6, <1>7, <1>8, <2>1, Contacts
  <1> QED
    BY <1>2, <1>10

\* A heartbeat tells the role of its sender.
LEMMA HeartbeatSent ==
    ASSUME IInv, IInv', RInv, MutualSeeds, Undisturbed', NEW n \in Nodes, Heartbeat(n), Quiet
    PROVE  RInv'
  <1>1. PICK m \in Nodes : m # n
    BY TheOther
  <1>2. Couple(n, m) /\ (Couple(n, m)' => RInv')
    BY <1>1, OfTwo DEF Undisturbed, Heartbeat, counts
  <1>3. UNCHANGED <<up, state, role, joining, older, election, replicating>> /\ up[n]
    BY DEF Heartbeat, Quiet, views
  <1>4. PICK targets \in SUBSET Peers(n) : net' = Sent(net, n, targets, HeartbeatOf(n))
    BY DEF Heartbeat
  <1>5. PICK beat : /\ beat = HeartbeatOf(n) /\ beat.type = "heartbeat"
                    /\ beat.role = role[n][n]
    <2>1. PICK beat : beat = [type |-> "heartbeat", role |-> role[n][n]]
      OBVIOUS
    <2>2. beat = HeartbeatOf(n) /\ beat.type = "heartbeat" /\ beat.role = role[n][n]
      BY <2>1 DEF HeartbeatOf
    <2> QED
      BY <2>2
  <1>6. /\ OwnOK(n) /\ KnowsOK(n, m) /\ SaysOK(n, m)
        /\ OwnOK(m) /\ KnowsOK(m, n) /\ SaysOK(m, n)
    BY <1>2 DEF Couple, View
  <1>7. /\ net'[m][n] = net[m][n]
        /\ net'[n][m] = IF m \in targets THEN Append(net[n][m], beat) ELSE net[n][m]
    <2>1. \A p, q \in Nodes : Sent(net, n, targets, HeartbeatOf(n))[p][q] =
              IF p = n /\ q \in targets THEN Append(net[n][q], HeartbeatOf(n)) ELSE net[p][q]
      BY SentAlong DEF IInv
    <2> QED
      BY <1>1, <1>4, <1>5, <2>1
  <1>8. m \in targets => state[n][m] = "alive"
    BY <1>1, <1>4, <1>6 DEF Peers, KnowsOK
  <1>9. /\ Held(n, m)' \subseteq Held(n, m) \cup {beat}
        /\ state[n][m] # "alive" => net'[n][m] = net[n][m] /\ Held(n, m)' = Held(n, m)
        /\ Welcomed(n, m) => Welcomed(n, m)'
        /\ Asks(n, m) => Asks(n, m)'
        /\ VictoriesKept(n, m)
        /\ WelcomedFirst(n, m) => WelcomedFirst(n, m)'
    <2>1. CASE m \in targets
      <3>1. net'[n][m] = Append(net[n][m], beat)
        BY <1>7, <2>1
      <3>2. /\ Held(n, m)' = Held(n, m) \cup {beat}
            /\ Welcomed(n, m) => Welcomed(n, m)'
            /\ Asks(n, m) => Asks(n, m)'
            /\ VictoriesKept(n, m)
            /\ WelcomedFirst(n, m) => WelcomedFirst(n, m)'
        BY <1>3, <3>1, More
      <3> QED
        BY <1>8, <2>1, <3>2
    <2>2. CASE m \notin targets
      BY <1>3, <1>7, <2>2, AsMany
    <2> QED
      BY <2>1, <2>2
  <1>10. /\ Held(m, n)' = Held(m, n) /\ VictoriesKept(m, n)
         /\ Welcomed(m, n) => Welcomed(m, n)'
         /\ Asks(m, n) => Asks(m, n)'
         /\ WelcomedFirst(m, n) => WelcomedFirst(m, n)'
    BY <1>3, <1>7, AsMany
  <1>11. election[n].term \in Nat /\ election[m].term \in Nat
    BY DEF IInv, Typed, Elections
  <1>12. Rests(m) /\ Onward(n)
    BY <1>3, <1>11 DEF Rests, Onward, IsLeader
  <1>13. OwnOK(n)'
    BY <1>3, <1>6 DEF OwnOK, Idle, IsFollower
  <1>14. KnowsOK(n, m)' /\ KnowsOK(m, n)'
    <2>1. KnowsOK(n, m)'
      BY <1>3, <1>6, <1>9, <1>10 DEF KnowsOK, Idle, IsFollower
    <2>2. KnowsOK(m, n)'
      BY <1>3, <1>6, <1>7, <1>9, <1>10 DEF KnowsOK, Idle, IsFollower
    <2> QED
      BY <2>1, <2>2
  <1>15. SaysOK(n, m)' /\ SaysOK(m, n)'
    <2>1. \A msg \in Messages : /\ Says(msg, n, m) => Says(msg, n, m)'
                                /\ Says(msg, m, n) => Says(msg, m, n)'
      BY <1>3, <1>11, SaysStill DEF IInv
    <2>2. CASE state[n][m] = "alive"
      <3>1. Says(beat, n, m)'
        BY <1>3, <1>5, <2>2 DEF Says
      <3> QED
        BY <1>6, <1>9, <1>10, <2>1, <3>1, SaysMore, SaysLess
    <2>3. CASE state[n][m] # "alive"
      BY <1>6, <1>9, <1>10, <2>1, <2>3, SaysLess
    <2> QED
      BY <2>2, <2>3
  <1>16. LeadershipTold(n, m)'
    <2>1. IsLeader(n) /\ Unrivalled(n, m) => Unrivalled(n, m)'
      <3>1. IsLeader(n) => Presents(beat, n)
        BY <1>5 DEF Presents, IsLeader
      <3> QED
        BY <1>3, <1>9, <3>1 DEF Unrivalled, Idle, IsFollower
    <2> QED
      BY <1>1, <1>2, <1>3, <1>9, <1>12, <2>1, LeadershipStill DEF IsLeader
  <1>17. RetreatTold(n, m)'
    BY <1>1, <1>2, <1>3, <1>9, <1>12, RetreatStill DEF IsLeader
  <1>18. \A t \in Nat : Told(m, n, t) => Told(m, n, t)'
    BY <1>3, <1>10, <1>11, <1>12, ToldStill DEF IInv
  <1>19. Unrivalled(m, n) => Unrivalled(m, n)'
    BY <1>3, <1>10 DEF Unrivalled, Presents, Idle, IsFollower
  <1>20. Couple(n, m)'
    BY <1>1, <1>2, <1>12, <1>13, <1>14, <1>15, <1>16, <1>17, <1>18, <1>19, OneSteps
  <1> QED
    BY <1>2, <1>20

\* What the timer of a victory does
LEMMA TimerRuns ==
    ASSUME IInv, NEW n \in Nodes, NEW t \in election[n].armed, VictoryTimer(n, t)
    PROVE  /\ \A m \in Nodes \ {n} : /\ role'[m] = role[m] /\ election'[m] = election[m]
                                     /\ replicating'[m] = replicating[m]
                                     /\ role'[n][m] = role[n][m]
           /\ election'[n].term = election[n].term
           /\ election'[n].armed \subseteq election[n].armed
           /\ ~election'[n].electing
           /\ \/ /\ election[n].electing
                 /\ role'[n][n] = "leader" /\ replicating'[n] = On
                 /\ net' = Sent(net, n, AlivePeers(n), Victory(election[n].term))
              \/ ~election[n].electing /\ UNCHANGED <<role, net, replicating>>
  <1> DEFINE rest == election[n].armed \ {t}
             kept == IF election[n].handle = t THEN 0 ELSE election[n].handle
             e == [election[n] EXCEPT !.armed = rest, !.handle = kept]
  <1>1. /\ election \in [Nodes -> Elections] /\ election[n] \in Elections
        /\ role \in [Nodes -> [Nodes -> Roles]] /\ replicating \in [Nodes -> Switches]
    BY DEF IInv, Typed, Switches
  <1>2. e \in Elections /\ e.term = election[n].term /\ e.electing = election[n].electing
        /\ e.armed = rest
    <2>1. rest \in SUBSET Nat /\ kept \in Nat
      BY <1>1 DEF Elections
    <2> HIDE DEF rest, kept
    <2> QED
      BY <1>1, <2>1 DEF Elections
  <1>3. IF e.electing THEN DeclareVictory(n, e, net)
        ELSE /\ election' = [election EXCEPT ![n] = e]
             /\ UNCHANGED <<role, net, replicating>>
    BY DEF VictoryTimer
  <1> HIDE DEF e
  <1>4. CASE e.electing
    <2>1. DeclareVictory(n, e, net)
      BY <1>3, <1>4
    <2>2. /\ election'[n] = [e EXCEPT !.electing = FALSE]
          /\ \A m \in Nodes \ {n} : election'[m] = election[m]
      BY <1>1, <2>1 DEF DeclareVictory
    <2>3. election'[n].term = e.term /\ election'[n].armed = e.armed /\ ~election'[n].electing
      BY <1>2, <2>2 DEF Elections
    <2>4. /\ role'[n][n] = "leader" /\ replicating'[n] = On
          /\ \A m \in Nodes \ {n} : /\ role'[m] = role[m] /\ role'[n][m] = role[n][m]
                                    /\ replicating'[m] = replicating[m]
      BY <1>1, <2>1 DEF DeclareVictory
    <2>5. net' = Sent(net, n, AlivePeers(n), Victory(election[n].term))
      BY <1>2, <2>1 DEF DeclareVictory
    <2> QED
      BY <1>2, <1>4, <2>2, <2>3, <2>4, <2>5
  <1>5. CASE ~e.electing
    BY <1>1, <1>2, <1>3, <1>5
  <1> QED
    BY <1>4, <1>5

LEMMA TimerSettled ==
    ASSUME IInv, IInv', RInv, MutualSeeds, Undisturbed', NEW n \in Nodes,
           NEW t \in election[n].armed, VictoryTimer(n, t)
    PROVE  RInv'
  <1>1. PICK m \in Nodes : m # n
    BY TheOther
  <1>2. Undisturbed /\ ~TimerPassed(n)
    <2>1. CASE TimerPassed(n)
      <3>1. Spends(1, 0)
        BY <2>1 DEF VictoryTimer, Spend
      <3> QED
        BY <3>1, NothingLate DEF IInv
    <2>2. CASE ~TimerPassed(n)
      <3>1. PICK raced \in Nat : Spends(0, raced)
        BY <2>2 DEF VictoryTimer, Race
      <3> QED
        BY <2>2, <3>1, NothingLate DEF IInv
    <2> QED
      BY <2>1, <2>2
  <1>3. Couple(n, m) /\ (Couple(n, m)' => RInv')
    BY <1>1, <1>2, OfTwo
  <1>4. up[n] /\ UNCHANGED <<up, state, joining, older>>
    BY DEF VictoryTimer
  <1>5. /\ role'[m] = role[m] /\ election'[m] = election[m] /\ replicating'[m] = replicating[m]
        /\ role'[n][m] = role[n][m]
        /\ election'[n].term = election[n].term
        /\ election'[n].armed \subseteq election[n].armed /\ ~election'[n].electing
        /\ \/ /\ election[n].electing
              /\ role'[n][n] = "leader" /\ replicating'[n] = On
              /\ net' = Sent(net, n, AlivePeers(n), Victory(election[n].term))
           \/ ~election[n].electing /\ UNCHANGED <<role, net, replicating>>
    BY <1>1, TimerRuns
  <1>6. /\ OwnOK(n) /\ KnowsOK(n, m) /\ SaysOK(n, m)
        /\ OwnOK(m) /\ KnowsOK(m, n) /\ SaysOK(m, n)
    BY <1>3 DEF Couple, View
  <1>7. PICK victory : victory = Victory(election[n].term) /\ victory.type = "victory"
                       /\ victory.term = election[n].term
    <2>1. PICK victory : victory = [type |-> "victory", term |-> election[n].term]
      OBVIOUS
    <2>2. /\ victory = Victory(election[n].term) /\ victory.type = "victory"
          /\ victory.term = election[n].term
      BY <2>1 DEF Victory
    <2> QED
      BY <2>2
  <1>8. /\ net'[m][n] = net[m][n]
        /\ net'[n][m] = IF election[n].electing /\ state[n][m] = "alive"
                        THEN Append(net[n][m], victory) ELSE net[n][m]
    <2>1. CASE election[n].electing
      <3>1. \A p, q \in Nodes : Sent(net, n, AlivePeers(n), victory)[p][q] =
                IF p = n /\ q \in AlivePeers(n) THEN Append(net[n][q], victory) ELSE net[p][q]
        BY SentAlong DEF IInv
      <3>2. m \in AlivePeers(n) <=> state[n][m] = "alive"
        BY <1>1 DEF AlivePeers
      <3> QED
        BY <1>1, <1>5, <1>7, <2>1, <3>1, <3>2
    <2>2. CASE ~election[n].electing
      BY <1>5, <2>2
    <2> QED
      BY <2>1, <2>2
  <1>9. /\ Held(n, m)' \subseteq Held(n, m) \cup {victory}
        /\ state[n][m] # "alive" => net'[n][m] = net[n][m] /\ Held(n, m)' = Held(n, m)
        /\ election[n].electing /\ state[n][m] = "alive" => victory \in Held(n, m)'
        /\ Welcomed(n, m) => Welcomed(n, m)'
        /\ Asks(n, m) => Asks(n, m)'
        /\ VictoriesKept(n, m)
        /\ WelcomedFirst(n, m) => WelcomedFirst(n, m)'
    <2>1. CASE net'[n][m] = Append(net[n][m], victory) /\ state[n][m] = "alive"
      <3>1. net'[n][m] = Append(net[n][m], victory)
        BY <2>1
      <3>2. /\ Held(n, m)' = Held(n, m) \cup {victory}
            /\ Welcomed(n, m) => Welcomed(n, m)'
            /\ Asks(n, m) => Asks(n, m)'
            /\ VictoriesKept(n, m)
            /\ WelcomedFirst(n, m) => WelcomedFirst(n, m)'
        BY <1>4, <3>1, More
      <3> QED
        BY <2>1, <3>2
    <2>2. CASE net'[n][m] = net[n][m] /\ ~(election[n].electing /\ state[n][m] = "alive")
      BY <1>4, <2>2, AsMany
    <2> QED
      BY <1>8, <2>1, <2>2
  <1>10. /\ Held(m, n)' = Held(m, n) /\ VictoriesKept(m, n)
         /\ Welcomed(m, n) => Welcomed(m, n)'
         /\ Asks(m, n) => Asks(m, n)'
         /\ WelcomedFirst(m, n) => WelcomedFirst(m, n)'
    BY <1>4, <1>8, AsMany
  <1>11. election[n].term \in Nat /\ election[m].term \in Nat
    BY DEF IInv, Typed, Elections
  <1>12. Rests(m) /\ Onward(n)
    BY <1>4, <1>5, <1>11 DEF Rests, Onward, IsLeader
  <1>13. Idle(n) => Idle(n)'
    BY <1>5 DEF Idle, IsFollower
  <1>14. OwnOK(n)'
    BY <1>4, <1>5, <1>6 DEF OwnOK
  <1>15. KnowsOK(n, m)'
    BY <1>4, <1>5, <1>6, <1>9, <1>10 DEF KnowsOK, Idle, IsFollower
  <1>16. KnowsOK(m, n)'
    BY <1>4, <1>5, <1>6, <1>8, <1>9, <1>10, <1>13 DEF KnowsOK
  <1>17. SaysOK(n, m)' /\ SaysOK(m, n)'
    <2>1. \A msg \in Messages : /\ Says(msg, n, m) => Says(msg, n, m)'
                                /\ Says(msg, m, n) => Says(msg, m, n)'
      BY <1>4, <1>5, <1>11, SaysStill DEF IInv
    <2>2. CASE state[n][m] = "alive"
      <3>1. Says(victory, n, m)'
        BY <1>4, <1>7, <2>2 DEF Says
      <3> QED
        BY <1>6, <1>9, <1>10, <2>1, <3>1, SaysMore, SaysLess
    <2>3. CASE state[n][m] # "alive"
      BY <1>6, <1>9, <1>10, <2>1, <2>3, SaysLess
    <2> QED
      BY <2>2, <2>3
  <1>18. LeadershipTold(n, m)' /\ RetreatTold(n, m)'
    <2>1. CASE election[n].electing
      <3>1. IsLeader(n)'
        BY <1>5, <2>1 DEF IsLeader
      <3>2. CASE state[n][m] = "alive"
        <4>1. victory \in Held(n, m)' /\ victory.type = "victory" /\ victory.term = election'[n].term
          BY <1>5, <1>7, <1>9, <2>1, <3>2
        <4> QED
          BY <3>1, <4>1 DEF LeadershipTold, RetreatTold, Told
      <3>3. CASE state[n][m] # "alive"
        <4>1. ~WelcomedFirst(m, n)
          BY <1>2 DEF TimerPassed, WelcomedFirst
        <4>2. state[n][m] = "unknown" /\ joining[n] = 0 /\ Idle(m)
          BY <1>4, <1>6, <3>3, <4>1 DEF KnowsOK
        <4>3. Unrivalled(n, m)'
          BY <1>4, <1>5, <4>2 DEF Unrivalled, Idle, IsFollower
        <4> QED
          BY <3>1, <4>3 DEF LeadershipTold, RetreatTold
      <3> QED
        BY <3>2, <3>3
    <2>2. CASE ~election[n].electing
      <3>1. UNCHANGED <<role, net, replicating>>
        BY <1>5, <2>2
      <3>2. Held(n, m)' = Held(n, m)
        BY <3>1 DEF Held
      <3>3. Unrivalled(n, m) => Unrivalled(n, m)'
        BY <1>4, <1>5, <3>1, <3>2 DEF Unrivalled, Presents, Idle, IsFollower
      <3>4. LeadershipTold(n, m)'
        BY <1>1, <1>3, <1>5, <1>9, <1>12, <3>1, <3>3, LeadershipStill DEF IsLeader
      <3>5. RetreatTold(n, m)'
        BY <1>3, <2>2, <3>1 DEF Couple, View, RetreatTold, IsLeader
      <3> QED
        BY <3>4, <3>5
    <2> QED
      BY <2>1, <2>2
  <1>19. \A s \in Nat : Told(m, n, s) => Told(m, n, s)'
    BY <1>5, <1>10, <1>11, <1>12, ToldStill DEF IInv
  <1>20. IsLeader(m) /\ Unrivalled(m, n) => Unrivalled(m, n)'
    BY <1>4, <1>5, <1>10, <1>13 DEF Unrivalled, Presents, IsLeader
  <1>21. Couple(n, m)'
    BY <1>1, <1>3, <1>12, <1>14, <1>15, <1>16, <1>17, <1>18, <1>19, <1>20, OneSteps
  <1> QED
    BY <1>3, <1>21

\* What a check for a leader does that finds none
LEMMA HealthRuns ==
    ASSUME IInv, NEW n \in Nodes, CheckLeaderHealth(n)
    PROVE  /\ \A m \in Nodes \ {n} : /\ role'[m] = role[m] /\ election'[m] = election[m]
                                     /\ older'[m] = older[m]
           /\ election'[n].term = election[n].term + 1 /\ election'[n].electing
           /\ role'[n][n] = "candidate" /\ replicating' = replicating
           /\ net' = Sent(net, n, Higher(n), ElectionStart(election[n].term + 1))
  <1> DEFINE e == Begun(n)
  <1>1. /\ election \in [Nodes -> Elections] /\ role \in [Nodes -> [Nodes -> Roles]]
        /\ older \in [Nodes -> [Nodes -> Nat]] /\ election[n].term \in Nat
    BY DEF IInv, Typed, Elections
  <1>2. e \in Elections /\ e.electing /\ e.term = election[n].term + 1
    BY BegunElecting DEF IInv
  <1>3. /\ election' = [election EXCEPT ![n] = [e EXCEPT !.term = IF 0 > @ THEN 0 ELSE @]]
        /\ role' = [role EXCEPT ![n][n] = "candidate"]
        /\ net' = Sent(net, n, Higher(n), ElectionStart(e.term))
        /\ older' = IF Higher(n) = {} THEN [older EXCEPT ![n] = UnderWay(net, n)] ELSE older
        /\ replicating' = replicating
    BY DEF CheckLeaderHealth, StartElection
  <1> HIDE DEF e
  <1>4. /\ [e EXCEPT !.term = IF 0 > @ THEN 0 ELSE @].term = e.term
        /\ [e EXCEPT !.term = IF 0 > @ THEN 0 ELSE @].electing = e.electing
    <2> DEFINE k == IF 0 > e.term THEN 0 ELSE e.term
    <2>1. k = e.term
      BY <1>1, <1>2
    <2> HIDE DEF k
    <2>2. [e EXCEPT !.term = k].term = k /\ [e EXCEPT !.term = k].electing = e.electing
      BY <1>2 DEF Elections
    <2> QED
      BY <2>1, <2>2 DEF k
  <1> QED
    BY <1>1, <1>2, <1>3, <1>4

LEMMA CheckSettled ==
    ASSUME IInv, IInv', RInv, MutualSeeds, Undisturbed', NEW n \in Nodes, CheckLeaderHealth(n)
    PROVE  RInv'
  <1>1. PICK m \in Nodes : m # n
    BY TheOther
  <1>2. Undisturbed /\ joining[n] = 0
    <2>1. PICK lost \in Nat, raced \in Nat : /\ Spends(lost, raced)
                                             /\ lost = IF joining[n] = 0 THEN 0 ELSE 1
      BY DEF CheckLeaderHealth
    <2> QED
      BY <2>1, NothingLate DEF IInv
  <1>3. Couple(n, m) /\ (Couple(n, m)' => RInv')
    BY <1>1, <1>2, OfTwo
  <1>4. /\ up[n] /\ UNCHANGED <<up, state, joining>> /\ ~election[n].electing
        /\ \A p \in Nodes : ~(state[n][p] = "alive" /\ role[n][p] = "leader")
    BY DEF CheckLeaderHealth
  <1>5. /\ role'[m] = role[m] /\ election'[m] = election[m] /\ older'[m] = older[m]
        /\ election'[n].term = election[n].term + 1 /\ election'[n].electing
        /\ role'[n][n] = "candidate" /\ replicating' = replicating
        /\ net' = Sent(net, n, Higher(n), ElectionStart(election[n].term + 1))
    BY <1>1, HealthRuns
  <1>6. /\ OwnOK(n) /\ KnowsOK(n, m) /\ SaysOK(n, m)
        /\ OwnOK(m) /\ KnowsOK(m, n) /\ SaysOK(m, n)
    BY <1>3 DEF Couple, View
  <1>7. PICK ask : /\ ask = ElectionStart(election[n].term + 1) /\ ask.type = "election_start"
                   /\ ask.term = election[n].term + 1
    <2>1. PICK ask : ask = [type |-> "election_start", term |-> election[n].term + 1]
      OBVIOUS
    <2>2. /\ ask = ElectionStart(election[n].term + 1) /\ ask.type = "election_start"
          /\ ask.term = election[n].term + 1
      BY <2>1 DEF ElectionStart
    <2> QED
      BY <2>2
  <1>8. /\ net'[m][n] = net[m][n]
        /\ net'[n][m] = IF m \in Higher(n) THEN Append(net[n][m], ask) ELSE net[n][m]
    <2>1. \A p, q \in Nodes : Sent(net, n, Higher(n), ask)[p][q] =
              IF p = n /\ q \in Higher(n) THEN Append(net[n][q], ask) ELSE net[p][q]
      BY SentAlong DEF IInv
    <2> QED
      BY <1>1, <1>5, <1>7, <2>1
  <1>9. m \in Higher(n) => state[n][m] = "alive" /\ Priority[m] > Priority[n]
    BY <1>4 DEF Higher
  <1>10. /\ m \notin Higher(n) => net'[n][m] = net[n][m] /\ Held(n, m)' = Held(n, m)
         /\ Held(n, m)' \subseteq Held(n, m) \cup {ask}
         /\ Welcomed(n, m) => Welcomed(n, m)'
         /\ VictoriesKept(n, m)
         /\ WelcomedFirst(n, m) => WelcomedFirst(n, m)'
    <2>1. CASE m \in Higher(n)
      <3>1. net'[n][m] = Append(net[n][m], ask)
        BY <1>8, <2>1
      <3>2. /\ Held(n, m)' = Held(n, m) \cup {ask}
            /\ Welcomed(n, m) => Welcomed(n, m)'
            /\ VictoriesKept(n, m)
            /\ WelcomedFirst(n, m) => WelcomedFirst(n, m)'
        BY <1>5, <3>1, More
      <3> QED
        BY <2>1, <3>2
    <2>2. CASE m \notin Higher(n)
      <3>1. net'[n][m] = net[n][m]
        BY <1>8, <2>2
      <3>2. /\ Held(n, m)' = Held(n, m)
            /\ Welcomed(n, m) => Welcomed(n, m)'
            /\ VictoriesKept(n, m)
            /\ WelcomedFirst(n, m) => WelcomedFirst(n, m)'
        BY <1>5, <3>1, AsMany
      <3> QED
        BY <3>1, <3>2
    <2> QED
      BY <2>1, <2>2
  <1>11. /\ Held(m, n)' = Held(m, n) /\ VictoriesKept(m, n)
         /\ Asks(m, n) => Asks(m, n)'
    BY <1>8, AsMany
  <1>12. election[n].term \in Nat /\ election[m].term \in Nat /\ election'[n].term \in Nat
    BY DEF IInv, Typed, Elections
  <1>13. Rests(m) /\ Onward(n)
    BY <1>4, <1>5, <1>12 DEF Rests, Onward, IsLeader
  <1>14. OwnOK(n)'
    BY <1>4, <1>5, <1>6 DEF OwnOK
  <1>15. KnowsOK(n, m)'
    <2>1. state[n][m] = "unknown" => net'[n][m] = net[n][m]
      BY <1>9, <1>10
    <2> QED
      BY <1>2, <1>4, <1>5, <1>6, <2>1 DEF KnowsOK, Idle, IsFollower
  <1>16. KnowsOK(m, n)'
    <2>1. state[m][n] = "unknown" /\ up[m] => joining[m] # 0
      BY <1>2, <1>4, <1>6 DEF KnowsOK
    <2> QED
      BY <1>4, <1>5, <1>6, <1>8, <1>10, <1>11, <2>1 DEF KnowsOK
  <1>17. SaysOK(n, m)' /\ SaysOK(m, n)'
    <2>1. \A msg \in Messages : /\ Says(msg, n, m) => Says(msg, n, m)'
                                /\ Says(msg, m, n) => Says(msg, m, n)'
      BY <1>4, <1>5, <1>12, SaysStill DEF IInv
    <2>2. CASE m \in Higher(n)
      <3>1. ask.term >= 1 /\ ask.term <= election'[n].term
        BY <1>5, <1>7, <1>12
      <3>2. Says(ask, n, m)'
        BY <1>4, <1>7, <1>9, <2>2, <3>1 DEF Says
      <3> QED
        BY <1>6, <1>10, <1>11, <2>1, <3>2, SaysMore, SaysLess
    <2>3. CASE m \notin Higher(n)
      BY <1>6, <1>10, <1>11, <2>1, <2>3, SaysLess
    <2> QED
      BY <2>2, <2>3
  <1>18. LeadershipTold(n, m)' /\ RetreatTold(n, m)'
    <2>1. ~IsLeader(n) /\ ~IsLeader(n)'
      BY <1>4, <1>5, <1>6 DEF IsLeader, OwnOK
    <2>2. replicating'[n] # On
      BY <1>3, <1>4, <1>5, <2>1 DEF Couple, View, RetreatTold
    <2> QED
      BY <2>1, <2>2 DEF LeadershipTold, RetreatTold
  <1>19. \A s \in Nat : Told(m, n, s) => Told(m, n, s)'
    BY <1>11, <1>12, <1>13, ToldStill DEF IInv
  <1>20. ~(IsLeader(m) /\ Unrivalled(m, n))
    <2> SUFFICES ASSUME IsLeader(m), Unrivalled(m, n)
                 PROVE  FALSE
      OBVIOUS
    <2>1. up[m]
      BY <1>6 DEF OwnOK, Idle, IsLeader, IsFollower
    <2>2. state[m][n] = "alive"
      BY <1>2, <1>4, <1>6, <2>1 DEF Unrivalled, KnowsOK
    <2>3. state[n][m] = "alive" /\ role[n][m] = "leader"
      BY <1>2, <1>6, <2>2 DEF Unrivalled, KnowsOK
    <2> QED
      BY <1>4, <2>3
  <1>21. Couple(n, m)'
    BY <1>1, <1>3, <1>13, <1>14, <1>15, <1>16, <1>17, <1>18, <1>19, <1>20, OneSteps
  <1> QED
    BY <1>3, <1>21

\* Nothing that matters here changes.
LEMMA StillSettled ==
    ASSUME RInv, Undisturbed, UNCHANGED <<up, state, role, joining, net, older, election>>,
           \A n \in Nodes : replicating'[n] = On => replicating[n] = On
    PROVE  RInv'
  <1> SUFFICES ASSUME NEW n \in Nodes, NEW o \in Nodes \ {n}
               PROVE  View(n, o)'
    BY DEF RInv
  <1>1. View(n, o)
    BY DEF RInv
  <1>2. \A p, q \in Nodes : Held(p, q)' = Held(p, q)
    BY DEF Held
  <1>3. \A p \in Nodes : Idle(p) => Idle(p)'
    BY DEF Idle, IsFollower
  <1>4. OwnOK(n)'
    BY <1>1, <1>3 DEF View, OwnOK
  <1>5. KnowsOK(n, o)'
    BY <1>1, <1>2, <1>3 DEF View, KnowsOK, Asks, Welcomed, WelcomedFirst
  <1>6. SaysOK(n, o)'
    BY <1>1, <1>2 DEF View, SaysOK, Says
  <1>7. ASSUME NEW t, Told(n, o, t)
        PROVE  Told(n, o, t)'
    BY <1>2, <1>7 DEF Told, IsLeader
  <1>8. Unrivalled(n, o) => Unrivalled(n, o)'
    BY <1>2, <1>3 DEF Unrivalled, Presents
  <1>9. LeadershipTold(n, o)'
    <2> SUFFICES ASSUME IsLeader(n)'
                 PROVE  Told(n, o, election[n].term)' \/ Unrivalled(n, o)'
      BY DEF LeadershipTold
    <2>1. PICK t : t = election[n].term /\ t = election'[n].term
      OBVIOUS
    <2>2. Told(n, o, t) \/ Unrivalled(n, o)
      BY <1>1, <2>1 DEF View, LeadershipTold, IsLeader
    <2>3. Told(n, o, t)' => Told(n, o, election[n].term)'
      BY <2>1 DEF Told
    <2> QED
      BY <1>7, <1>8, <2>2, <2>3
  <1>10. RetreatTold(n, o)'
    <2> SUFFICES ASSUME (replicating[n] = On /\ ~IsLeader(n))'
                 PROVE  /\ election'[n].electing /\ Priority[n] > Priority[o]
                        /\ \E t \in Nat : Told(n, o, t)' /\ Ahead(n, o, t)'
      BY DEF RetreatTold
    <2>1. /\ election[n].electing /\ Priority[n] > Priority[o]
          /\ \E t \in Nat : Told(n, o, t) /\ Ahead(n, o, t)
      BY <1>1 DEF View, RetreatTold, IsLeader
    <2>2. PICK t \in Nat : Told(n, o, t) /\ Ahead(n, o, t)
      BY <2>1
    <2>3. Told(n, o, t)' /\ Ahead(n, o, t)'
      BY <1>7, <2>2 DEF Ahead
    <2> QED
      BY <2>1, <2>3
  <1> QED
    BY <1>4, <1>5, <1>6, <1>9, <1>10 DEF View

\* No node runs at the start.
LEMMA StartsSettled == Init => RInv
  <1> SUFFICES ASSUME Init, NEW n \in Nodes, NEW o \in Nodes \ {n}
               PROVE  View(n, o)
    BY DEF RInv
  <1>1. \A p \in Nodes : Idle(p) /\ ~IsLeader(p)
    BY DEF Init, Idle, IsFollower, IsLeader, NoElection, Followers, On, Off
  <1>2. OwnOK(n)
    BY <1>1 DEF Init, OwnOK, Alone, Followers, NoElection
  <1>3. KnowsOK(n, o) /\ SaysOK(n, o)
    BY DEF Init, KnowsOK, SaysOK, Held, Alone
  <1> QED
    BY <1>1, <1>2, <1>3 DEF View, LeadershipTold, RetreatTold, Idle

\* Nobody leaves, is given up or falls silent.
LEMMA NobodyLeaves ==
    ASSUME IInv, RInv, MutualSeeds, Undisturbed',
           NEW m \in Nodes, NEW n \in Nodes, NEW i, HandleLeave(m, n, i)
    PROVE  FALSE
  BY Got DEF HandleLeave, Arrives, Says

LEMMA NobodyIsSuspected ==
    ASSUME IInv, RInv, MutualSeeds, Undisturbed', NEW n \in Nodes, NEW m \in Nodes,
           Suspect(n, m) \/ DeclareDead(n, m)
    PROVE  FALSE
  <1>1. /\ m # n /\ state[n][m] \in {"alive", "suspect"}
        /\ Spends(IF Silent(m, n) THEN 0 ELSE 1, 0)
    BY DEF Suspect, DeclareDead, BuryPeer, Spend
  <1>2. Undisturbed /\ Silent(m, n)
    BY <1>1, NothingLate DEF IInv
  <1>3. KnowsOK(n, m) /\ KnowsOK(m, n)
    BY <1>1, <1>2, OfTwo DEF Couple, View
  <1> QED
    BY <1>1, <1>2, <1>3 DEF KnowsOK, Silent

LEMMA NobodyGivesUp ==
    ASSUME IInv, Undisturbed', NEW n \in Nodes, NEW r, RequestTimeout(n, r)
    PROVE  FALSE
  BY NothingLate DEF RequestTimeout, Spend, IInv

LEMMA NobodyEnds ==
    ASSUME IInv, Undisturbed', NEW n \in Nodes, End(n)
    PROVE  FALSE
  BY DEF End, Undisturbed, IInv, Typed

LEMMA RaceStep ==
    ASSUME IInv, IInv', RInv, MutualSeeds, [Next]_evars
    PROVE  RInv'
  <1> SUFFICES ASSUME Undisturbed' PROVE RInv'
    BY DEF RInv
  <1>1. ASSUME NEW m \in Nodes, NEW n \in Nodes, Delivery(m, n)
        PROVE  RInv'
    <2>1. PICK i \in DOMAIN net[m][n] : Message(m, n, i) \/ Failure(m, n, i)
      BY <1>1 DEF Delivery
    <2>2. CASE Message(m, n, i)
      BY <2>2, HeartbeatHeard, JoinHeard, RosterHeard, NobodyLeaves,
         ElectionStartHeard, AnswerHeard, VictoryHeard DEF Message
    <2>3. CASE Failure(m, n, i)
      BY <2>3, FailureSettled
    <2> QED
      BY <2>1, <2>2, <2>3
  <1>2. ASSUME NEW n \in Nodes, NEW m \in Nodes, Detect(n, m)
        PROVE  RInv'
    BY <1>2, NobodyIsSuspected DEF Detect
  <1>3. ASSUME NEW n \in Nodes, Heartbeat(n) /\ Quiet
        PROVE  RInv'
    BY <1>3, HeartbeatSent
  <1>4. ASSUME NEW n \in Nodes, Timeout(n)
        PROVE  RInv'
    BY <1>4, CheckSettled, TimerSettled, NobodyGivesUp DEF Timeout
  <1>5. ASSUME NEW n \in Nodes, Start(n) \/ Crash(n) \/ Stop(n)
        PROVE  RInv'
    BY <1>5, StartSettled, NobodyEnds DEF Crash, Stop
  <1>6. ASSUME NEW n \in Nodes, Operate(n)
        PROVE  RInv'
    <2>1. UNCHANGED <<up, state, role, joining, net, older, election, late, stops, races>>
      BY <1>6 DEF Operate, PostReplica, DeleteReplica, SetEnabled, Command, Quiet, views
    <2>2. \A p \in Nodes : replicating'[p] = On => replicating[p] = On
      BY <1>6, CommandedOff
    <2> QED
      BY <2>1, <2>2, StillSettled DEF Undisturbed
  <1>7. CASE UNCHANGED evars
    BY <1>7, StillSettled DEF evars, views, counts, Undisturbed
  <1> QED
    BY <1>1, <1>2, <1>3, <1>4, <1>5, <1>6, <1>7 DEF Next

\* Of two that lead, the victory of one is under way to the other.
LEMMA LeadersAnnounce ==
    ASSUME IInv, RInv, MutualSeeds, Undisturbed, NEW m \in Nodes, NEW n \in Nodes,
           Leads(m), Leads(n), m # n
    PROVE  Announces(m, n) \/ Announces(n, m)
  <1>1. Couple(m, n)
    BY OfTwo
  <1>2. /\ election[m].term \in Nat /\ election[n].term \in Nat
        /\ Priority[m] \in Nat /\ Priority[n] \in Nat
    BY PriorityAssumption DEF IInv, Typed, Elections
  <1>3. ASSUME NEW p \in Nodes, NEW q \in Nodes, NEW t \in Nat, Told(p, q, t),
               election[q].term \in Nat, election[q].electing \/ IsLeader(q), ~Announces(p, q)
        PROVE  election[q].term > t
    <2>1. ASSUME NEW msg \in Held(p, q), msg.type = "victory", msg.term = t
          PROVE  ~(t >= election[q].term)
      BY <1>3, <2>1 DEF Announces, Held
    <2> QED
      BY <1>3, <2>1 DEF Told
  <1>4. ASSUME NEW p \in Nodes, NEW q \in Nodes, {p, q} = {m, n}, IsLeader(p), ~Announces(p, q)
        PROVE  election[q].term > election[p].term
    <2>1. p # q /\ Couple(p, q) /\ Leads(p) /\ Leads(q)
      BY <1>1, <1>4 DEF Couple
    <2>2. /\ election[q].electing \/ IsLeader(q)
          /\ ~Idle(q)
      BY <2>1 DEF Couple, View, RetreatTold, Leads, IsLeader, Idle, IsFollower
    <2>3. Told(p, q, election[p].term)
      BY <1>4, <2>1, <2>2 DEF Couple, View, LeadershipTold, Unrivalled
    <2>4. PICK t \in Nat : t = election[p].term
      BY <1>2, <1>4
    <2>5. election[q].term \in Nat
      BY <1>2, <1>4
    <2>6. Told(p, q, t)
      BY <2>3, <2>4
    <2> QED
      BY <1>3, <1>4, <2>2, <2>4, <2>5, <2>6
  <1>5. ASSUME NEW p \in Nodes, NEW q \in Nodes, {p, q} = {m, n}, IsLeader(p), ~IsLeader(q)
        PROVE  Announces(p, q) \/ Announces(q, p)
    <2> SUFFICES ASSUME ~Announces(p, q), ~Announces(q, p)
                 PROVE  FALSE
      OBVIOUS
    <2>1. Couple(p, q) /\ Leads(q) /\ election[p].term \in Nat /\ election[q].term \in Nat
      BY <1>1, <1>2, <1>5 DEF Couple
    <2>2. \E t \in Nat : Told(q, p, t) /\ Ahead(q, p, t)
      BY <1>5, <2>1 DEF Couple, View, RetreatTold, Leads, IsLeader
    <2>3. PICK t \in Nat : Told(q, p, t) /\ Ahead(q, p, t)
      BY <2>2
    <2>4. election[p].term > t
      BY <1>3, <1>5, <2>1, <2>3
    <2>5. election[q].term > election[p].term
      BY <1>4, <1>5
    <2> QED
      BY <2>1, <2>3, <2>4, <2>5 DEF Ahead
  <1>6. CASE IsLeader(m) /\ IsLeader(n)
    <2> SUFFICES ASSUME ~Announces(m, n), ~Announces(n, m)
                 PROVE  FALSE
      OBVIOUS
    <2>1. election[n].term > election[m].term /\ election[m].term > election[n].term
      BY <1>4, <1>6
    <2> QED
      BY <1>2, <2>1
  <1>7. CASE ~IsLeader(m) /\ ~IsLeader(n)
    <2>1. Priority[m] > Priority[n] /\ Priority[n] > Priority[m]
      BY <1>1, <1>7 DEF Couple, View, RetreatTold, Leads, IsLeader
    <2> QED
      BY <1>2, <2>1
  <1> QED
    BY <1>5, <1>6, <1>7

-----------------------------------------------------------------------------
\* Two nodes that are each other's seed, of any priorities, in whatever order
\* they start, join, exchange heartbeats and elect, and whatever message or
\* timer comes first: until a process ends or a message is late, one of them
\* at most is the leader or replicates as one; two do only after a race, and
\* the victory of one is then under way to the other, which will accept it.
THEOREM OneLeads == ASSUME MutualSeeds PROVE Spec => []AtMostOneLeads
  <1>1. Init => DInv /\ RInv
    BY StartsInCalm, StartsSettled DEF DInv
  <1>2. IInv /\ DInv /\ [Next]_evars => DInv'
    BY CalmStep
  <1>3. IInv /\ IInv' /\ RInv /\ [Next]_evars => RInv'
    BY RaceStep
  <1>4. IInv /\ DInv /\ RInv => AtMostOneLeads
    <2> SUFFICES ASSUME IInv, DInv, RInv, Undisturbed, NEW m \in Nodes, NEW n \in Nodes,
                        Leads(m), Leads(n), m # n
                 PROVE  races > 0 /\ (Announces(m, n) \/ Announces(n, m))
      BY DEF AtMostOneLeads, Undisturbed
    <2>1. ASSUME races = 0
          PROVE  FALSE
      <3>1. Both(m, n)
        BY <2>1 DEF DInv, Duo, Calm, Undisturbed
      <3>2. IsLeader(m) /\ IsLeader(n)
        BY <3>1 DEF Both, OnceOK, Leads, IsLeader
      <3> QED
        BY <3>1, <3>2 DEF Both, LeadOK
    <2>2. races > 0
      BY <2>1 DEF IInv, Typed
    <2> QED
      BY <2>2, LeadersAnnounce
  <1> QED
    BY <1>1, <1>2, <1>3, <1>4, Inductive, PTL DEF Spec
=============================================================================
