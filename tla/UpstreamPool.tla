---------------------------- MODULE UpstreamPool -----------------------------
(***************************************************************************)
(* One upstream pool (internal/proxy/upstream.go): the balancer that       *)
(* requests call through Rewrite, the passive breaker their answers feed,  *)
(* and the active prober.  The fields of a node are separate atomics, so   *)
(* every report is one step per field; the choice of a node holds the      *)
(* pool's mutex and is one step.                                           *)
(*                                                                         *)
(* The algorithm is wrr, which source_ip falls back to on this path.       *)
(* Time is what the passive deadline still has to run, in ticks.           *)
(***************************************************************************)
EXTENDS Naturals, Integers, Sequences, FiniteSetsExt

CONSTANTS
  Weight,     \* the weights, by position in the node list
  Threshold,  \* fail_threshold
  Cooldown,   \* cooldown_sec, in ticks
  Active,     \* the prober runs
  Proxied,    \* requests forwarded at the same time
  MaxFlap     \* bound: times a backend goes down

ASSUME UpstreamPoolAssumption ==
  /\ Weight \in Seq(Nat \ {0}) /\ Weight # <<>>
  /\ Threshold \in Nat \ {0} /\ Cooldown \in Nat \ {0}
  /\ Active \in BOOLEAN /\ IsFiniteSet(Proxied) /\ MaxFlap \in Nat

VARIABLES
  cw,       \* current weights of the smooth round-robin
  cursor,   \* Pool.cursor, modulo the number of nodes
  healthy,  \* nodeState.healthy
  fails,    \* nodeState.fails
  down,     \* ticks until downUntil
  prober,   \* the probe goroutine: where it is, and the node it is at
  forwards, \* the requests: where they are, and their node
  alive,    \* the backends that answer below 500
  flaps,    \* times a backend went down
  streak,   \* history: failures counted since the last success of each node
  served    \* history: picks of the current round, while no node was ever out

poolVars == <<cw, cursor, healthy, fails, down, prober, forwards, alive, flaps, streak, served>>

Node  == 1..Len(Weight)

Sum(f, S) == MapThenSumSet(LAMBDA n : f[n], S)
Total     == Sum(Weight, Node)
Zero  == [n \in Node |-> 0]

PoolInit ==
  /\ cw = Zero /\ cursor = 0
  /\ healthy = [n \in Node |-> TRUE] /\ fails = Zero /\ down = Zero
  /\ prober = [pc |-> "tick", node |-> 1]
  /\ forwards = [q \in Proxied |-> [pc |-> "idle", node |-> 1]]
  /\ alive = Node /\ flaps = 0
  /\ streak = Zero /\ served = [ok |-> TRUE, picks |-> Zero]

-----------------------------------------------------------------------------
(* Choosing a node.                                                        *)

Available == {n \in Node : healthy[n] /\ down[n] = 0}

\* Bug of Raised: nodes out of service keep collecting weight.
RaisedAll == [n \in Node |-> cw[n] + Weight[n]]
Raised == [n \in Node |-> IF n \in Available THEN cw[n] + Weight[n] ELSE cw[n]]

\* Bug of Heavier: the configured weights are compared.
HeavierByWeight(m, n) == Weight[m] > Weight[n]
Heavier(m, n) == Raised[m] > Raised[n]

\* The first node of the list among the heaviest.
Best ==
  CHOOSE n \in Available :
    \A m \in Available : ~Heavier(m, n) /\ (m < n => Heavier(n, m))

Charge == Sum(Weight, Available)

\* One more pick of the round; a finished round starts over.
Tally(n) ==
  [ok    |-> served.ok /\ Available = Node,
   picks |-> IF ~served.ok \/ Available # Node THEN Zero
             ELSE IF Sum(served.picks, Node) = Total
                  THEN [Zero EXCEPT ![n] = 1]
                  ELSE [served.picks EXCEPT ![n] = @ + 1]]

Send(q, n) == forwards' = [forwards EXCEPT ![q] = [pc |-> "sent", node |-> n]]

PickAvailable(q) ==
  /\ forwards[q].pc = "idle"
  /\ Available # {}
  /\ LET n == Best
     IN /\ cw' = [Raised EXCEPT ![n] = @ - Charge]
        /\ Send(q, n)
        /\ served' = Tally(n)
  /\ UNCHANGED <<cursor, healthy, fails, down, prober, alive, flaps, streak>>

\* Every node is out: plain rotation.
PickFailOpen(q) ==
  /\ forwards[q].pc = "idle"
  /\ Available = {}
  /\ Send(q, cursor + 1)
  /\ cursor' = (cursor + 1) % Len(Weight)
  /\ served' = [ok |-> FALSE, picks |-> Zero]
  /\ UNCHANGED <<cw, healthy, fails, down, prober, alive, flaps, streak>>

-----------------------------------------------------------------------------
(* Answers.                                                                *)

Go(q, pc) == forwards' = [forwards EXCEPT ![q].pc = pc]

Opens(n) == fails[n] + 1 >= Threshold

\* Any backend may answer 500 to a request, or not at all.  ReportFailure: fails.Add ...
Fail(q) ==
  /\ forwards[q].pc = "sent"
  /\ fails' = [fails EXCEPT ![forwards[q].node] = @ + 1]
  /\ streak' = [streak EXCEPT ![forwards[q].node] = @ + 1]
  /\ IF Opens(forwards[q].node) THEN Go(q, "open") ELSE Go(q, "idle")
  /\ UNCHANGED <<cw, cursor, healthy, down, prober, alive, flaps, served>>

\* ... downUntil.Store ...
Open(q) ==
  /\ forwards[q].pc = "open"
  /\ down' = [down EXCEPT ![forwards[q].node] = Cooldown]
  /\ Go(q, "reset")
  /\ UNCHANGED <<cw, cursor, healthy, fails, prober, alive, flaps, streak, served>>

\* ... and fails.Store(0).
Reset(q) ==
  /\ forwards[q].pc = "reset"
  /\ fails' = [fails EXCEPT ![forwards[q].node] = 0]
  /\ Go(q, "idle")
  /\ streak' = [streak EXCEPT ![forwards[q].node] = 0]
  /\ UNCHANGED <<cw, cursor, healthy, down, prober, alive, flaps, served>>

\* Bug of Recovers: a node the prober took out stays out.
RecoversNot(n) == healthy[n]
Recovers(n) == TRUE

\* ReportSuccess: healthy.Swap(true) ...
MarkHealthy(n) == healthy' = [healthy EXCEPT ![n] = Recovers(n)]

Forgiven(n) == 0

\* ... fails.Store(0) ...
Forgive(n) ==
  /\ fails' = [fails EXCEPT ![n] = Forgiven(n)]
  /\ streak' = [streak EXCEPT ![n] = 0]

\* ... and downUntil.Store(0).
CloseBreaker(n) == down' = [down EXCEPT ![n] = 0]

\* Only a living backend answers below 500.
Succeed(q) ==
  LET n == forwards[q].node IN
  \/ /\ forwards[q].pc = "sent" /\ n \in alive
     /\ MarkHealthy(n) /\ Go(q, "forgive")
     /\ UNCHANGED <<cw, cursor, fails, down, prober, alive, flaps, streak, served>>
  \/ /\ forwards[q].pc = "forgive" /\ Forgive(n) /\ Go(q, "close")
     /\ UNCHANGED <<cw, cursor, healthy, down, prober, alive, flaps, served>>
  \/ /\ forwards[q].pc = "close" /\ CloseBreaker(n) /\ Go(q, "idle")
     /\ UNCHANGED <<cw, cursor, healthy, fails, prober, alive, flaps, streak, served>>

-----------------------------------------------------------------------------
(* The prober: the nodes in order, one after the other.                    *)

Probing(pc) == Active /\ prober.pc = pc
NextNode == IF prober.node = Len(Weight) THEN [pc |-> "tick", node |-> 1]
                                         ELSE [pc |-> "get", node |-> prober.node + 1]

ProbeTick ==
  /\ Probing("tick")
  /\ prober' = [pc |-> "get", node |-> 1]
  /\ UNCHANGED <<cw, cursor, healthy, fails, down, forwards, alive, flaps, streak, served>>

\* The probe gets its answer, or runs into its timeout.
ProbeAnswer ==
  /\ Probing("get")
  /\ prober' = [prober EXCEPT !.pc = IF prober.node \in alive THEN "up" ELSE "fail"]
  /\ UNCHANGED <<cw, cursor, healthy, fails, down, forwards, alive, flaps, streak, served>>

ProbeFail ==
  /\ Probing("fail")
  /\ healthy' = [healthy EXCEPT ![prober.node] = FALSE]
  /\ prober' = NextNode
  /\ UNCHANGED <<cw, cursor, fails, down, forwards, alive, flaps, streak, served>>

\* ReportSuccess again.
ProbeSuccess ==
  LET n == prober.node IN
  \/ /\ Probing("up") /\ MarkHealthy(n) /\ prober' = [prober EXCEPT !.pc = "forgive"]
     /\ UNCHANGED <<cw, cursor, fails, down, forwards, alive, flaps, streak, served>>
  \/ /\ Probing("forgive") /\ Forgive(n) /\ prober' = [prober EXCEPT !.pc = "close"]
     /\ UNCHANGED <<cw, cursor, healthy, down, forwards, alive, flaps, served>>
  \/ /\ Probing("close") /\ CloseBreaker(n) /\ prober' = NextNode
     /\ UNCHANGED <<cw, cursor, healthy, fails, forwards, alive, flaps, streak, served>>

-----------------------------------------------------------------------------
(* The environment.                                                        *)

Tick ==
  /\ \E n \in Node : down[n] > 0
  /\ down' = [n \in Node |-> IF down[n] = 0 THEN 0 ELSE down[n] - 1]
  /\ UNCHANGED <<cw, cursor, healthy, fails, prober, forwards, alive, flaps, streak, served>>

BackendDown(n) ==
  /\ n \in alive /\ flaps < MaxFlap
  /\ alive' = alive \ {n} /\ flaps' = flaps + 1
  /\ UNCHANGED <<cw, cursor, healthy, fails, down, prober, forwards, streak, served>>

BackendUp(n) ==
  /\ n \notin alive
  /\ alive' = alive \cup {n}
  /\ UNCHANGED <<cw, cursor, healthy, fails, down, prober, forwards, flaps, streak, served>>

-----------------------------------------------------------------------------

Forward(q) ==
  \/ PickAvailable(q) \/ PickFailOpen(q)
  \/ Fail(q) \/ Open(q) \/ Reset(q) \/ Succeed(q)

Probe == ProbeTick \/ ProbeAnswer \/ ProbeFail \/ ProbeSuccess

PoolNext ==
  \/ \E q \in Proxied : Forward(q)
  \/ Probe
  \/ Tick
  \/ \E n \in Node : BackendDown(n) \/ BackendUp(n)

PoolSpec == PoolInit /\ [][PoolNext]_poolVars

\* The probe goroutine is scheduled, its ticker fires and its client has a timeout.
PoolFairSpec == PoolSpec /\ WF_poolVars(Probe)

-----------------------------------------------------------------------------
(* What the pool promises.                                                 *)

\* The requests between fails.Add and fails.Store(0).
Opening(n) == {q \in Proxied : forwards[q].pc \in {"open", "reset"} /\ forwards[q].node = n}

\* Every variable keeps its type; the count of a node's failures exceeds the threshold
\* only by the requests that are opening its breaker (upstream.go:233-241).
PoolTypeOK ==
  /\ cw \in [Node -> Int] /\ cursor \in 0..(Len(Weight) - 1)
  /\ healthy \in [Node -> BOOLEAN]
  /\ fails \in [Node -> Nat]
  /\ \A n \in Node : fails[n] < Threshold + Cardinality(Opening(n))
  /\ down \in [Node -> 0..Cooldown]
  /\ prober \in [pc : {"tick", "get", "fail", "up", "forgive", "close"}, node : Node]
  /\ forwards \in [Proxied -> [pc : {"idle", "sent", "open", "reset", "forgive", "close"},
                          node : Node]]
  /\ alive \subseteq Node /\ flaps \in 0..MaxFlap
  /\ streak \in [Node -> Nat] /\ served \in [ok : BOOLEAN, picks : [Node -> Nat]]

\* Whatever nodes go in and out of service, what one node is owed another has had in
\* advance: the current weights always sum to zero (upstream.go:122-133).
WeightsBalance == Sum(cw, Node) = 0

\* In a pool of up to three nodes, none is owed a full round, or has had one in advance:
\* a node that comes back is not flooded (upstream.go:112-135).  Among four uneven ones
\* a node can be owed one: Weight <<1, 1, 1, 5>>, Threshold 1, Cooldown 2.
NoNodeIsFlooded ==
  Len(Weight) <= 3 => \A n \in Node : cw[n] \in (1 - Total)..(Total - 1)

\* While every node is up, each round of Total picks gives every node exactly its
\* weight, however requests interleave (docs/CONFIG.md:40).
RoundIsFair ==
  served.ok
    /\ Sum(served.picks, Node) = Total
  => \A n \in Node : served.picks[n] = Weight[n]

\* The breaker counts consecutive failures: never more than were reported since the
\* last success or opening, in whatever order reports overlap (upstream.go:230-231).
FailuresAreConsecutive == \A n \in Node : fails[n] <= streak[n]

\* A backend that stays up is available again, or goes down again: neither the
\* prober's verdict nor an open breaker is for ever (upstream.go:218-228, 274-326).
RecoveredNodeServes ==
  \A n \in Node : n \in alive ~> (n \in Available \/ n \notin alive)
=============================================================================
