-------------------------- MODULE PeersWalletProofs -------------------------
(***************************************************************************)
(* Proofs about three components that the rest of the node calls.          *)
(* Wallet, for every number of keys, seeds and imported keys, with crashes *)
(* and failed writes.  Peers, for every set of connections, however they   *)
(* share addresses, every limit and every interleaving of handlers with    *)
(* the goroutines that close their connections, panics included.           *)
(* BoundedHashSet, for every capacity.                                     *)
(***************************************************************************)
EXTENDS Wallet, Peers, BoundedHashSet, WellFoundedInduction, TLAPS
-----------------------------------------------------------------------------
(* The table of peers. *)

Stages == {"unused", "free", "handshake", "up", "closing"}

Live(c) == stage[c] \in {"up", "closing"}

(* The inductive invariant: the types of the table and of what it refers    *)
(* to, a handler between the two updates of a height is in its read loop,   *)
(* and the three properties, which need one another: the best height has a  *)
(* live witness after an Unregister because the table is live.              *)
PeersInv ==
  /\ stage \in [Conns -> Stages]
  /\ peers \in [Addrs -> Conns \cup {NoConn}]
  /\ height \in [Conns -> 0..MaxHeight]
  /\ best \in 0..MaxHeight
  /\ updating \in [Conns -> 0..MaxHeight]
  /\ \A c \in Conns : updating[c] <= height[c] /\ (updating[c] > 0 => stage[c] = "up")
  /\ TableIsLive /\ TrackedUntilReturn /\ BestHeightSound

-----------------------------------------------------------------------------
(* A set of naturals has a least element: the form in which the provers can *)
(* use induction.                                                           *)
LEMMA LeastElement ==
  ASSUME NEW T, T \subseteq Nat, T # {}
  PROVE  \E x \in T : \A y \in T : x <= y
<1> DEFINE R == {ss \in Nat \X Nat : ss[1] < ss[2]}
<1>1. IsWellFoundedOn(R, Nat)
  BY NatLessThanWellFounded DEF OpToRel
<1>2. \A x, y \in Nat : x < y => <<x, y>> \in R
  OBVIOUS
<1> HIDE DEF R
<1>3. PICK x \in T : \A y \in T : ~(<<y, x>> \in R)
  BY <1>1, WFMin, Zenon
<1>4. ASSUME NEW y \in T PROVE x <= y
  <2>1. x \in Nat /\ y \in Nat
    OBVIOUS
  <2>2. ~(y < x)
    BY <2>1, <1>2, <1>3, Zenon
  <2> QED BY <2>1, <2>2
<1> QED BY <1>4

(* Max of a bounded set of heights is one of them, and none is greater. *)
LEMMA MaxOfBounded ==
  ASSUME NEW n \in Nat, NEW S, S \subseteq 0..n, S # {}
  PROVE  Max(S) \in S /\ \A y \in S : Max(S) >= y
<1> DEFINE T == {n - y : y \in S}
<1>1. T \subseteq Nat /\ T # {}
  OBVIOUS
<1>2. PICK t \in T : \A u \in T : t <= u
  BY <1>1, LeastElement, Zenon
<1>3. PICK x \in S : t = n - x
  OBVIOUS
<1>4. ASSUME NEW y \in S PROVE x >= y
  <2>1. n - x <= n - y
    BY <1>2, <1>3
  <2>2. x \in 0..n /\ y \in 0..n
    OBVIOUS
  <2> QED BY <2>1, <2>2
<1>5. \E z \in S : \A y \in S : z >= y
  BY <1>4, Zenon
<1> QED BY <1>5, Zenon DEF Max

(* Max as Register and the block handler use it. *)
LEMMA MaxOfTwo ==
  ASSUME NEW x \in 0..MaxHeight, NEW y \in 0..MaxHeight
  PROVE  /\ Max({x, y}) \in 0..MaxHeight /\ Max({x, y}) \in {x, y}
         /\ Max({x, y}) >= x /\ Max({x, y}) >= y
  BY MaxOfBounded, PeersAssumption

-----------------------------------------------------------------------------
(* A connection that moves from one stage to another outside the table's    *)
(* lock: not to "up", and only to "closing" once it is live.                *)
LEMMA StageInv ==
  ASSUME PeersInv, NEW c \in Conns, NEW s \in Stages \ {"unused", "up"},
         stage' = [stage EXCEPT ![c] = s], stage[c] # "unused", Live(c) => s = "closing",
         updating[c] = 0, UNCHANGED <<peers, height, updating, best>>
  PROVE  PeersInv'
<1>1. /\ stage' \in [Conns -> Stages]
      /\ \A d \in Conns : d # c => stage'[d] = stage[d]
      /\ \A d \in Conns : stage[d] # "unused" => stage'[d] # "unused"
      /\ \A d \in Conns : stage'[d] = "up" => stage[d] = "up"
      /\ \A d \in Conns : Live(d) => stage'[d] \in {"up", "closing"}
  BY DEF PeersInv, Stages, Live
<1>2. /\ updating' \in [Conns -> 0..MaxHeight]
      /\ \A d \in Conns : updating'[d] <= height'[d] /\ (updating'[d] > 0 => stage'[d] = "up")
  BY <1>1 DEF PeersInv
<1>3. TableIsLive'
  BY <1>1 DEF PeersInv, TableIsLive, Live
<1>4. TrackedUntilReturn'
  BY <1>1 DEF PeersInv, TrackedUntilReturn
<1>5. BestHeightSound'
  BY <1>1 DEF PeersInv, BestHeightSound, Registered, Live
<1> QED BY <1>1, <1>2, <1>3, <1>4, <1>5 DEF PeersInv

(* Steps of other goroutines, of time, and of a handler that touch no       *)
(* height, no stage and not the table.                                      *)
LEMMA QuietInv ==
  ASSUME PeersInv, UNCHANGED <<stage, peers, height, updating, best>>
  PROVE  PeersInv'
  BY DEF PeersInv, TableIsLive, TrackedUntilReturn, BestHeightSound, Registered

(* Registration: the connection takes its address over, whoever had it. *)
LEMMA RegisterInv ==
  ASSUME PeersInv, NEW c \in Conns, Register(c)
  PROVE  PeersInv'
<1>1. /\ stage[c] = "handshake" /\ stage' = [stage EXCEPT ![c] = "up"]
      /\ height' = [height EXCEPT ![c] = StartHeight]
      /\ peers' = [peers EXCEPT ![Addr[c]] = c]
      /\ best' = Max({best, StartHeight}) /\ updating' = updating
  BY DEF Register
<1>2. /\ best' \in 0..MaxHeight /\ best' \in {best, StartHeight}
      /\ best' >= best /\ best' >= StartHeight /\ StartHeight \in 0..MaxHeight
  BY <1>1, MaxOfTwo, PeersAssumption DEF PeersInv
<1>3. Addr[c] \in Addrs
  BY DEF Addrs
<1>4. /\ stage' \in [Conns -> Stages] /\ peers' \in [Addrs -> Conns \cup {NoConn}]
      /\ height' \in [Conns -> 0..MaxHeight]
  BY <1>1, <1>2, <1>3 DEF PeersInv, Stages
<1>5. /\ updating' \in [Conns -> 0..MaxHeight]
      /\ \A d \in Conns : updating'[d] <= height'[d] /\ (updating'[d] > 0 => stage'[d] = "up")
  <2>1. updating[c] = 0
    BY <1>1 DEF PeersInv
  <2> QED BY <1>1, <1>2, <2>1 DEF PeersInv
<1>6. TableIsLive'
  BY <1>1, <1>3 DEF PeersInv, TableIsLive
<1>7. TrackedUntilReturn'
  BY <1>1, <1>3 DEF PeersInv, TrackedUntilReturn, Addrs
<1>8. best' > 0 => \E d \in Conns : stage'[d] \in {"up", "closing"} /\ height'[d] >= best'
  <2>1. CASE best' = StartHeight
    BY <1>1, <1>2, <2>1 DEF PeersInv
  <2>2. CASE best' = best
    BY <1>1, <2>2 DEF PeersInv, BestHeightSound
  <2> QED BY <1>2, <2>1, <2>2
<1>9. ASSUME NEW d \in Registered' PROVE height'[d] <= best' \/ height'[d] <= updating'[d]
  <2>1. CASE d = c
    BY <1>1, <1>2, <2>1 DEF PeersInv
  <2>2. CASE d # c
    <3>1. d \in Registered /\ d \in Conns
      BY <1>1, <1>3, <2>2 DEF PeersInv, Registered
    <3>2. height'[d] = height[d] /\ height[d] \in 0..MaxHeight /\ best \in 0..MaxHeight
      BY <1>1, <2>2, <3>1 DEF PeersInv
    <3>3. height[d] <= best \/ height[d] <= updating[d]
      BY <3>1 DEF PeersInv, BestHeightSound
    <3> QED BY <1>1, <1>2, <3>2, <3>3, PeersAssumption
  <2> QED BY <2>1, <2>2
<1> QED BY <1>2, <1>4, <1>5, <1>6, <1>7, <1>8, <1>9 DEF PeersInv, BestHeightSound

(* A block arrives: the connection's own height first ... *)
LEMMA RaiseHeightInv ==
  ASSUME PeersInv, NEW c \in Conns, NEW h \in 1..MaxHeight, RaiseHeight(c, h)
  PROVE  PeersInv'
<1>1. /\ stage[c] = "up" /\ height' = [height EXCEPT ![c] = Max({height[c], h})]
      /\ updating[c] = 0 /\ updating' = [updating EXCEPT ![c] = h]
      /\ UNCHANGED <<stage, peers, best>>
  BY DEF RaiseHeight, Reads, lock, PeersInv
<1>2. height[c] \in 0..MaxHeight /\ h \in 0..MaxHeight
  BY PeersAssumption DEF PeersInv
<1>3. /\ Max({height[c], h}) \in 0..MaxHeight /\ Max({height[c], h}) \in {height[c], h}
      /\ Max({height[c], h}) >= height[c] /\ Max({height[c], h}) >= h
  BY <1>2, MaxOfTwo
<1>4. /\ height' \in [Conns -> 0..MaxHeight]
      /\ \A d \in Conns : height'[d] >= height[d] /\ (d # c => height'[d] = height[d])
  <2>1. height' \in [Conns -> 0..MaxHeight]
    BY <1>1, <1>3 DEF PeersInv
  <2>2. height'[c] >= height[c] /\ \A d \in Conns : d # c => height'[d] = height[d]
    BY <1>1, <1>3 DEF PeersInv
  <2>3. \A d \in Conns : height[d] >= height[d]
    BY PeersAssumption DEF PeersInv
  <2> QED BY <2>1, <2>2, <2>3
<1>5. TableIsLive' /\ TrackedUntilReturn'
  BY <1>1 DEF PeersInv, TableIsLive, TrackedUntilReturn
<1>6. best' > 0 => \E d \in Conns : stage'[d] \in {"up", "closing"} /\ height'[d] >= best'
  <2>1. SUFFICES ASSUME best > 0
                 PROVE  \E d \in Conns : stage[d] \in {"up", "closing"} /\ height'[d] >= best
    BY <1>1
  <2>2. PICK d \in Conns : stage[d] \in {"up", "closing"} /\ height[d] >= best
    BY <2>1 DEF PeersInv, BestHeightSound
  <2>3. height'[d] >= best
    BY <1>4, <2>2, PeersAssumption DEF PeersInv
  <2> QED BY <2>2, <2>3
<1>7. ASSUME NEW d \in Registered' PROVE height'[d] <= best' \/ height'[d] <= updating'[d]
  <2>1. d \in Registered /\ d \in Conns
    BY <1>1 DEF PeersInv, Registered
  <2>2. height[d] <= best \/ height[d] <= updating[d]
    BY <2>1 DEF PeersInv, BestHeightSound
  <2>3. CASE d = c
    <3>1. height[c] <= best
      BY <1>1, <1>2, <2>2, <2>3, PeersAssumption DEF PeersInv
    <3>2. height'[c] \in {height[c], h} /\ updating'[c] = h
      BY <1>1, <1>3 DEF PeersInv
    <3> QED BY <1>1, <1>2, <2>3, <3>1, <3>2, PeersAssumption
  <2>4. CASE d # c
    BY <1>1, <1>4, <2>1, <2>2, <2>4 DEF PeersInv
  <2> QED BY <2>3, <2>4
<1>8. /\ updating' \in [Conns -> 0..MaxHeight]
      /\ \A d \in Conns : updating'[d] <= height'[d] /\ (updating'[d] > 0 => stage'[d] = "up")
  BY <1>1, <1>2, <1>3 DEF PeersInv
<1> QED BY <1>1, <1>4, <1>5, <1>6, <1>7, <1>8, Zenon DEF PeersInv, BestHeightSound

(* ... and then the best one. *)
LEMMA RaiseBestInv ==
  ASSUME PeersInv, NEW c \in Conns, RaiseBest(c)
  PROVE  PeersInv'
<1>1. /\ updating[c] > 0 /\ updating' = [updating EXCEPT ![c] = 0]
      /\ best' = Max({best, updating[c]}) /\ UNCHANGED <<stage, height, peers>>
  BY DEF RaiseBest
<1>2. /\ best' \in 0..MaxHeight /\ best' \in {best, updating[c]}
      /\ best' >= best /\ best' >= updating[c]
  BY <1>1, MaxOfTwo DEF PeersInv
<1>3. TableIsLive' /\ TrackedUntilReturn'
  BY <1>1 DEF PeersInv, TableIsLive, TrackedUntilReturn
<1>4. best' > 0 => \E d \in Conns : stage'[d] \in {"up", "closing"} /\ height'[d] >= best'
  BY <1>1, <1>2 DEF PeersInv, BestHeightSound
<1>5. ASSUME NEW d \in Registered' PROVE height'[d] <= best' \/ height'[d] <= updating'[d]
  <2>1. d \in Registered /\ d \in Conns
    BY <1>1 DEF PeersInv, Registered
  <2>2. height[d] \in 0..MaxHeight /\ best \in 0..MaxHeight /\ updating[d] \in 0..MaxHeight
    BY <2>1 DEF PeersInv
  <2>3. height[d] <= best \/ height[d] <= updating[d]
    BY <2>1 DEF PeersInv, BestHeightSound
  <2>4. d # c => updating'[d] = updating[d]
    BY <1>1, <2>1 DEF PeersInv
  <2> QED BY <1>1, <1>2, <2>2, <2>3, <2>4, PeersAssumption
<1>6. /\ updating' \in [Conns -> 0..MaxHeight]
      /\ \A d \in Conns : updating'[d] <= height'[d] /\ (updating'[d] > 0 => stage'[d] = "up")
  BY <1>1, PeersAssumption DEF PeersInv
<1> QED BY <1>1, <1>2, <1>3, <1>4, <1>5, <1>6, Zenon DEF PeersInv, BestHeightSound

(* The handler leaves: the address is free, whoever was registered there,   *)
(* and the best height is one that a registered connection has.             *)
LEMMA UnregisterInv ==
  ASSUME PeersInv, NEW c \in Conns, Unregister(c)
  PROVE  PeersInv'
<1>1. /\ stage[c] = "closing" /\ stage' = [stage EXCEPT ![c] = "free"]
      /\ peers' = [peers EXCEPT ![Addr[c]] = NoConn]
      /\ height' = [height EXCEPT ![c] = 0] /\ updating' = updating
  BY DEF Unregister, Freed
<1> DEFINE S == {0} \cup {height[peers'[a]] : a \in {b \in Addrs : peers'[b] # NoConn}}
<1>2. best' = Max(S)
  BY DEF Unregister
<1>3. Addr[c] \in Addrs
  BY DEF Addrs
<1>4. /\ stage' \in [Conns -> Stages] /\ peers' \in [Addrs -> Conns \cup {NoConn}]
      /\ height' \in [Conns -> 0..MaxHeight]
  BY <1>1, <1>3, PeersAssumption DEF PeersInv, Stages
<1>5. \A a \in Addrs : peers'[a] # NoConn =>
        /\ peers'[a] = peers[a] /\ peers[a] \in Conns \ {c} /\ Addr[peers[a]] = a
        /\ stage[peers[a]] \in {"up", "closing"}
        /\ stage'[peers[a]] = stage[peers[a]] /\ height'[peers[a]] = height[peers[a]]
  BY <1>1, <1>3, <1>4 DEF PeersInv, TableIsLive
<1>6. S \subseteq 0..MaxHeight /\ S # {}
  BY <1>5, PeersAssumption DEF PeersInv
<1>7. best' \in S /\ best' \in 0..MaxHeight /\ \A y \in S : best' >= y
  BY <1>2, <1>6, MaxOfBounded, PeersAssumption, Zenon
<1>8. TableIsLive'
  BY <1>5 DEF TableIsLive
<1>9. TrackedUntilReturn'
  <2> SUFFICES ASSUME NEW d \in Conns, stage'[d] = "up",
                      \A e \in Conns \ {d} : stage'[e] # "unused" => Addr[e] # Addr[d]
               PROVE  peers'[Addr[d]] = d
    BY DEF TrackedUntilReturn
  <2>1. d # c /\ stage[d] = "up"
    BY <1>1 DEF PeersInv
  <2>2. \A e \in Conns \ {d} : stage[e] # "unused" => Addr[e] # Addr[d]
    BY <1>1 DEF PeersInv
  <2>3. peers[Addr[d]] = d /\ Addr[c] # Addr[d]
    BY <1>1, <2>1, <2>2 DEF PeersInv, TrackedUntilReturn
  <2>4. Addr[d] \in Addrs
    BY DEF Addrs
  <2> QED BY <1>1, <2>3, <2>4 DEF PeersInv
<1>10. best' > 0 => \E d \in Conns : stage'[d] \in {"up", "closing"} /\ height'[d] >= best'
  <2> SUFFICES ASSUME best' > 0
               PROVE  \E d \in Conns : stage'[d] \in {"up", "closing"} /\ height'[d] >= best'
    OBVIOUS
  <2>1. PICK a \in Addrs : peers'[a] # NoConn /\ best' = height[peers'[a]]
    BY <1>7
  <2>2. /\ peers[a] \in Conns /\ stage'[peers[a]] \in {"up", "closing"}
        /\ height'[peers[a]] = best'
    BY <1>5, <2>1
  <2> QED BY <1>7, <2>2, PeersAssumption
<1>11. \A d \in Registered' : height'[d] <= best' \/ height'[d] <= updating'[d]
  <2> SUFFICES ASSUME NEW a \in Addrs, peers'[a] # NoConn
               PROVE  height'[peers'[a]] <= best'
    BY DEF Registered
  <2>1. height[peers'[a]] \in S /\ height'[peers'[a]] = height[peers'[a]]
    BY <1>5
  <2> QED BY <1>6, <1>7, <2>1, PeersAssumption
<1>12. /\ updating' \in [Conns -> 0..MaxHeight]
       /\ \A d \in Conns : updating'[d] <= height'[d] /\ (updating'[d] > 0 => stage'[d] = "up")
  <2>1. updating[c] = 0
    BY <1>1, PeersAssumption DEF PeersInv
  <2> QED BY <1>1, <2>1, PeersAssumption DEF PeersInv
<1> QED BY <1>4, <1>7, <1>8, <1>9, <1>10, <1>11, <1>12 DEF PeersInv, BestHeightSound

(* A second close of a channel: the process starts again, with the same     *)
(* identifiers in use.                                                      *)
LEMMA StartedInv ==
  ASSUME NEW inUse, Started(inUse)
  PROVE  PeersInv'
<1>1. /\ stage' \in [Conns -> Stages] /\ \A c \in Conns : stage'[c] # "up"
  BY DEF Started, Stages
<1>2. /\ peers' \in [Addrs -> Conns \cup {NoConn}] /\ \A a \in Addrs : peers'[a] = NoConn
      /\ height' = [d \in Conns |-> 0] /\ best' = 0 /\ updating' = [d \in Conns |-> 0]
  BY PeersAssumption DEF Started
<1>3. TableIsLive' /\ TrackedUntilReturn' /\ BestHeightSound'
  BY <1>1, <1>2 DEF TableIsLive, TrackedUntilReturn, BestHeightSound, Registered
<1> QED BY <1>1, <1>2, <1>3, PeersAssumption DEF PeersInv

-----------------------------------------------------------------------------
(* The steps of one connection. *)
LEMMA HandlerInv ==
  ASSUME PeersInv, NEW c \in Conns, Handler(c) \/ Returns(c) \/ Misbehaves(c)
  PROVE  PeersInv'
<1>1. CASE HandshakeFails(c)
  <2>1. updating[c] = 0
    BY <1>1, PeersAssumption DEF HandshakeFails, PeersInv
  <2> QED BY <1>1, <2>1, StageInv, Zenon DEF HandshakeFails, Stages, Live, lock
<1>2. CASE Returns(c)
  BY <1>2, StageInv, Zenon DEF Returns, Reads, Stages, Live, lock
<1>3. CASE Misbehaves(c)
  BY <1>3, QuietInv DEF Misbehaves, lock
<1> QED BY <1>1, <1>2, <1>3, RegisterInv, RaiseBestInv, UnregisterInv DEF Handler

(* Accepting and dialling: no such connection is in the table yet. *)
LEMMA OpenInv ==
  ASSUME PeersInv, NEW c \in Conns, Accept(c) \/ AddNode(c) \/ Reconnect(c) \/ DialFails(c)
  PROVE  PeersInv'
<1>1. stage[c] \in {"free", "handshake"} /\ updating[c] = 0
  BY PeersAssumption DEF Accept, AddNode, Reconnect, DialFails, Fresh, PeersInv
<1>2. \E s \in {"free", "handshake"} : stage' = [stage EXCEPT ![c] = s]
  BY DEF Accept, AddNode, Reconnect, DialFails, NewPeer
<1>3. UNCHANGED <<peers, height, updating, best>>
  BY DEF Accept, AddNode, Reconnect, DialFails, NewPeer, lock
<1> QED BY <1>1, <1>2, <1>3, StageInv, Zenon DEF Stages, Live

(* The invariant of the connections is inductive. *)
LEMMA PeersInductive == PeersInv /\ [Next]_vars => PeersInv'
<1> SUFFICES ASSUME PeersInv, [Next]_vars PROVE PeersInv'
  OBVIOUS
<1>1. ASSUME NEW c \in Conns, WriteFails(c) \/ (\E who \in Closers : CloseDone(c, who))
      PROVE  PeersInv'
  BY <1>1, QuietInv, Zenon DEF WriteFails, CloseDone, conn, lock
<1>2. ASSUME NEW c \in Conns, NEW who \in Closers, Panic(c, who) PROVE PeersInv'
  BY <1>2, StartedInv DEF Panic
<1>3. ASSUME NEW a \in Addrs, DisconnectNode(a) \/ BackoffEnds(a) PROVE PeersInv'
  BY <1>3, QuietInv DEF DisconnectNode, BackoffEnds, conn, lock
<1>4. ASSUME NEW i \in Ips, BanExpires(i) PROVE PeersInv'
  BY <1>4, QuietInv DEF BanExpires, conn, lock
<1>5. CASE UNCHANGED vars
  BY <1>5, QuietInv DEF vars
<1> QED BY <1>1, <1>2, <1>3, <1>4, <1>5, HandlerInv, OpenInv, RaiseHeightInv DEF Next

(* The invariant of the connections always holds. *)
LEMMA PeersInvAlways == Spec => []PeersInv
<1>1. Init => PeersInv
  <2> SUFFICES ASSUME Init PROVE PeersInv
    OBVIOUS
  <2>1. stage \in [Conns -> Stages] /\ \A c \in Conns : stage[c] # "up"
    BY DEF Init, Stages
  <2>2. /\ peers \in [Addrs -> Conns \cup {NoConn}] /\ \A a \in Addrs : peers[a] = NoConn
        /\ height = [d \in Conns |-> 0] /\ best = 0 /\ updating = [d \in Conns |-> 0]
    BY PeersAssumption DEF Init
  <2>3. TableIsLive /\ TrackedUntilReturn /\ BestHeightSound
    BY <2>1, <2>2 DEF TableIsLive, TrackedUntilReturn, BestHeightSound, Registered
  <2> QED BY <2>1, <2>2, <2>3, PeersAssumption DEF PeersInv
<1> QED BY <1>1, PeersInductive, PTL DEF Spec

(* The table never refers to a connection whose handler has ended, however  *)
(* many connections share an address and whoever closes them.               *)
THEOREM TableAlwaysLive == Spec => []TableIsLive
  BY PeersInvAlways, PTL DEF PeersInv

(* No goroutine but its own handler takes a connection out of the table, if *)
(* it shares its address with no other.                                     *)
THEOREM AlwaysTracked == Spec => []TrackedUntilReturn
  BY PeersInvAlways, PTL DEF PeersInv

(* bestPeerHeight is a height that a live connection has reached, and no    *)
(* registered one exceeds it for longer than the step between the updates.  *)
THEOREM BestHeightAlwaysSound == Spec => []BestHeightSound
  BY PeersInvAlways, PTL DEF PeersInv

-----------------------------------------------------------------------------
(* The connection manager's sets of seen hashes. *)

(* A set of hashes and a queue of hashes that covers it: the inductive      *)
(* invariant, as a predicate of the value.                                  *)
SetShape(s) ==
  /\ s = [items |-> s.items, order |-> s.order]
  /\ s.items \subseteq Hashes
  /\ s.order \in Seq(Hashes)
  /\ s.items \subseteq Queued(s)

(* The empty set has no elements to count. *)
LEMMA EmptyCardinality == Cardinality({}) = 0
  BY Zenon DEF Cardinality

-----------------------------------------------------------------------------
(* The members that eviction leaves are in the queue that it leaves: a set  *)
(* at capacity is not empty, so its queue has a head.                       *)
LEMMA EvictShape ==
  ASSUME NEW s, SetShape(s)
  PROVE  SetShape(Evict(s))
<1>1. CASE ~(Cardinality(s.items) >= Cap)
  BY <1>1 DEF Evict
<1>2. CASE Cardinality(s.items) >= Cap
  <2>. DEFINE e == [items |-> s.items \ {Head(s.order)}, order |-> Tail(s.order)]
  <2>1. Evict(s) = e
    BY <1>2 DEF Evict
  <2>2. s.items # {}
    BY <1>2, EmptyCardinality, CapAssumption
  <2>3. s.order \in Seq(Hashes) /\ s.order # << >>
    BY <2>2 DEF SetShape, Queued
  <2>4. e.order \in Seq(Hashes) /\ Len(e.order) = Len(s.order) - 1
    BY <2>3
  <2>5. ASSUME NEW h \in e.items
        PROVE  h \in Queued(e)
    <3>1. PICK i \in 1..Len(s.order) : s.order[i] = h
      BY DEF SetShape, Queued
    <3>2. i # 1
      BY <3>1, <2>3
    <3>3. i - 1 \in 1..Len(e.order) /\ e.order[i - 1] = h
      BY <3>1, <3>2, <2>3, <2>4
    <3>. QED BY <3>3 DEF Queued
  <2>6. e.items \subseteq Hashes
    BY DEF SetShape
  <2>7. SetShape(e)
    BY <2>4, <2>5, <2>6, Zenon DEF SetShape
  <2>. QED BY <2>1, <2>7
<1>. QED BY <1>1, <1>2

(* Add appends to the queue what it puts into the map. *)
LEMMA AddShape ==
  ASSUME NEW s, SetShape(s), NEW h \in Hashes
  PROVE  SetShape(Add(s, h))
<1>1. CASE h \in s.items
  BY <1>1 DEF Add
<1>2. CASE h \notin s.items
  <2>. DEFINE e == Evict(s)
              a == [items |-> e.items \cup {h}, order |-> Append(e.order, h)]
  <2>1. Add(s, h) = a
    BY <1>2 DEF Add
  <2>2. SetShape(e)
    BY EvictShape
  <2>. HIDE DEF e
  <2>3. a.order \in Seq(Hashes) /\ Len(a.order) = Len(e.order) + 1
    BY <2>2 DEF SetShape
  <2>4. ASSUME NEW g \in a.items
        PROVE  g \in Queued(a)
    <3>1. CASE g = h
      <4>1. Len(a.order) \in 1..Len(a.order) /\ a.order[Len(a.order)] = h
        BY <2>2, <2>3 DEF SetShape
      <4>. QED BY <3>1, <4>1 DEF Queued
    <3>2. CASE g # h
      <4>1. PICK i \in 1..Len(e.order) : e.order[i] = g
        BY <3>2, <2>2 DEF SetShape, Queued
      <4>2. i \in 1..Len(a.order) /\ a.order[i] = g
        BY <4>1, <2>2, <2>3 DEF SetShape
      <4>. QED BY <4>2 DEF Queued
    <3>. QED BY <3>1, <3>2
  <2>5. a.items \subseteq Hashes
    BY <2>2 DEF SetShape
  <2>6. SetShape(a)
    BY <2>3, <2>4, <2>5, Zenon DEF SetShape
  <2>. QED BY <2>1, <2>6
<1>. QED BY <1>1, <1>2

(* Remove leaves the queue alone. *)
LEMMA RemoveShape ==
  ASSUME NEW s, SetShape(s), NEW h
  PROVE  SetShape(Remove(s, h))
BY DEF SetShape, Remove, Queued

-----------------------------------------------------------------------------
(* Every member of the set is in its queue after any sequence of Add and    *)
(* Remove, so that AddOrHas and Add never take the head of an empty queue.  *)
THEOREM MembersAlwaysQueued == SpecSet => []MembersQueued
<1>1. InitSet => SetShape(set)
  BY DEF InitSet, Empty, SetShape, Queued
<1>2. SetShape(set) /\ [NextSet]_set => SetShape(set)'
  <2>. SUFFICES ASSUME SetShape(set), [NextSet]_set PROVE SetShape(set')
    OBVIOUS
  <2>1. ASSUME NEW h \in Hashes, AddHash(h) PROVE SetShape(set')
    BY <2>1, AddShape DEF AddHash
  <2>2. ASSUME NEW h \in Hashes, RemoveHash(h) PROVE SetShape(set')
    BY <2>2, RemoveShape DEF RemoveHash
  <2>3. CASE UNCHANGED set
    BY <2>3
  <2>. QED BY <2>1, <2>2, <2>3 DEF NextSet
<1>3. SetShape(set) => MembersQueued
  BY DEF SetShape, MembersQueued
<1>. QED BY <1>1, <1>2, <1>3, PTL DEF SpecSet

-----------------------------------------------------------------------------
(* The wallet and its file. *)

Indices == [Chains -> 0..MaxIndex + 1]

Readable == file.kind \in {"plain", "encrypted"}

(* The indices n cover every key of seed s that was given out. *)
Covers(s, n) == \A k \in issued : k[1] = s => k[3] < n[k[2]]

(* The part of the inductive invariant about the file: both the counters in *)
(* the file and those in memory cover what was given out, because a file    *)
(* that was torn is written again from memory; seeds are numbered, so a new *)
(* one has given nothing out; a process knows an encrypted file to be one.  *)
FileInv ==
  /\ status \in {"up", "down"}
  /\ seeds \in 0..MaxSeeds /\ next \in Indices
  /\ file \in [kind : {"absent", "plain", "encrypted", "empty", "broken"},
               seed : Nat, next : Indices]
  /\ issued \subseteq (1..seeds) \X Chains \X Nat
  /\ Readable => file.seed \in 1..seeds /\ Covers(file.seed, file.next)
  /\ status = "down" => lockState = "plain" /\ seed = "nil"
  /\ status = "up" =>
       /\ seedId \in 1..seeds /\ Covers(seedId, next)
       /\ Readable => file.seed = seedId
       /\ lockState = "plain" => file.kind # "encrypted"

-----------------------------------------------------------------------------
(* What a start or a derivation gives out is covered by the new counters. *)
LEMMA FirstIndexFacts == FirstIndex \in Indices /\ NoIndex \in Indices /\ FirstIndex["external"] = 1
  BY WalletAssumption DEF FirstIndex, NoIndex, Indices, Chains

(* A new wallet has a seed from which nothing was given out. *)
LEMMA CreateFile ==
  ASSUME FileInv, CreateNew \/ CreateFails
  PROVE  FileInv'
<1>1. /\ status = "down" /\ lockState = "plain" /\ seed = "nil" /\ seeds \in Nat /\ seeds < MaxSeeds
      /\ issued \subseteq (1..seeds) \X Chains \X Nat
  BY WalletAssumption DEF CreateNew, CreateFails, FileInv
<1>2. seeds + 1 \in 1..MaxSeeds /\ \A k \in issued : k[1] # seeds + 1
  BY <1>1, WalletAssumption
<1>3. CASE CreateNew
  <2>1. /\ status' = "up" /\ lockState' = "plain" /\ seedId' = seeds + 1 /\ seeds' = seeds + 1
        /\ next' = FirstIndex /\ file' = File("plain", seeds + 1, FirstIndex)
        /\ issued' = issued \cup {<<seeds + 1, "external", 0>>}
    BY <1>3 DEF CreateNew, HDKey
  <2>2. issued' \subseteq (1..seeds') \X Chains \X Nat
    BY <1>1, <2>1 DEF Chains
  <2>3. \A k \in issued' : k[1] = seeds + 1 => k[3] < FirstIndex[k[2]]
    BY <1>2, <2>1, FirstIndexFacts
  <2>4. file' \in [kind : {"absent", "plain", "encrypted", "empty", "broken"},
                   seed : Nat, next : Indices]
    BY <1>1, <2>1, FirstIndexFacts DEF File
  <2>5. /\ file'.kind = "plain" /\ file'.seed = seeds + 1 /\ file'.next = FirstIndex
    BY <2>1 DEF File
  <2> QED BY <1>1, <1>2, <2>1, <2>2, <2>3, <2>4, <2>5, FirstIndexFacts
          DEF FileInv, Readable, Covers
<1>4. CASE CreateFails
  <2>1. UNCHANGED <<status, lockState, seed, seedId, next, issued>>
    BY <1>4 DEF CreateFails, state
  <2>2. CASE seeds' = seeds + 1 /\ file' = File("plain", seeds + 1, FirstIndex)
    <3>1. file' \in [kind : {"absent", "plain", "encrypted", "empty", "broken"},
                     seed : Nat, next : Indices]
      BY <1>1, <2>2, FirstIndexFacts DEF File
    <3>2. /\ file'.kind = "plain" /\ file'.seed = seeds + 1 /\ file'.next = FirstIndex
      BY <2>2 DEF File
    <3>3. issued' \subseteq (1..seeds') \X Chains \X Nat
      BY <1>1, <2>1, <2>2
    <3>4. Covers(file.seed, file.next)'
      BY <1>2, <2>1, <3>2 DEF Covers
    <3> QED BY <1>1, <1>2, <2>1, <2>2, <3>1, <3>2, <3>3, <3>4 DEF FileInv, Readable
  <2>3. CASE Torn /\ UNCHANGED seeds
    <3>1. /\ file' \in [kind : {"absent", "plain", "encrypted", "empty", "broken"},
                        seed : Nat, next : Indices]
          /\ file'.kind \in {"empty", "broken"}
      BY <2>3, FirstIndexFacts DEF Torn, File
    <3> QED BY <1>1, <2>1, <2>3, <3>1 DEF FileInv, Readable
  <2> QED BY <1>4, <2>2, <2>3 DEF CreateFails
<1> QED BY <1>3, <1>4

(* A write that fails leaves the file, or nothing that can be read. *)
LEMMA FailedWrite ==
  ASSUME FileInv, NEW op, SaveFails(op)
  PROVE  \/ file' = file
         \/ /\ file'.kind \in {"empty", "broken"}
            /\ file' \in [kind : {"absent", "plain", "encrypted", "empty", "broken"},
                          seed : Nat, next : Indices]
  BY FirstIndexFacts DEF SaveFails, Torn, File

(* The counters grow before the address is given out: memory covers the new *)
(* key whether the save succeeds or not, the file if it does.               *)
LEMMA DeriveFile ==
  ASSUME FileInv, NEW c \in Chains, DeriveNext(c)
  PROVE  FileInv'
<1> DEFINE k == <<seedId, c, next[c]>>
<1>1. /\ status = "up" /\ next[c] < MaxIndex /\ next' = [next EXCEPT ![c] = @ + 1]
      /\ UNCHANGED <<status, lockState, seed, seedId, seeds>>
      /\ seedId \in 1..seeds /\ seeds \in 0..MaxSeeds /\ next \in Indices
  BY DEF DeriveNext, FileInv, state
<1>2. /\ next' \in Indices /\ next[c] \in Nat /\ next'[c] = next[c] + 1
      /\ \A d \in Chains : next[d] \in Nat /\ next'[d] \in Nat /\ next'[d] >= next[d]
  BY <1>1, WalletAssumption DEF Indices
<1>3. issued' \in {issued, issued \cup {k}}
  BY DEF DeriveNext, HDKey
<1>4. issued \subseteq (1..seeds) \X Chains \X Nat /\ Covers(seedId, next)
  BY <1>1 DEF FileInv
<1>5. issued' \subseteq (1..seeds') \X Chains \X Nat
  BY <1>1, <1>2, <1>3, <1>4
<1>6. Covers(seedId, next)'
  <2> SUFFICES ASSUME NEW j \in issued', j[1] = seedId PROVE j[3] < next'[j[2]]
    BY <1>1 DEF Covers
  <2>1. CASE j = k
    BY <1>2, <2>1
  <2>2. CASE j \in issued
    <3>1. j[3] < next[j[2]] /\ j[2] \in Chains /\ j[3] \in Nat
      BY <1>4, <2>2 DEF Covers
    <3> QED BY <1>2, <3>1
  <2> QED BY <1>3, <2>1, <2>2
<1>7. CASE Saveable /\ file' = Saved(next')
  <2>1. /\ file' \in [kind : {"absent", "plain", "encrypted", "empty", "broken"},
                      seed : Nat, next : Indices]
        /\ file'.seed = seedId /\ file'.next = next'
        /\ file'.kind = IF lockState = "plain" THEN "plain" ELSE file.kind
    BY <1>1, <1>2, <1>7, WalletAssumption DEF Saveable, Saved, File, FileInv, Readable
  <2> QED BY <1>1, <1>2, <1>5, <1>6, <2>1 DEF FileInv, Readable, Covers
<1>8. CASE SaveFails("save") /\ UNCHANGED issued
  <2>1. CASE file' = file
    BY <1>1, <1>2, <1>5, <1>6, <1>8, <2>1 DEF FileInv, Readable, Covers
  <2>2. CASE /\ file'.kind \in {"empty", "broken"}
             /\ file' \in [kind : {"absent", "plain", "encrypted", "empty", "broken"},
                           seed : Nat, next : Indices]
    BY <1>1, <1>2, <1>5, <1>6, <2>2 DEF FileInv, Readable
  <2> QED BY <1>8, <2>1, <2>2, FailedWrite
<1> QED BY <1>7, <1>8 DEF DeriveNext

(* EncryptWallet writes seed and counters of memory. *)
LEMMA EncryptFile ==
  ASSUME FileInv, EncryptWallet
  PROVE  FileInv'
<1>1. /\ status = "up" /\ lockState' = "locked" /\ UNCHANGED <<status, seed, seedId, next, seeds, issued>>
      /\ seedId \in 1..seeds /\ seeds \in 0..MaxSeeds /\ next \in Indices
  BY DEF EncryptWallet, FileInv
<1>2. CASE file' = File("encrypted", seedId, next)
  <2>1. /\ file' \in [kind : {"absent", "plain", "encrypted", "empty", "broken"},
                      seed : Nat, next : Indices]
        /\ file'.kind = "encrypted" /\ file'.seed = seedId /\ file'.next = next
    BY <1>1, <1>2, WalletAssumption DEF File
  <2> QED BY <1>1, <2>1 DEF FileInv, Readable, Covers
<1>3. CASE file' = file
  BY <1>1, <1>3 DEF FileInv, Readable, Covers
<1>4. CASE /\ file'.kind \in {"empty", "broken"}
           /\ file' \in [kind : {"absent", "plain", "encrypted", "empty", "broken"},
                         seed : Nat, next : Indices]
  BY <1>1, <1>4 DEF FileInv, Readable, Covers
<1> QED BY <1>2, <1>3, <1>4, FailedWrite DEF EncryptWallet

(* A start takes its counters from the file, an end forgets them. *)
LEMMA LoadStopFile ==
  ASSUME FileInv, Load \/ Stop
  PROVE  FileInv'
<1>1. UNCHANGED <<file, seeds, issued>>
  BY DEF Load, Stop
<1>2. CASE Load
  <2>1. /\ status' = "up" /\ seedId' = file.seed /\ next' = file.next /\ Readable
        /\ lockState' = "plain" => file.kind = "plain"
    BY <1>2 DEF Load, Readable
  <2>2. next' \in Indices /\ file.seed \in 1..seeds
    BY <2>1 DEF FileInv
  <2> QED BY <1>1, <2>1, <2>2 DEF FileInv, Readable, Covers
<1>3. CASE Stop
  BY <1>1, <1>3, FirstIndexFacts DEF Stop, FileInv, Readable, Covers
<1> QED BY <1>2, <1>3

(* The remaining operations neither write the file nor move a counter. *)
LEMMA MemoryFile ==
  ASSUME FileInv, status = "up", UNCHANGED <<status, seedId, next, file, seeds, issued>>,
         lockState' = "plain" => lockState = "plain"
  PROVE  FileInv'
  BY DEF FileInv, Readable, Covers

(* A step that leaves alone what the invariant is about. *)
LEMMA QuietFile ==
  ASSUME FileInv, UNCHANGED <<status, lockState, seed, seedId, next, file, seeds, issued>>
  PROVE  FileInv'
  BY DEF FileInv, Readable, Covers

(* The invariant of the file is inductive. *)
LEMMA FileInductive == FileInv /\ [WalletNext]_walletVars => FileInv'
<1> SUFFICES ASSUME FileInv, [WalletNext]_walletVars PROVE FileInv'
  OBVIOUS
<1>1. ASSUME NEW k \in Imports, ImportPrivKey(k) PROVE FileInv'
  BY <1>1, MemoryFile DEF ImportPrivKey, state
<1>2. CASE WalletPassphrase
  BY <1>2, MemoryFile DEF WalletPassphrase
<1>3. CASE WalletLock
  BY <1>3, MemoryFile DEF WalletLock, Wipe
<1>4. CASE IsLocked
  <2>1. status = "up"
    BY <1>4 DEF IsLocked, FileInv
  <2> QED BY <1>4, <2>1, MemoryFile DEF IsLocked, Wipe
<1>5. CASE Expire
  BY <1>5, QuietFile DEF Expire
<1>6. CASE UNCHANGED walletVars
  BY <1>6, QuietFile DEF walletVars, state
<1> QED BY <1>1, <1>2, <1>3, <1>4, <1>5, <1>6, CreateFile, LoadStopFile, DeriveFile, EncryptFile
        DEF WalletNext

(* The invariant of the file always holds. *)
LEMMA FileAlways == WalletSpec => []FileInv
<1>1. WalletInit => FileInv
  <2> SUFFICES ASSUME WalletInit PROVE FileInv
    OBVIOUS
  <2>1. /\ file \in [kind : {"absent", "plain", "encrypted", "empty", "broken"},
                     seed : Nat, next : Indices]
        /\ file.kind = "absent"
    BY FirstIndexFacts DEF WalletInit, File
  <2> QED BY <2>1, FirstIndexFacts, WalletAssumption DEF WalletInit, FileInv, Readable
<1> QED BY <1>1, FileInductive, PTL DEF WalletSpec

(* Whatever writes failed or were torn since, a restart derives every key   *)
(* whose address was given out, if the file still holds the key's seed.     *)
THEOREM IssuedAlwaysRecoverable == WalletSpec => []IssuedRecoverable
<1>1. FileInv => IssuedRecoverable
  <2> SUFFICES ASSUME FileInv, Readable, NEW k \in issued, k[1] = file.seed
               PROVE  k \in Derivable
    BY DEF IssuedRecoverable, Readable
  <2>1. /\ k \in (1..seeds) \X Chains \X Nat /\ k[3] < file.next[k[2]]
        /\ file.next \in Indices
    BY DEF FileInv, Covers
  <2>2. k[2] \in Chains /\ k[3] \in 0..file.next[k[2]] - 1 /\ k = <<file.seed, k[2], k[3]>>
    BY <2>1, WalletAssumption DEF Indices
  <2> QED BY <2>2 DEF Derivable, HDKey
<1> QED BY <1>1, FileAlways, PTL

(* A seed that was encrypted: it is neither in a plain file nor with a      *)
(* process that would write one, and no new wallet gets it.                 *)
Sealed(s) ==
  /\ s \in 1..seeds
  /\ ~(file.kind = "plain" /\ file.seed = s)
  /\ ~(status = "up" /\ lockState = "plain" /\ seedId = s)

(* A sealed seed stays sealed. *)
LEMMA SealedStep ==
  ASSUME NEW s, FileInv, Sealed(s), [WalletNext]_walletVars
  PROVE  Sealed(s)'
<1>1. s \in 1..seeds /\ seeds \in Nat
  BY DEF Sealed, FileInv
<1>2. CASE CreateNew
  <2>1. /\ seeds' = seeds + 1 /\ seedId' = seeds + 1 /\ file'.seed = seeds + 1
    BY <1>2 DEF CreateNew, File
  <2> QED BY <1>1, <2>1 DEF Sealed
<1>3. CASE CreateFails
  <2>1. UNCHANGED <<status, lockState, seedId>> /\ status = "down"
    BY <1>3 DEF CreateFails, state
  <2>2. \/ seeds' = seeds + 1 /\ file'.seed = seeds + 1
        \/ seeds' = seeds /\ file'.kind \in {"empty", "broken"}
    BY <1>3 DEF CreateFails, Torn, File
  <2> QED BY <1>1, <2>1, <2>2 DEF Sealed
<1>4. CASE Load
  BY <1>4 DEF Load, Sealed
<1>5. CASE Stop
  BY <1>5 DEF Stop, Sealed
<1>6. ASSUME NEW c \in Chains, DeriveNext(c) PROVE Sealed(s)'
  <2>1. status = "up" /\ UNCHANGED <<status, lockState, seedId, seeds>>
    BY <1>6 DEF DeriveNext, state
  <2>2. CASE file' = Saved(next')
    <3>1. \/ lockState = "plain" /\ file'.seed = seedId
          \/ file'.kind = file.kind /\ file'.seed = file.seed
      BY <2>2 DEF Saved, File
    <3> QED BY <2>1, <3>1 DEF Sealed
  <2>3. CASE SaveFails("save")
    <3>1. file' = file \/ file'.kind \in {"empty", "broken"}
      BY <2>3, FailedWrite
    <3> QED BY <2>1, <3>1 DEF Sealed
  <2> QED BY <1>6, <2>2, <2>3 DEF DeriveNext
<1>7. CASE EncryptWallet
  <2>1. UNCHANGED seeds /\ lockState' = "locked"
    BY <1>7 DEF EncryptWallet
  <2>2. file' = file \/ file'.kind \in {"encrypted", "empty", "broken"}
    BY <1>7, FailedWrite DEF EncryptWallet, File
  <2> QED BY <2>1, <2>2 DEF Sealed
<1>8. ASSUME UNCHANGED <<status, seedId, file, seeds>>, lockState' = "plain" => lockState = "plain"
      PROVE  Sealed(s)'
  BY <1>8 DEF Sealed
<1>9. CASE WalletPassphrase \/ WalletLock \/ Expire \/ IsLocked \/ (\E k \in Imports : ImportPrivKey(k))
  BY <1>8, <1>9 DEF WalletPassphrase, WalletLock, Expire, IsLocked, Wipe, ImportPrivKey, state
<1>10. CASE UNCHANGED walletVars
  BY <1>8, <1>10 DEF walletVars, state
<1> QED BY <1>2, <1>3, <1>4, <1>5, <1>6, <1>7, <1>9, <1>10 DEF WalletNext

(* A seed that was in an encrypted file is never in a plain one again.      *)
THEOREM AlwaysStaysEncrypted == WalletSpec => StaysEncrypted
<1>1. ASSUME NEW s \in 1..MaxSeeds
      PROVE  WalletSpec => [](file.kind = "encrypted" /\ file.seed = s
                                => [](file.kind = "plain" => file.seed # s))
  <2>1. FileInv /\ file.kind = "encrypted" /\ file.seed = s => Sealed(s)
    BY DEF FileInv, Readable, Sealed
  <2>2. FileInv /\ Sealed(s) /\ [WalletNext]_walletVars => Sealed(s)'
    BY SealedStep
  <2>3. Sealed(s) => (file.kind = "plain" => file.seed # s)
    BY DEF Sealed
  <2> QED BY <2>1, <2>2, <2>3, FileAlways, PTL DEF WalletSpec
<1> QED BY <1>1 DEF StaysEncrypted

-----------------------------------------------------------------------------
(* The keys in memory. *)

Keys == Imports \cup ((1..MaxSeeds) \X Chains \X (0..MaxIndex))

(* The part of the invariant about the keys: without a seed in memory there *)
(* are imported keys only, so the unlock that derives the others derives    *)
(* them for the first time.                                                 *)
KeysInv ==
  /\ keys \in [Chains -> Seq(Keys)]
  /\ seed = "nil" => keys \in [Chains -> Seq(Imports)]
  /\ status = "down" => keys = NoKeys
  /\ KeysInOrder

(* What the concatenation of two sequences holds. *)
LEMMA ConcatFacts ==
  ASSUME NEW S, NEW s \in Seq(S), NEW r \in Seq(S)
  PROVE  /\ s \o r \in Seq(S) /\ Len(s \o r) = Len(s) + Len(r)
         /\ \A p \in 1..Len(s) + Len(r) :
              (s \o r)[p] = IF p <= Len(s) THEN s[p] ELSE r[p - Len(s)]
  BY SMT

(* A function on 1..n is a sequence of length n. *)
LEMMA FunctionIsSeq ==
  ASSUME NEW S, NEW n \in Nat, NEW f \in [1..n -> S]
  PROVE  f \in Seq(S) /\ Len(f) = n
  OBVIOUS

(* A run of derived keys is in order, after whatever was imported before. *)
LEMMA RederiveKeys ==
  ASSUME NEW ks \in [Chains -> Seq(Imports)], NEW s \in 1..MaxSeeds, NEW n \in Indices
  PROVE  /\ Rederive(ks, s, n) \in [Chains -> Seq(Keys)]
         /\ \A c \in Chains : InOrder(Rederive(ks, s, n)[c], s, c, n[c])
<1> SUFFICES ASSUME NEW c \in Chains
             PROVE  /\ Rederive(ks, s, n)[c] \in Seq(Keys)
                    /\ InOrder(Rederive(ks, s, n)[c], s, c, n[c])
  BY Zenon DEF Rederive
<1> DEFINE new == [i \in 1..n[c] |-> HDKey(s, c, i - 1)]
           all == ks[c] \o new
           derived == {p \in DOMAIN all : all[p] \notin Imports}
<1>1. Rederive(ks, s, n)[c] = all
  BY Zenon DEF Rederive
<1>2. n[c] \in Nat /\ n[c] <= MaxIndex + 1 /\ MaxIndex \in Nat
  BY WalletAssumption DEF Indices
<1>3. \A i \in 1..n[c] : new[i] \in Keys \ Imports /\ new[i] = <<s, c, i - 1>>
  BY <1>2, WalletAssumption DEF Keys, HDKey
<1>4. new \in Seq(Keys) /\ Len(new) = n[c]
  <2>1. new \in [1..n[c] -> Keys]
    BY <1>3, Zenon
  <2> HIDE DEF new
  <2> QED BY <1>2, <2>1, FunctionIsSeq, Zenon
<1>5. ks[c] \in Seq(Imports) /\ ks[c] \in Seq(Keys)
  BY DEF Keys
<1> HIDE DEF new
<1>6. /\ all \in Seq(Keys) /\ Len(all) = Len(ks[c]) + n[c] /\ Len(ks[c]) \in Nat
      /\ \A p \in 1..Len(ks[c]) : all[p] = ks[c][p] /\ all[p] \in Imports
      /\ \A p \in Len(ks[c]) + 1..Len(all) : all[p] = new[p - Len(ks[c])]
  <2>1. /\ all \in Seq(Keys) /\ Len(all) = Len(ks[c]) + Len(new)
        /\ \A p \in 1..Len(ks[c]) + Len(new) :
             all[p] = IF p <= Len(ks[c]) THEN ks[c][p] ELSE new[p - Len(ks[c])]
    BY <1>4, <1>5, ConcatFacts, Zenon
  <2>2. Len(ks[c]) \in Nat /\ \A p \in 1..Len(ks[c]) : ks[c][p] \in Imports
    BY <1>5
  <2> QED BY <1>2, <1>4, <2>1, <2>2
<1> HIDE DEF all
<1>7. ASSUME NEW p \in Len(ks[c]) + 1..Len(all)
      PROVE  all[p] \notin Imports /\ all[p] = <<s, c, p - Len(ks[c]) - 1>>
  <2>1. p - Len(ks[c]) \in 1..n[c]
    BY <1>2, <1>6
  <2> QED BY <1>3, <1>6, <2>1
<1>8. derived = Len(ks[c]) + 1..Len(all)
  <2>1. DOMAIN all = 1..Len(all)
    BY <1>6
  <2>2. ASSUME NEW p \in 1..Len(all) PROVE all[p] \notin Imports <=> p \in Len(ks[c]) + 1..Len(all)
    BY <1>2, <1>6, <1>7
  <2>3. \A p \in Len(ks[c]) + 1..Len(all) : p \in 1..Len(all)
    BY <1>2, <1>6
  <2> QED BY <2>1, <2>2, <2>3
<1> HIDE DEF derived
<1>9. {all[p] : p \in derived} = {HDKey(s, c, i) : i \in 0..n[c] - 1}
  <2>1. ASSUME NEW p \in derived
        PROVE  \E i \in 0..n[c] - 1 : all[p] = HDKey(s, c, i)
    <3>1. p - Len(ks[c]) - 1 \in 0..n[c] - 1
      BY <1>2, <1>6, <1>8
    <3> QED BY <1>7, <1>8, <3>1 DEF HDKey
  <2>2. ASSUME NEW i \in 0..n[c] - 1
        PROVE  \E p \in derived : all[p] = HDKey(s, c, i)
    <3>1. i + 1 + Len(ks[c]) \in derived /\ i + 1 + Len(ks[c]) - Len(ks[c]) - 1 = i
      BY <1>2, <1>6, <1>8
    <3> QED BY <1>7, <1>8, <3>1 DEF HDKey
  <2> QED BY <2>1, <2>2
<1>10. \A p, q \in derived : p < q => all[p][3] < all[q][3]
  BY <1>6, <1>7, <1>8
<1> QED BY <1>1, <1>6, <1>9, <1>10, Zenon DEF InOrder, derived

(* The next key of a chain keeps the order. *)
LEMMA AppendDerived ==
  ASSUME NEW ks \in Seq(Keys), NEW s \in 1..MaxSeeds, NEW c \in Chains, NEW n \in 0..MaxIndex,
         InOrder(ks, s, c, n)
  PROVE  /\ Append(ks, HDKey(s, c, n)) \in Seq(Keys)
         /\ InOrder(Append(ks, HDKey(s, c, n)), s, c, n + 1)
<1> DEFINE k == HDKey(s, c, n)
           m == n + 1
           all == Append(ks, k)
           old == {p \in DOMAIN ks : ks[p] \notin Imports}
           derived == {p \in DOMAIN all : all[p] \notin Imports}
<1>0. m - 1 = n /\ n \in Nat
  BY WalletAssumption
<1>1. k \in Keys /\ k \notin Imports /\ k = <<s, c, n>> /\ n \in Nat
  BY WalletAssumption DEF Keys, HDKey
<1> HIDE DEF k, m
<1>2. /\ all \in Seq(Keys) /\ Len(all) = Len(ks) + 1 /\ Len(ks) \in Nat /\ all[Len(ks) + 1] = k
      /\ DOMAIN all = 1..Len(ks) + 1 /\ DOMAIN ks = 1..Len(ks)
      /\ \A p \in 1..Len(ks) : all[p] = ks[p]
  BY <1>1
<1> HIDE DEF all
<1>3. derived = old \cup {Len(ks) + 1}
  <2>1. Len(ks) + 1 \in derived
    <3>1. Len(ks) + 1 \in DOMAIN all /\ all[Len(ks) + 1] \notin Imports
      BY <1>1, <1>2
    <3> QED BY <3>1
  <2>2. \A p \in 1..Len(ks) : p \in derived <=> p \in old
    BY <1>2
  <2>3. derived \subseteq 1..Len(ks) + 1 /\ old \subseteq 1..Len(ks)
    BY <1>2
  <2> HIDE DEF derived, old
  <2>4. 1..Len(ks) + 1 = (1..Len(ks)) \cup {Len(ks) + 1}
    BY <1>2
  <2> QED BY <2>1, <2>2, <2>3, <2>4, Zenon
<1>4. {ks[p] : p \in old} = {HDKey(s, c, i) : i \in 0..n - 1}
  BY Zenon DEF InOrder
<1>5. \A p, q \in old : p < q => ks[p][3] < ks[q][3]
  BY DEF InOrder
<1>6. \A p \in old : all[p] = ks[p] /\ p \in 1..Len(ks) /\ \E i \in 0..n - 1 : ks[p] = <<s, c, i>>
  BY <1>2, <1>4 DEF HDKey
<1>7. \A i \in 0..n - 1 : \E p \in old : ks[p] = HDKey(s, c, i)
  BY <1>4
<1> HIDE DEF derived, old
<1>8. {all[p] : p \in derived} = {HDKey(s, c, i) : i \in 0..m - 1}
  <2>1. ASSUME NEW p \in derived
        PROVE  \E i \in 0..m - 1 : all[p] = HDKey(s, c, i)
    <3>1. CASE p \in old
      BY <1>0, <1>1, <1>6, <3>1 DEF HDKey
    <3>2. CASE p = Len(ks) + 1
      BY <1>0, <1>1, <1>2, <3>2 DEF HDKey
    <3> QED BY <1>3, <3>1, <3>2
  <2>2. ASSUME NEW i \in 0..m - 1
        PROVE  \E p \in derived : all[p] = HDKey(s, c, i)
    <3>1. CASE i = n
      BY <1>2, <1>3, <3>1 DEF k
    <3>2. CASE i \in 0..n - 1
      BY <1>3, <1>6, <1>7, <3>2, Zenon
    <3> QED BY <1>0, <1>1, <3>1, <3>2
  <2> QED BY <2>1, <2>2
<1>9. ASSUME NEW p \in derived, NEW q \in derived, p < q
      PROVE  all[p][3] < all[q][3]
  <2>1. CASE q = Len(ks) + 1
    <3>1. p \in old
      BY <1>3, <1>9, <2>1, <1>2
    <3> QED BY <1>1, <1>2, <1>6, <2>1, <3>1
  <2>2. CASE q \in old
    <3>1. p \in old
      BY <1>2, <1>3, <1>6, <1>9, <2>2
    <3> QED BY <1>5, <1>6, <1>9, <2>2, <3>1
  <2> QED BY <1>3, <2>1, <2>2
<1>10. InOrder(all, s, c, m)
  BY <1>8, <1>9, Zenon DEF InOrder, derived
<1> QED BY <1>2, <1>10 DEF all, k, m

(* An imported key does not disturb it. *)
LEMMA AppendImported ==
  ASSUME NEW ks \in Seq(Keys), NEW s, NEW c, NEW n, NEW k \in Imports, InOrder(ks, s, c, n)
  PROVE  InOrder(Append(ks, k), s, c, n)
<1> DEFINE all == Append(ks, k)
           old == {p \in DOMAIN ks : ks[p] \notin Imports}
           derived == {p \in DOMAIN all : all[p] \notin Imports}
<1>1. k \in Keys
  BY DEF Keys
<1>2. /\ DOMAIN all = 1..Len(ks) + 1 /\ DOMAIN ks = 1..Len(ks) /\ all[Len(ks) + 1] = k
      /\ Len(ks) \in Nat /\ \A p \in 1..Len(ks) : all[p] = ks[p]
  BY <1>1
<1> HIDE DEF all
<1>3. derived = old /\ \A p \in old : all[p] = ks[p]
  BY <1>2
<1> QED BY <1>3, Zenon DEF InOrder, all

(* The keys of a wallet that is not open. *)
LEMMA NoKeysFacts == NoKeys \in [Chains -> Seq(Imports)] /\ NoKeys \in [Chains -> Seq(Keys)]
  BY DEF NoKeys

(* The invariant of the keys is inductive. *)
LEMMA KeysInductive == FileInv /\ KeysInv /\ [WalletNext]_walletVars => KeysInv'
<1> SUFFICES ASSUME FileInv, KeysInv, [WalletNext]_walletVars PROVE KeysInv'
  OBVIOUS
<1>0. MaxSeeds \in Nat /\ MaxIndex \in Nat /\ seeds \in 0..MaxSeeds
  BY WalletAssumption DEF FileInv
<1>1. CASE CreateNew
  <2>1. /\ seedId' = seeds + 1 /\ next' = FirstIndex /\ status' = "up" /\ seed' = "real"
        /\ keys' = Rederive(NoKeys, seeds + 1, FirstIndex) /\ seeds + 1 \in 1..MaxSeeds
    BY <1>0, <1>1 DEF CreateNew
  <2> QED BY <2>1, NoKeysFacts, FirstIndexFacts, RederiveKeys, Zenon DEF KeysInv, KeysInOrder
<1>2. CASE Load
  <2>1. file.seed \in 1..MaxSeeds /\ file.next \in Indices
    BY <1>0, <1>2 DEF Load, FileInv, Readable
  <2>2. CASE file.kind = "plain"
    <3>1. /\ seedId' = file.seed /\ next' = file.next /\ status' = "up" /\ seed' = "real"
          /\ keys' = Rederive(NoKeys, file.seed, file.next)
      BY <1>2, <2>2 DEF Load
    <3> QED BY <2>1, <3>1, NoKeysFacts, RederiveKeys DEF KeysInv, KeysInOrder
  <2>3. CASE file.kind # "plain"
    BY <1>2, <2>3, NoKeysFacts DEF Load, KeysInv, KeysInOrder
  <2> QED BY <2>2, <2>3
<1>3. CASE Stop
  BY <1>3, NoKeysFacts DEF Stop, KeysInv, KeysInOrder
<1>4. ASSUME NEW c \in Chains, DeriveNext(c) PROVE KeysInv'
  <2>1. /\ status' = "up" /\ seed # "nil" /\ seed' = seed /\ seedId' = seedId
        /\ keys' = [keys EXCEPT ![c] = Append(keys[c], HDKey(seedId, c, next[c]))]
        /\ next' = [next EXCEPT ![c] = next[c] + 1] /\ next[c] \in 0..MaxIndex
        /\ seedId \in 1..MaxSeeds /\ next \in Indices
    BY <1>0, <1>4 DEF DeriveNext, FileInv, state, Indices
  <2>2. keys \in [Chains -> Seq(Keys)] /\ \A d \in Chains : InOrder(keys[d], seedId, d, next[d])
    BY <2>1 DEF KeysInv, KeysInOrder
  <2>3. /\ Append(keys[c], HDKey(seedId, c, next[c])) \in Seq(Keys)
        /\ InOrder(Append(keys[c], HDKey(seedId, c, next[c])), seedId, c, next[c] + 1)
    BY <2>1, <2>2, AppendDerived
  <2>4. \A d \in Chains : InOrder(keys'[d], seedId, d, next'[d])
    BY <2>1, <2>2, <2>3 DEF Indices
  <2>5. keys' \in [Chains -> Seq(Keys)]
    BY <2>1, <2>2, <2>3
  <2> QED BY <2>1, <2>4, <2>5 DEF KeysInv, KeysInOrder
<1>5. ASSUME NEW k \in Imports, ImportPrivKey(k) PROVE KeysInv'
  <2>1. /\ status' = "up" /\ UNCHANGED <<seed, seedId, next>>
        /\ keys' = [keys EXCEPT !["external"] = Append(keys["external"], k)]
    BY <1>5 DEF ImportPrivKey, state
  <2>2. "external" \in Chains /\ k \in Keys
    BY DEF Chains, Keys
  <2>3. keys' \in [Chains -> Seq(Keys)] /\ (seed = "nil" => keys' \in [Chains -> Seq(Imports)])
    BY <2>1, <2>2 DEF KeysInv
  <2>4. ASSUME seed # "nil", NEW d \in Chains PROVE InOrder(keys'[d], seedId, d, next[d])
    BY <2>1, <2>2, <2>4, AppendImported DEF KeysInv, KeysInOrder
  <2> QED BY <2>1, <2>3, <2>4 DEF KeysInv, KeysInOrder
<1>6. CASE WalletPassphrase
  <2>1. /\ status = "up" /\ status' = "up" /\ UNCHANGED <<seedId, next>>
        /\ file.seed = seedId /\ seedId \in 1..MaxSeeds /\ next \in Indices
    BY <1>0, <1>6 DEF WalletPassphrase, FileInv, Readable
  <2>2. CASE seed = "nil"
    <3>1. seed' = "real" /\ keys' = Rederive(keys, seedId, next)
      BY <1>6, <2>1, <2>2 DEF WalletPassphrase
    <3> QED BY <2>1, <2>2, <3>1, RederiveKeys DEF KeysInv, KeysInOrder
  <2>3. CASE seed # "nil"
    BY <1>6, <2>1, <2>3, Zenon DEF WalletPassphrase, KeysInv, KeysInOrder
  <2> QED BY <2>2, <2>3
<1>7. CASE \/ UNCHANGED <<status, seed, seedId, keys, next>>
           \/ Wipe /\ UNCHANGED <<status, seedId, keys, next>>
  BY <1>7 DEF Wipe, KeysInv, KeysInOrder
<1>8. CASE CreateFails \/ EncryptWallet \/ WalletLock \/ Expire \/ IsLocked \/ UNCHANGED walletVars
  BY <1>7, <1>8 DEF CreateFails, EncryptWallet, WalletLock, Expire, IsLocked, Wipe, state, walletVars
<1> QED BY <1>1, <1>2, <1>3, <1>4, <1>5, <1>6, <1>8 DEF WalletNext

(* However the wallet was locked, unlocked, reopened and imported into, and *)
(* whatever saves failed, the derived keys in memory are those below the    *)
(* indices, each once and in order.                                         *)
THEOREM KeysAlwaysInOrder == WalletSpec => []KeysInOrder
<1>1. WalletInit => KeysInv
  BY NoKeysFacts DEF WalletInit, KeysInv, KeysInOrder
<1>2. KeysInv => KeysInOrder
  BY DEF KeysInv
<1> QED BY <1>1, <1>2, KeysInductive, FileAlways, PTL DEF WalletSpec
=============================================================================
