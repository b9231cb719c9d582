------------------------------- MODULE Peers -------------------------------
(***************************************************************************)
(* The connection manager's table of peers (internal/p2p): how connections *)
(* are opened, registered, banned, evicted, closed and taken out again.    *)
(*                                                                         *)
(* A connection is a Peer object with a goroutine that runs handlePeer.    *)
(* Its Close may be called by that goroutine and by others: the peer's     *)
(* WriteLoop, the accept loop that evicts it, an RPC thread that           *)
(* disconnects it.  Close tests the done channel in one step and closes it *)
(* in another; closing a channel twice is a panic: the process ends and    *)
(* starts again.  Identifiers are used again for later connections.        *)
(*                                                                         *)
(* The table is keyed by remote address.  An inbound connection has an     *)
(* address of its own (the remote's ephemeral port), outbound connections  *)
(* to one listening address share it.  Bans are by IP.                     *)
(***************************************************************************)
EXTENDS Integers, FiniteSets, FiniteSetsExt

CONSTANTS
  Conns,         \* identifiers of connections
  Inbound,       \* those that the accept loop makes
  Addr,          \* Addr[c]: remote address of c, the key of the table
  AddrFrom,      \* AddrFrom[c]: listening address in the version message of c
  Ip,            \* Ip[a]: the IP of address a
  Seeds,         \* addresses reconnectLoop keeps a connection to
  NoConn,        \* a value that is no connection
  StartHeight,   \* height in every version message
  MaxHeight,     \* bound on the heights of blocks that arrive
  BanThreshold,  \* BanThreshold, in units of the least score
  MaxInbound, MaxOutbound,
  Scenarios      \* bound: sets of connections that may exist at a time

Addrs    == {Addr[c] : c \in Conns}
Ips      == {Ip[a] : a \in Addrs}
Outbound == Conns \ Inbound
Closers  == {"handler", "other"}

ASSUME PeersAssumption ==
  /\ Inbound \subseteq Conns /\ NoConn \notin Conns
  /\ \A c \in Inbound, d \in Conns : Addr[c] = Addr[d] => c = d
  /\ Seeds \subseteq Addrs
  /\ MaxHeight \in Nat /\ StartHeight \in 0..MaxHeight /\ BanThreshold \in Nat \ {0}
  /\ MaxInbound \in Nat \ {0} /\ MaxOutbound \in Nat \ {0}
  /\ Scenarios \subseteq SUBSET Conns

VARIABLES
  stage,     \* stage[c]: "unused", "free", "handshake" (or dialling), "up",
             \* or "closing" (in handlePeer's deferred function)
  done,      \* connections whose done channel is closed
  closing,   \* pairs <<c, who>>: who, the handler or another goroutine, is
             \* inside c.Close, past the test
  peers,     \* m.peers: the connection registered for an address
  height,    \* height[c]: StartHeight of c's version, 0 before it is read
  updating,  \* updating[c]: the height of the block for which c's handler has
             \* raised c's height and not yet bestPeerHeight, 0 if none
  best,      \* m.bestPeerHeight
  score,     \* score[c]: the ban score
  banned,    \* IPs with a ban that has not expired
  backoff    \* addresses whose next attempt is in the future

vars == <<stage, done, closing, peers, height, updating, best, score, banned, backoff>>

conn == <<stage, height, updating, score>>
lock == <<peers, best>>

Registered == {peers[a] : a \in Addrs} \ {NoConn}

(* A process that has just started. *)
Started(inUse) ==
  /\ stage' = [c \in Conns |-> IF c \in inUse THEN "free" ELSE "unused"]
  /\ done' = {} /\ closing' = {}
  /\ peers' = [a \in Addrs |-> NoConn]
  /\ height' = [c \in Conns |-> 0] /\ updating' = [c \in Conns |-> 0] /\ best' = 0
  /\ score' = [c \in Conns |-> 0] /\ banned' = {} /\ backoff' = {}

Init ==
  /\ \E inUse \in Scenarios : stage = [c \in Conns |-> IF c \in inUse THEN "free" ELSE "unused"]
  /\ done = {} /\ closing = {}
  /\ peers = [a \in Addrs |-> NoConn]
  /\ height = [c \in Conns |-> 0] /\ updating = [c \in Conns |-> 0] /\ best = 0
  /\ score = [c \in Conns |-> 0] /\ banned = {} /\ backoff = {}

-----------------------------------------------------------------------------
(* Close. *)

(* who calls c.Close: the test of the done channel. *)
Closes(c, who) == closing' = IF c \in done THEN closing ELSE closing \cup {<<c, who>>}

(* Past the test: the channel is closed, unless it has been meanwhile.      *)
CloseDone(c, who) ==
  /\ <<c, who>> \in closing /\ c \notin done
  /\ closing' = closing \ {<<c, who>>}
  /\ done' = done \cup {c}
  /\ UNCHANGED <<conn, lock, banned, backoff>>

(* close of a closed channel: the process ends, and starts again. *)
Panic(c, who) ==
  /\ <<c, who>> \in closing /\ c \in done
  /\ Started({d \in Conns : stage[d] # "unused"})

-----------------------------------------------------------------------------
(* Time: a ban or a backoff ends.  The entry of a ban that has expired may  *)
(* stay until livenessLoop or IsBanned deletes it.                          *)

BanExpires(i) ==
  /\ i \in banned /\ banned' = banned \ {i}
  /\ UNCHANGED <<conn, lock, done, closing, backoff>>

(* Mutant: only a success ends a backoff. *)
MutBackoffEnds(a) ==
  /\ a \in backoff /\ peers[a] # NoConn /\ backoff' = backoff \ {a}
  /\ UNCHANGED <<conn, lock, done, closing, banned>>

BackoffEnds(a) ==
  /\ a \in backoff /\ backoff' = backoff \ {a}
  /\ UNCHANGED <<conn, lock, done, closing, banned>>

-----------------------------------------------------------------------------
(* Opening a connection. *)

Fresh(c) == stage[c] = "free" /\ (\A who \in Closers : <<c, who>> \notin closing)

(* NewPeer: a new object takes the identifier. *)
NewPeer(c) ==
  /\ stage' = [stage EXCEPT ![c] = "handshake"]
  /\ UNCHANGED <<height, updating, score, done>>

InboundPeers == Registered \cap Inbound

(* acceptLoop: an address that is not banned; when the slots are taken the  *)
(* slowest inbound peer, any of them here, is closed.                       *)
Accept(c) ==
  /\ c \in Inbound /\ Fresh(c) /\ Ip[Addr[c]] \notin banned
  /\ NewPeer(c)
  /\ \/ Cardinality(InboundPeers) < MaxInbound /\ UNCHANGED closing
     \/ /\ Cardinality(InboundPeers) >= MaxInbound
        /\ \E d \in InboundPeers : Closes(d, "other")
  /\ UNCHANGED <<lock, banned, backoff>>

(* connectPeer up to the dial: not connected, by address or by the address  *)
(* a peer listens on, and not banned.                                       *)
Connectable(a) ==
  /\ peers[a] = NoConn
  /\ \A d \in Registered : AddrFrom[d] # a
  /\ Ip[a] \notin banned

(* AddNode, and connectSeeds when the process starts. *)
AddNode(c) ==
  /\ c \in Outbound /\ Fresh(c) /\ Connectable(Addr[c])
  /\ NewPeer(c)
  /\ UNCHANGED <<lock, closing, banned, backoff>>

(* reconnectLoop: a slot is left and the address is not backing off. *)
Reconnect(c) ==
  /\ Addr[c] \in Seeds \ backoff
  /\ Cardinality(Registered \cap Outbound) < MaxOutbound
  /\ AddNode(c)

(* The dial fails; recordConnectFailure. *)
DialFails(c) ==
  /\ c \in Outbound /\ stage[c] = "handshake"
  /\ stage' = [stage EXCEPT ![c] = "free"]
  /\ backoff' = backoff \cup {Addr[c]}
  /\ UNCHANGED <<height, updating, score, lock, done, closing, banned>>

-----------------------------------------------------------------------------
(* handlePeer. *)

(* The handshake fails: the deferred function runs at once. *)
HandshakeFails(c) ==
  /\ stage[c] = "handshake"
  /\ stage' = [stage EXCEPT ![c] = "closing"]
  /\ Closes(c, "handler")
  /\ backoff' = IF c \in Outbound THEN backoff \cup {Addr[c]} ELSE backoff
  /\ UNCHANGED <<height, updating, score, lock, done, banned>>

(* It succeeds: recordConnectSuccess, then the table and the best height.   *)
Register(c) ==
  /\ stage[c] = "handshake"
  /\ stage' = [stage EXCEPT ![c] = "up"]
  /\ height' = [height EXCEPT ![c] = StartHeight]
  /\ peers' = [peers EXCEPT ![Addr[c]] = c]
  /\ best' = Max({best, StartHeight})
  /\ backoff' = backoff \ {Addr[c]}
  /\ UNCHANGED <<updating, score, done, closing, banned>>

(* The handler is between two messages. *)
Reads(c) == stage[c] = "up" /\ updating[c] = 0 /\ <<c, "handler">> \notin closing

(* handleBlock accepts a block of height h: the peer's height first ... *)
RaiseHeight(c, h) ==
  /\ Reads(c) /\ c \notin done
  /\ height' = [height EXCEPT ![c] = Max({@, h})]
  /\ updating' = [updating EXCEPT ![c] = h]
  /\ UNCHANGED <<stage, score, lock, done, closing, banned, backoff>>

(* ... then, under the table's lock, the best height. *)
RaiseBest(c) ==
  /\ updating[c] > 0 /\ updating' = [updating EXCEPT ![c] = 0]
  /\ best' = Max({best, updating[c]})
  /\ UNCHANGED <<stage, height, score, peers, done, closing, banned, backoff>>

(* addMisbehavior: BanPeer and Close at the threshold. *)
Misbehaves(c) ==
  /\ Reads(c) /\ c \notin done
  /\ score' = [score EXCEPT ![c] = @ + 1]
  /\ \/ score'[c] < BanThreshold /\ UNCHANGED <<banned, closing>>
     \/ /\ score'[c] >= BanThreshold
        /\ banned' = banned \cup {Ip[Addr[c]]}
        /\ Closes(c, "handler")
  /\ UNCHANGED <<stage, height, updating, lock, done, backoff>>

(* The read loop ends: done is closed, or a read fails. *)
Returns(c) ==
  /\ Reads(c)
  /\ stage' = [stage EXCEPT ![c] = "closing"]
  /\ Closes(c, "handler")
  /\ UNCHANGED <<height, updating, score, lock, done, banned, backoff>>

(* The object is garbage, unless somebody is inside Close. *)
Freed(c) ==
  /\ stage' = [stage EXCEPT ![c] = "free"]
  /\ height' = [height EXCEPT ![c] = 0] /\ score' = [score EXCEPT ![c] = 0]
  /\ done' = IF \E who \in Closers : <<c, who>> \in closing THEN done ELSE done \ {c}

(* Mutant: the best height is left alone. *)
MutUnregister(c) ==
  /\ stage[c] = "closing" /\ <<c, "handler">> \notin closing
  /\ peers' = [peers EXCEPT ![Addr[c]] = NoConn]
  /\ Freed(c)
  /\ UNCHANGED <<updating, best, closing, banned, backoff>>

(* Mutant: the entry is not deleted. *)
MutKeepEntry(c) ==
  /\ stage[c] = "closing" /\ <<c, "handler">> \notin closing
  /\ Freed(c)
  /\ UNCHANGED <<updating, lock, closing, banned, backoff>>

(* The deferred function after Close: the address leaves the table, whoever *)
(* is registered there, and the best height is computed anew.               *)
Unregister(c) ==
  /\ stage[c] = "closing" /\ <<c, "handler">> \notin closing
  /\ peers' = [peers EXCEPT ![Addr[c]] = NoConn]
  /\ best' = Max({0} \cup {height[peers'[a]] : a \in {b \in Addrs : peers'[b] # NoConn}})
  /\ Freed(c)
  /\ UNCHANGED <<updating, closing, banned, backoff>>

-----------------------------------------------------------------------------
(* The other goroutines that close a connection. *)

(* WriteLoop: a write fails. *)
WriteFails(c) ==
  /\ stage[c] \in {"up", "closing"} /\ c \notin done /\ <<c, "other">> \notin closing
  /\ Closes(c, "other")
  /\ UNCHANGED <<conn, lock, done, banned, backoff>>

(* Mutant: the entry is deleted here as well. *)
MutDisconnectNode(a) ==
  /\ peers[a] # NoConn
  /\ Closes(peers[a], "other")
  /\ peers' = [peers EXCEPT ![a] = NoConn]
  /\ UNCHANGED <<conn, best, done, banned, backoff>>

(* DisconnectNode. *)
DisconnectNode(a) ==
  /\ peers[a] \in Conns \ done
  /\ Closes(peers[a], "other")
  /\ UNCHANGED <<conn, lock, done, banned, backoff>>

-----------------------------------------------------------------------------
Handler(c) ==
  \/ HandshakeFails(c) \/ Register(c)
  \/ RaiseBest(c)
  \/ c \in done /\ Returns(c)
  \/ Unregister(c)

Next ==
  \/ \E c \in Conns :
       \/ Handler(c) \/ Returns(c) \/ Misbehaves(c)
       \/ \E h \in 1..MaxHeight : RaiseHeight(c, h)
       \/ Accept(c) \/ AddNode(c) \/ Reconnect(c) \/ DialFails(c)
       \/ WriteFails(c)
       \/ \E who \in Closers : CloseDone(c, who) \/ Panic(c, who)
  \/ \E a \in Addrs : DisconnectNode(a) \/ BackoffEnds(a)
  \/ \E i \in Ips : BanExpires(i)

Spec == Init /\ [][Next]_vars

(* A handler ends its handshake, by an answer or by its deadline, sees that *)
(* its connection is closed, and runs its deferred function; a goroutine    *)
(* inside Close goes on; backoffs and bans end; the ticker of reconnectLoop *)
(* goes on, and a node that listens can be reached again and again.         *)
FairSpec ==
  /\ Spec
  /\ \A c \in Conns :
       /\ WF_vars(HandshakeFails(c) \/ Register(c) \/ DialFails(c))
       /\ WF_vars(RaiseBest(c)) /\ WF_vars(c \in done /\ Returns(c))
       /\ WF_vars(Unregister(c)) /\ SF_vars(Register(c))
       /\ \A who \in Closers : WF_vars(CloseDone(c, who) \/ Panic(c, who))
  /\ \A a \in Addrs : WF_vars(BackoffEnds(a)) /\ SF_vars(\E c \in Conns : Addr[c] = a /\ Reconnect(c))
  /\ \A i \in Ips : WF_vars(BanExpires(i))

-----------------------------------------------------------------------------
(* The table never holds a connection whose handler has ended, under any    *)
(* address, although a handler deletes by address and entries are           *)
(* overwritten: no broadcast, ping or slot count meets a dead peer for ever.*)
TableIsLive ==
  \A a \in Addrs : peers[a] # NoConn => Addr[peers[a]] = a /\ stage[peers[a]] \in {"up", "closing"}

(* A connection that shares its address with no other is in the table from  *)
(* its registration until its own handler takes it out, whoever closes it.  *)
(* (One that shares its address may lose its entry to the other.)           *)
TrackedUntilReturn ==
  \A c \in Conns :
    /\ stage[c] = "up"
    /\ \A d \in Conns \ {c} : stage[d] # "unused" => Addr[d] # Addr[c]
    => peers[Addr[c]] = c

(* IsSyncing compares with a height that some live connection has reported, *)
(* and that no registered peer exceeds, except by the block that its        *)
(* handler is about to count.                                               *)
BestHeightSound ==
  /\ best > 0 => \E c \in Conns : stage[c] \in {"up", "closing"} /\ height[c] >= best
  /\ \A c \in Registered : height[c] <= best \/ height[c] <= updating[c]

(* reconnectLoop finds its way back to a seed, whatever was closed, banned, *)
(* refused or dropped from the table: again and again there is a peer that  *)
(* listens on the seed's address, or no outbound slot is left.  (Where the  *)
(* scenario has an outbound connection at all.)                             *)
SeedComesBack ==
  \A a \in Seeds :
    []<>(\/ \A c \in Outbound : stage[c] = "unused"
         \/ \E c \in Registered : a \in {Addr[c], AddrFrom[c]}
         \/ Cardinality(Registered \cap Outbound) >= MaxOutbound)
=============================================================================
