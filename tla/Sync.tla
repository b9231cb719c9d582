-------------------------------- MODULE Sync --------------------------------
(***************************************************************************)
(* Two nodes, a connection between them and the messages on it: how a node *)
(* catches up with a peer (internal/p2p: the handshake, block relay, inv,  *)
(* getdata, getblocks, requestBlocks, syncLoop and the rate limit).        *)
(*                                                                         *)
(* The peer has the better chain: blocks 1..height, growing up to N.  Ours *)
(* shares the peer's blocks up to height Fork and has blocks of its own    *)
(* from there to Own.  We count the peer's blocks by height: got is the    *)
(* greatest that the chain manager tracks, a later one waits in the orphan *)
(* pool.  Our tip stays on our own branch until got is higher (Chain       *)
(* models the chain manager).                                              *)
(*                                                                         *)
(* A direction of the connection is the sender's send queue and the stream *)
(* behind it: a FIFO with room for QueueCap messages, where SendMessage    *)
(* drops what does not fit.                                                *)
(***************************************************************************)
EXTENDS Integers, Sequences, FiniteSets

CONSTANTS
  N,                \* bound on the height of the peer's chain
  Fork, Own,        \* where our chain leaves the peer's, and its height
  Batch,            \* blocks in an answer to getblocks (500)
  Dense,            \* consecutive entries of a block locator (10)
  QueueCap,         \* peerSendQueueSize
  RateLimitMaxMsgs, \* messages allowed in a window
  BanThreshold,     \* in units of the score of a message too many
  MaxOrphanBlocks,
  MaxBreaks         \* bound on how often the connection breaks

ASSUME SyncAssumption ==
  /\ Fork \in Nat /\ Own \in Fork..N /\ N \in Nat /\ N > Own
  /\ Batch \in Nat \ {0} /\ Dense \in Nat /\ QueueCap \in Nat \ {0}
  /\ RateLimitMaxMsgs \in Nat \ {0} /\ BanThreshold \in Nat \ {0}
  /\ MaxOrphanBlocks \in Nat \ {0} /\ MaxBreaks \in Nat

VARIABLES
  height,      \* the peer's chain
  got, orphans, seen,  \* our chain manager and seenBlocks, of the peer's blocks
  ours, theirs,  \* where the two handlers are
  toUs, toPeer,  \* the two directions of the connection
  peerHeight,  \* our Peer.BestHeight
  told,        \* the peer's record of the blocks we know
  serving,     \* the peer's loop over an answer: next height and last one
  recent,      \* requestBlocks sent a request less than 500 ms ago
  msgs,        \* messages we have read in this window
  score, banned,
  breaks

us   == <<got, orphans, seen>>
link == <<ours, theirs, toUs, toPeer, told, serving>>
meter == <<msgs, score, banned>>
vars == <<height, us, link, peerHeight, recent, meter, breaks>>

Nothing == [next |-> 1, last |-> 0]

Init ==
  /\ height \in Own..N
  /\ got = Fork /\ orphans = {} /\ seen = {}
  /\ ours = "down" /\ theirs = "down" /\ toUs = << >> /\ toPeer = << >>
  /\ peerHeight = 0 /\ told = {} /\ serving = Nothing /\ recent = FALSE
  /\ msgs = 0 /\ score = 0 /\ banned = FALSE /\ breaks = 0

-----------------------------------------------------------------------------
(* SendMessage: dropped when the queue is full. *)
Send(queue, m) == IF Len(queue) < QueueCap THEN Append(queue, m) ELSE queue

(* The heights a block locator holds, from the tip of an active chain. *)
RECURSIVE LocatorFrom(_, _, _)
LocatorFrom(h, step, len) ==
  IF h = 0 THEN <<0>>
  ELSE <<h>> \o LocatorFrom(IF h < step THEN 0 ELSE h - step,
                            IF len + 1 > Dense THEN 2 * step ELSE step,
                            len + 1)

BlockLocator(h) == LocatorFrom(h, 1, 0)

(* Our height when got is g. *)
HeightWith(g) == IF g > Own THEN g ELSE Own

OurHeight == HeightWith(got)

(* The height the peer starts from: the first entry of our locator that is  *)
(* on its main chain.                                                       *)
CommonHeight(g) ==
  LET l == BlockLocator(HeightWith(g))
      onPeer(k) == g > Own \/ l[k] <= Fork IN
  l[CHOOSE k \in 1..Len(l) : onPeer(k) /\ \A j \in 1..k - 1 : ~onPeer(j)]

(* requestBlocks, throttled, after the messages in queue. *)
RequestBlocks(g, queue) ==
  /\ recent' = TRUE
  /\ toPeer' = IF recent THEN queue
               ELSE Send(queue, [kind |-> "getblocks", h |-> CommonHeight(g)])

-----------------------------------------------------------------------------
(* The connection. *)

Closed ==
  /\ ours' = "down" /\ theirs' = "down" /\ toUs' = << >> /\ toPeer' = << >>
  /\ told' = {} /\ serving' = Nothing /\ peerHeight' = 0 /\ msgs' = 0 /\ score' = 0

Breaks ==
  /\ ours # "down" /\ breaks < MaxBreaks
  /\ Closed /\ breaks' = breaks + 1
  /\ UNCHANGED <<height, us, recent, banned>>

Version(h) == [kind |-> "version", h |-> h]
Verack == [kind |-> "verack", h |-> 0]

(* One side dials and sends its version. *)
WeDial ==
  /\ ours = "down" /\ ~banned
  /\ ours' = "outVersion" /\ theirs' = "inVersion"
  /\ toPeer' = <<Version(OurHeight)>>
  /\ UNCHANGED <<height, us, toUs, peerHeight, told, serving, recent, meter, breaks>>

TheyDial ==
  /\ ours = "down" /\ ~banned
  /\ ours' = "inVersion" /\ theirs' = "outVersion"
  /\ toUs' = <<Version(height)>>
  /\ UNCHANGED <<height, us, toPeer, peerHeight, told, serving, recent, meter, breaks>>

(* What a side waits for, what it answers and where it goes then. *)
Expects == [outVersion |-> "version", outVerack |-> "verack",
            inVersion |-> "version", inVerack |-> "verack"]
Then == [outVersion |-> "outVerack", outVerack |-> "up", inVersion |-> "inVerack", inVerack |-> "up"]

(* Mutant: the side that was dialled sends verack first. *)
MutAnswer(stage, h) ==
  CASE stage = "inVersion" -> <<Verack, Version(h)>>
    [] stage = "outVerack" -> <<Verack>>
    [] OTHER -> << >>

Answer(stage, h) ==
  CASE stage = "inVersion" -> <<Version(h), Verack>>
    [] stage = "outVerack" -> <<Verack>>
    [] OTHER -> << >>

(* Our side of handshake; registered, we ask for blocks if the peer is ahead. *)
OurHandshake ==
  /\ ours \in DOMAIN Expects /\ toUs # << >> /\ Head(toUs).kind = Expects[ours]
  /\ toUs' = Tail(toUs) /\ ours' = Then[ours]
  /\ peerHeight' = IF Expects[ours] = "version" THEN Head(toUs).h ELSE peerHeight
  /\ LET queue == toPeer \o Answer(ours, OurHeight) IN
       IF ours' = "up" /\ peerHeight > OurHeight
       THEN RequestBlocks(got, queue)
       ELSE toPeer' = queue /\ UNCHANGED recent
  /\ UNCHANGED <<height, us, theirs, told, serving, meter, breaks>>

TheirHandshake ==
  /\ theirs \in DOMAIN Expects /\ toPeer # << >> /\ Head(toPeer).kind = Expects[theirs]
  /\ toPeer' = Tail(toPeer) /\ theirs' = Then[theirs]
  /\ toUs' = toUs \o Answer(theirs, height)
  /\ UNCHANGED <<height, us, ours, peerHeight, told, serving, recent, meter, breaks>>

-----------------------------------------------------------------------------
(* The peer. *)

Block(h) == [kind |-> "block", h |-> h]

(* It mines a block; BroadcastBlock pushes the block to some peers and      *)
(* announces it to the others, if the connection is registered.             *)
Mine ==
  /\ height < N /\ height' = height + 1
  /\ IF theirs = "up" /\ height' \notin told
     THEN /\ told' = told \cup {height'}
          /\ \E kind \in {"block", "inv"} : toUs' = Send(toUs, [kind |-> kind, h |-> height'])
     ELSE UNCHANGED <<told, toUs>>
  /\ UNCHANGED <<us, ours, theirs, toPeer, peerHeight, serving, recent, meter, breaks>>

(* Its handler is between two messages. *)
TheyRead == theirs = "up" /\ toPeer # << >> /\ serving = Nothing

HandleGetData ==
  /\ TheyRead /\ Head(toPeer).kind = "getdata"
  /\ toPeer' = Tail(toPeer) /\ toUs' = Send(toUs, Block(Head(toPeer).h))
  /\ UNCHANGED <<height, us, ours, theirs, peerHeight, told, serving, recent, meter, breaks>>

(* Mutant: the answer starts with the common block. *)
MutFirst(common) == common

(* The first block of an answer to getblocks. *)
First(common) == common + 1

HandleGetBlocks ==
  /\ TheyRead /\ Head(toPeer).kind = "getblocks"
  /\ toPeer' = Tail(toPeer)
  /\ LET from == First(Head(toPeer).h)
         to == IF from + Batch - 1 < height THEN from + Batch - 1 ELSE height IN
       serving' = IF from > to THEN Nothing ELSE [next |-> from, last |-> to]
  /\ UNCHANGED <<height, us, ours, theirs, toUs, peerHeight, told, recent, meter, breaks>>

ServeBlock ==
  /\ serving # Nothing
  /\ told' = told \cup {serving.next}
  /\ toUs' = Send(toUs, Block(serving.next))
  /\ serving' = IF serving.next = serving.last THEN Nothing
                ELSE [serving EXCEPT !.next = @ + 1]
  /\ UNCHANGED <<height, us, ours, theirs, toPeer, peerHeight, recent, meter, breaks>>

-----------------------------------------------------------------------------
(* Our handler.  CheckRateLimit comes before the message is handled. *)

TooMany == msgs >= RateLimitMaxMsgs

(* Reading a message that does not get the peer banned. *)
WeRead(kind) ==
  /\ ours = "up" /\ toUs # << >> /\ Head(toUs).kind = kind
  /\ toUs' = Tail(toUs)
  /\ TooMany => score + 1 < BanThreshold
  /\ msgs' = IF TooMany THEN msgs ELSE msgs + 1
  /\ score' = IF TooMany THEN score + 1 ELSE score
  /\ UNCHANGED banned

(* One message too many, and the score reaches the threshold: BanPeer, Close. *)
BanPeer ==
  /\ ours = "up" /\ toUs # << >> /\ TooMany /\ score + 1 >= BanThreshold
  /\ Closed /\ banned' = TRUE
  /\ UNCHANGED <<height, us, recent, breaks>>

(* handleInv: a block that the chain manager does not track is asked for. *)
HandleInv ==
  /\ WeRead("inv")
  /\ LET h == Head(toUs).h IN
       toPeer' = IF h > got
                 THEN Send(toPeer, [kind |-> "getdata", h |-> h]) ELSE toPeer
  /\ UNCHANGED <<height, us, ours, theirs, peerHeight, told, serving, recent, breaks>>

(* handleBlock: seen before. *)
SkipBlock ==
  /\ WeRead("block") /\ Head(toUs).h \in seen
  /\ UNCHANGED <<height, us, ours, theirs, toPeer, peerHeight, told, serving, recent, breaks>>

(* Tracked already: the mark of the block is removed again. *)
KnownBlock ==
  /\ WeRead("block") /\ Head(toUs).h \notin seen /\ Head(toUs).h <= got
  /\ UNCHANGED <<height, us, ours, theirs, toPeer, peerHeight, told, serving, recent, breaks>>

(* Its parent is unknown: into the pool, which may evict, and a request.    *)
OrphanBlock ==
  LET h == Head(toUs).h IN
  /\ WeRead("block") /\ h \notin seen /\ h > got + 1
  /\ \E o \in IF h \in orphans \/ Cardinality(orphans) < MaxOrphanBlocks THEN {h} ELSE orphans :
       orphans' = (orphans \ {o}) \cup {h}
  /\ RequestBlocks(got, toPeer)
  /\ UNCHANGED <<height, got, seen, ours, theirs, peerHeight, told, serving, breaks>>

ConnectOrphans(top) == got' = top /\ orphans' = orphans \ (got + 1..top)

(* It connects, and the orphans above it with it.  On the active chain the  *)
(* peer's height is raised, and more is asked for if the peer is ahead of   *)
(* this block; on a side branch the handler returns.                        *)
NewBlock ==
  LET h == Head(toUs).h
      top == CHOOSE g \in h..N : h + 1..g \subseteq orphans /\ g + 1 \notin orphans IN
  /\ WeRead("block") /\ h \notin seen /\ h = got + 1
  /\ ConnectOrphans(top) /\ seen' = seen \cup {h}
  /\ IF h > Own
     THEN /\ peerHeight' = IF h > peerHeight THEN h ELSE peerHeight
          /\ IF peerHeight > h THEN RequestBlocks(top, toPeer) ELSE UNCHANGED <<toPeer, recent>>
     ELSE UNCHANGED <<peerHeight, toPeer, recent>>
  /\ UNCHANGED <<height, ours, theirs, told, serving, breaks>>

(* syncLoop. *)
SyncTick ==
  /\ ours = "up" /\ peerHeight > OurHeight
  /\ RequestBlocks(got, toPeer)
  /\ UNCHANGED <<height, us, ours, theirs, toUs, peerHeight, told, serving, meter, breaks>>

-----------------------------------------------------------------------------
(* Time. *)

ThrottleEnds ==
  /\ recent /\ recent' = FALSE
  /\ UNCHANGED <<height, us, link, peerHeight, meter, breaks>>

WindowEnds ==
  /\ msgs > 0 /\ msgs' = 0
  /\ UNCHANGED <<height, us, link, peerHeight, recent, score, banned, breaks>>

BanExpires ==
  /\ banned /\ banned' = FALSE
  /\ UNCHANGED <<height, us, link, peerHeight, recent, msgs, score, breaks>>

-----------------------------------------------------------------------------
OurStep ==
  \/ OurHandshake \/ BanPeer \/ HandleInv
  \/ SkipBlock \/ KnownBlock \/ OrphanBlock \/ NewBlock

TheirStep == TheirHandshake \/ HandleGetData \/ HandleGetBlocks \/ ServeBlock

Dial == WeDial \/ TheyDial

Next ==
  \/ OurStep \/ TheirStep \/ Dial \/ SyncTick \/ Mine \/ Breaks
  \/ ThrottleEnds \/ WindowEnds \/ BanExpires

Spec == Init /\ [][Next]_vars

(* Both nodes handle what they receive, reconnectLoop and syncLoop keep     *)
(* ticking, and the throttle and the ban run out.  A rate window need not   *)
(* end in time.                                                             *)
FairSpec ==
  /\ Spec
  /\ WF_vars(OurStep) /\ WF_vars(TheirStep) /\ WF_vars(Dial) /\ WF_vars(SyncTick)
  /\ WF_vars(ThrottleEnds) /\ WF_vars(BanExpires)

-----------------------------------------------------------------------------
(* The handshake never meets a message it does not expect: each side's      *)
(* version and verack come in the order the other reads them in, ahead of   *)
(* whatever a side sends once it has registered the connection.             *)
HandshakeInStep ==
  /\ ours \in DOMAIN Expects /\ toUs # << >> => Head(toUs).kind = Expects[ours]
  /\ theirs \in DOMAIN Expects /\ toPeer # << >> => Head(toPeer).kind = Expects[theirs]

(* A peer that only answers our requests and relays its blocks is not a     *)
(* flooding one: it is never banned.                                        *)
HonestPeerKept == ~banned

(* Once we know that the peer has n blocks, we have n blocks, whatever the  *)
(* queues drop, however answers overlap and whenever the connection breaks. *)
CatchesUp == \A n \in 1..N : (ours = "up" /\ peerHeight >= n) ~> (OurHeight >= n)
=============================================================================
