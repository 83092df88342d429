------------------------------- MODULE Dialer -------------------------------
(***************************************************************************)
(* One dialer of keygen-service: class Dialer.  It keeps libp2p connected  *)
(* to the relays and to the dialers of the other guards, sends messages    *)
(* from one queue, one at a time, over one stream for each peer, tries     *)
(* again those it found no stream for, and calls back the urls that        *)
(* subscribed to the channel of a message.                                 *)
(*                                                                         *)
(* libp2p is the environment: connections come up, die unnoticed, close    *)
(* and go; it dials on its own the peers its address book holds.  The      *)
(* queue is read in a loop that stops at dial and at newStream, where      *)
(* everything else of the process may run.  Parsing of ids resumes in the  *)
(* same turn of the event loop, so it ends no step.                        *)
(***************************************************************************)
EXTENDS Integers, Sequences, FiniteSets

CONSTANTS
    Peers,        \* the other guards (listeners)
    Relays,       \* CommunicationConfig.relays
    Channels,     \* channels subscribed to
    Urls,         \* urls that subscribe
    NoUrl,        \* no or an empty url, which Urls may contain
    MaxRetries,   \* messageSendingRetriesMaxCount
    MaxSends,     \* bound: calls of sendMessage
    MaxConns      \* bound: connections to one peer at a time

ASSUME ConstantsAssumption ==
    /\ IsFiniteSet(Peers) /\ Peers \cap Relays = {}
    /\ {MaxRetries, MaxSends, MaxConns} \subseteq Nat

MsgId == 1 .. MaxSends
ConnId == 1 .. MaxConns + 1
StreamId == 1 .. MaxConns + 1

\* A message in _messageQueue: MessageQueueParsedMessage.
Item == [peer : Peers, id : MsgId, retries : 0 .. MaxRetries]

\* A connection libp2p lists: whether its status is OPEN, whether the peer is gone
\* and libp2p has not noticed, its outbound stream of this protocol (0 for none)
\* and how often the sink of that stream was called.
Conn == [id : ConnId, open : BOOLEAN, dead : BOOLEAN,
         stream : {0} \cup StreamId, sinks : Nat]

VARIABLES
    book,      \* peerStore.addressBook
    relayUp,   \* connected relays
    interval,  \* relays with a running interval of tryReconnectingRelay
    conns,     \* node.getConnections(peer)
    settled,   \* whether the network has become stable
    queue,     \* _messageQueue
    cur,       \* what the loop of processMessageQueue waits for
    timers,    \* messages that wait in the setTimeout of retrySendingMessage
    routes,    \* the stream of routesInfo[peer], 0 for no entry
    subs,      \* _subscribedChannels: the url of each entry
    sends,     \* calls of sendMessage so far
    fate,      \* history: what became of each message for each peer
    fails,     \* history: failed attempts of each message not sent, up to MaxRetries + 2
    asked      \* history: urls passed to subscribeChannel

netVars == <<book, relayUp, interval, conns, settled>>
msgVars == <<queue, cur, timers, routes, sends, fate, fails>>
subVars == <<subs, asked>>
vars == <<netVars, msgVars, subVars>>

Idle == [step |-> "idle"]

TypeOK ==
    /\ book \subseteq Peers \cup Relays
    /\ relayUp \subseteq Relays /\ interval \subseteq Relays
    /\ conns \in [Peers -> SUBSET Conn]
    /\ settled \in BOOLEAN
    /\ queue \in Seq(Item)
    /\ cur \in {Idle} \cup [step : {"dial"}, item : Item]
                     \cup [step : {"stream"}, item : Item, conn : ConnId]
    /\ timers \subseteq Item
    /\ routes \in [Peers -> {0} \cup StreamId]
    /\ subs \in [Channels -> Seq(Urls)]
    /\ sends \in 0 .. MaxSends
    /\ fate \in [Peers -> [MsgId -> {"none", "pending", "sent", "lost", "astray", "dropped"}]]
    /\ fails \in [Peers -> [MsgId -> 0 .. MaxRetries + 2]]
    /\ asked \in [Channels -> SUBSET Urls]

\* The node has started (startDialer) and the bootstrap discovery has put the relays
\* into the address book.
Init ==
    /\ book = Relays
    /\ relayUp = {} /\ interval = {}
    /\ conns = [p \in Peers |-> {}]
    /\ settled = FALSE
    /\ queue = <<>> /\ cur = Idle /\ timers = {}
    /\ routes = [p \in Peers |-> 0]
    /\ subs = [c \in Channels |-> <<>>]
    /\ sends = 0
    /\ fate = [p \in Peers |-> [m \in MsgId |-> "none"]]
    /\ fails = [p \in Peers |-> [m \in MsgId |-> 0]]
    /\ asked = [c \in Channels |-> {}]

-----------------------------------------------------------------------------
(***************************************************************************)
(* Connections                                                             *)
(***************************************************************************)

\* getPeerIds() without the relays.
ConnectedPeers == {p \in Peers : conns[p] # {}}

\* Peers are reached through relays (/p2p-circuit).
Dialable(p) == p \in book /\ relayUp # {}

\* The ids of a connection and of a stream that are in use by nothing else.
FreeConn(p) ==
    ConnId \ ({c.id : c \in conns[p]}
              \cup (IF cur.step = "stream" /\ cur.item.peer = p THEN {cur.conn} ELSE {}))
FreeStream(p) == StreamId \ ({c.stream : c \in conns[p]} \cup {routes[p]})

NewConn(k) == [id |-> k, open |-> TRUE, dead |-> FALSE, stream |-> 0, sinks |-> 0]

AnyId(S) == CHOOSE k \in S : TRUE

\* A connection to p comes up, dialed or accepted.
Connects(p) ==
    /\ Cardinality(conns[p]) < MaxConns
    /\ conns' = [conns EXCEPT ![p] = @ \cup {NewConn(AnyId(FreeConn(p)))}]

\* libp2p dials a peer of its address book by itself.
AutoDial(p) ==
    /\ Dialable(p) /\ conns[p] = {}
    /\ Connects(p)
    /\ UNCHANGED <<book, relayUp, interval, settled, msgVars, subVars>>

\* The other guard dials this one.
Accept(p) ==
    /\ ~settled /\ relayUp # {}
    /\ Connects(p)
    /\ UNCHANGED <<book, relayUp, interval, settled, msgVars, subVars>>

\* The peer goes away without closing the connection.
DieUnnoticed(p) ==
    /\ ~settled
    /\ \E c \in conns[p] :
          /\ ~c.dead
          /\ conns' = [conns EXCEPT ![p] = (@ \ {c}) \cup {[c EXCEPT !.dead = TRUE]}]
    /\ UNCHANGED <<book, relayUp, interval, settled, msgVars, subVars>>

\* The other side resets the stream; libp2p takes it off the connection.
StreamReset(p) ==
    /\ ~settled
    /\ \E c \in conns[p] :
          /\ c.stream # 0
          /\ conns' = [conns EXCEPT ![p] =
                (@ \ {c}) \cup {[c EXCEPT !.stream = 0, !.sinks = 0]}]
    /\ UNCHANGED <<book, relayUp, interval, settled, msgVars, subVars>>

\* A connection fails, or libp2p notices that it is dead; it is listed still.
Closing(p) ==
    /\ \E c \in conns[p] :
          /\ c.open /\ (c.dead \/ ~settled)
          /\ conns' = [conns EXCEPT ![p] = (@ \ {c}) \cup {[c EXCEPT !.open = FALSE, !.dead = FALSE]}]
    /\ UNCHANGED <<book, relayUp, interval, settled, msgVars, subVars>>

\* Mutant: a relay is forgotten like any other peer.
OnDisconnectForget(x) ==
    /\ book' = book \ {x}
    /\ interval' = interval

\* The peer:disconnect listener: removePeerFromAddressBook, and for a relay
\* tryReconnectingRelay.
OnDisconnect(x) ==
    /\ book' = book \ {x}
    /\ interval' = IF x \in Relays THEN interval \cup {x} ELSE interval

\* A closed connection goes from the list; with the last one peer:disconnect.
ConnGone(p) ==
    /\ \E c \in conns[p] :
          /\ ~c.open
          /\ conns' = [conns EXCEPT ![p] = @ \ {c}]
    /\ IF conns'[p] = {} THEN OnDisconnect(p) ELSE UNCHANGED <<book, interval>>
    /\ UNCHANGED <<relayUp, settled, msgVars, subVars>>

RelayLost(r) ==
    /\ ~settled /\ r \in relayUp
    /\ relayUp' = relayUp \ {r}
    /\ OnDisconnect(r)
    /\ UNCHANGED <<conns, settled, msgVars, subVars>>

\* libp2p dials a relay; the peer:connect listener of tryReconnectingRelay clears
\* the interval.
RelayConnects(r) ==
    /\ r \in book \ relayUp
    /\ relayUp' = relayUp \cup {r}
    /\ interval' = interval \ {r}
    /\ UNCHANGED <<book, conns, settled, msgVars, subVars>>

\* The interval of tryReconnectingRelay.
IntervalTick(r) ==
    /\ r \in interval \ book
    /\ book' = book \cup {r}
    /\ UNCHANGED <<relayUp, interval, conns, settled, msgVars, subVars>>

\* The peer:discovery listener, for a listener peer: addPeersToAddressBook.
Discovered(p) ==
    /\ relayUp # {} /\ conns[p] = {} /\ p \notin book
    /\ book' = book \cup {p}
    /\ UNCHANGED <<relayUp, interval, conns, settled, msgVars, subVars>>

\* From here on relays and peers stay reachable.
SettleNetwork ==
    /\ ~settled
    /\ settled' = TRUE
    /\ UNCHANGED <<book, relayUp, interval, conns, msgVars, subVars>>

NetworkStep ==
    \/ SettleNetwork
    \/ \E p \in Peers : \/ AutoDial(p) \/ Accept(p) \/ DieUnnoticed(p) \/ StreamReset(p)
                        \/ Closing(p) \/ ConnGone(p) \/ Discovered(p)
    \/ \E r \in Relays : RelayLost(r) \/ RelayConnects(r) \/ IntervalTick(r)

-----------------------------------------------------------------------------
(***************************************************************************)
(* Messages                                                                *)
(***************************************************************************)

\* The orders in which getPeers may list the peers of S.
Orders(S) ==
    {s \in [1 .. Cardinality(S) -> S] : \A i, j \in DOMAIN s : s[i] = s[j] => i = j}

\* sendMessage for the peers listed in s: pushMessageToMessageQueue of each.
PushAll(s) ==
    /\ sends < MaxSends
    /\ sends' = sends + 1
    /\ queue' = queue \o [i \in DOMAIN s |-> [peer |-> s[i], id |-> sends + 1, retries |-> 0]]
    /\ fate' = [p \in Peers |-> IF \E i \in DOMAIN s : s[i] = p
                                THEN [fate[p] EXCEPT ![sends + 1] = "pending"]
                                ELSE fate[p]]
    /\ UNCHANGED <<netVars, cur, timers, routes, fails, subVars>>

SendTo(p) == PushAll(<<p>>)
Broadcast == ConnectedPeers # {} /\ \E s \in Orders(ConnectedPeers) : PushAll(s)

\* POST /p2p/send, with or without a receiver.
SendRoute == (\E p \in Peers : SendTo(p)) \/ Broadcast

\* Mutant: connections that are closing are not left out.
StreamingAny(p) == {c \in conns[p] : c.stream # 0}

\* The connections with status OPEN and an outbound stream of the protocol.
Streaming(p) == {c \in conns[p] : c.open /\ c.stream # 0}

\* Mutant: every message is piped anew to the stream.
SinkAlways(r, c) == [c EXCEPT !.sinks = @ + 1]

\* getStreamSource: an entry with this stream has its source already; otherwise a
\* new source is piped to the stream, which calls its sink.
Sink(r, c) == IF r = c.stream THEN c ELSE [c EXCEPT !.sinks = @ + 1]

\* Mutant: an entry is kept as long as the peer is the same.
RouteKept(r, c) == IF r # 0 THEN r ELSE c.stream

RouteFor(r, c) == c.stream

\* What a push to the source of a route comes to while ds are the connections.
FateOn(ds, route) ==
    IF \E d \in ds : d.stream = route /\ d.open /\ ~d.dead THEN "sent"
    ELSE IF \E d \in ds : d.stream = route /\ d.open THEN "lost"
    ELSE "astray"

\* getStreamSource and push for the message i on the stream of c, one of ds.
HandOver(i, c, ds) ==
    LET p == i.peer
        d == Sink(routes[p], c)
        r == RouteFor(routes[p], c)
    IN  /\ conns' = [conns EXCEPT ![p] = (ds \ {c}) \cup {d}]
        /\ routes' = [routes EXCEPT ![p] = r]
        /\ fate' = [fate EXCEPT ![p][i.id] = FateOn((ds \ {c}) \cup {d}, r)]
        /\ fails' = [fails EXCEPT ![p][i.id] = 0]
        /\ cur' = Idle

Retried(i) == [i EXCEPT !.retries = @ + 1]

\* Mutant: one retry fewer than configured.
MayRetryLess(i) == i.retries + 1 < MaxRetries

\* Mutant: the retries made are compared, not the one to come.
MayRetryMore(i) == i.retries <= MaxRetries

MayRetry(i) == i.retries + 1 <= MaxRetries

\* The outer catch of the loop: retrySendingMessage.
RetrySending(i) ==
    /\ fails' = [fails EXCEPT ![i.peer][i.id] = IF @ < MaxRetries + 2 THEN @ + 1 ELSE @]
    /\ cur' = Idle
    /\ IF MayRetry(i)
         THEN /\ timers' = timers \cup {Retried(i)}
              /\ UNCHANGED fate
         ELSE /\ fate' = [fate EXCEPT ![i.peer][i.id] = "dropped"]
              /\ UNCHANGED timers

\* One turn of the loop of processMessageQueue, up to node.dial when
\* getOpenStreamAndConnection finds no stream.
TakeMessage ==
    /\ cur = Idle /\ queue # <<>>
    /\ queue' = Tail(queue)
    /\ LET i == Head(queue)
       IN  \/ \E c \in Streaming(i.peer) : HandOver(i, c, conns[i.peer])
           \/ /\ Streaming(i.peer) = {}
              /\ cur' = [step |-> "dial", item |-> i]
              /\ UNCHANGED <<conns, routes, fate, fails>>
    /\ UNCHANGED <<book, relayUp, interval, settled, timers, sends, subVars>>

\* node.dial returns a connection it lists, whatever its status, or a new one.
DialAnswers ==
    /\ cur.step = "dial"
    /\ LET p == cur.item.peer
       IN  \/ \E c \in conns[p] :
                 /\ cur' = [step |-> "stream", item |-> cur.item, conn |-> c.id]
                 /\ UNCHANGED conns
           \/ /\ conns[p] = {} /\ Dialable(p)
              /\ Connects(p)
              /\ cur' = [step |-> "stream", item |-> cur.item, conn |-> AnyId(FreeConn(p))]
    /\ UNCHANGED <<book, relayUp, interval, settled, queue, timers, routes, sends,
                   fate, fails, subVars>>

DialFails ==
    /\ cur.step = "dial"
    /\ settled => conns[cur.item.peer] = {} /\ ~Dialable(cur.item.peer)
    /\ RetrySending(cur.item)
    /\ UNCHANGED <<netVars, queue, routes, sends, subVars>>

\* connection.newStream of the connection dialed.
Usable(c) == c.id = cur.conn /\ c.open /\ ~c.dead

StreamAnswers ==
    /\ cur.step = "stream"
    /\ LET p == cur.item.peer
       IN  \E c \in conns[p] :
              /\ Usable(c)
              /\ LET d == [c EXCEPT !.stream = AnyId(FreeStream(p)), !.sinks = 0]
                 IN  HandOver(cur.item, d, (conns[p] \ {c}) \cup {d})
    /\ UNCHANGED <<book, relayUp, interval, settled, queue, timers, sends, subVars>>

StreamFails ==
    /\ cur.step = "stream"
    /\ settled => \A c \in conns[cur.item.peer] : ~Usable(c)
    /\ RetrySending(cur.item)
    /\ UNCHANGED <<netVars, queue, routes, sends, subVars>>

\* Mutant: an interval in place of the time-out.
RetryAgain(i) ==
    /\ i \in timers
    /\ queue' = Append(queue, i)
    /\ UNCHANGED <<netVars, cur, timers, routes, sends, fate, fails, subVars>>

\* Mutant: the time-out does not push the message back.
RetryForgotten(i) ==
    /\ i \in timers
    /\ timers' = timers \ {i}
    /\ UNCHANGED <<netVars, queue, cur, routes, sends, fate, fails, subVars>>

\* The time-out of retrySendingMessage: the message goes to the end of the queue.
RetryDue(i) ==
    /\ i \in timers
    /\ timers' = timers \ {i}
    /\ queue' = Append(queue, i)
    /\ UNCHANGED <<netVars, cur, routes, sends, fate, fails, subVars>>

MessageStep ==
    \/ SendRoute
    \/ TakeMessage \/ DialAnswers \/ DialFails \/ StreamAnswers \/ StreamFails
    \/ \E i \in timers : RetryDue(i)

-----------------------------------------------------------------------------
(***************************************************************************)
(* Subscriptions                                                           *)
(***************************************************************************)

\* Mutant: only the latest entry is compared.
RedundantLatest(ch, url) ==
    \E k \in DOMAIN subs[ch] :
        k = Len(subs[ch]) /\ ((subs[ch][k] # NoUrl /\ subs[ch][k] = url) \/ url = NoUrl)

\* The test of subscribeChannel for an entry of the same callback.
Redundant(ch, url) ==
    \E k \in DOMAIN subs[ch] : (subs[ch][k] # NoUrl /\ subs[ch][k] = url) \/ url = NoUrl

SubscribeChannel(ch, url) ==
    /\ asked' = [asked EXCEPT ![ch] = @ \cup {url}]
    /\ subs' = IF Redundant(ch, url) THEN subs
               ELSE [subs EXCEPT ![ch] = Append(@, url)]
    /\ UNCHANGED <<netVars, msgVars>>

\* POST /p2p/channel/subscribe: the callback is apiCallBack always.
SubscribeRoute == \E ch \in Channels, url \in Urls : SubscribeChannel(ch, url)

\* How often handleBroadcast calls back the url for one message on the channel.
Callbacks(ch, url) == Cardinality({k \in DOMAIN subs[ch] : subs[ch][k] = url})

-----------------------------------------------------------------------------

Next ==
    \/ NetworkStep
    \/ MessageStep
    \/ SubscribeRoute

Spec == Init /\ [][Next]_vars

\* The network settles; the event loop runs what is runnable, libp2p answers every
\* dial and newStream (it has time-outs), notices dead connections, removes closed
\* ones, dials the peers of its address book, and goes on announcing peers.
Fairness ==
    /\ WF_vars(SettleNetwork)
    /\ WF_vars(TakeMessage)
    /\ WF_vars(DialAnswers \/ DialFails \/ StreamAnswers \/ StreamFails)
    /\ WF_vars(\E i \in timers : RetryDue(i))
    /\ \A p \in Peers : /\ WF_vars(Discovered(p) \/ AutoDial(p))
                        /\ WF_vars((settled /\ Closing(p)) \/ ConnGone(p))
    /\ \A r \in Relays : WF_vars(IntervalTick(r) \/ RelayConnects(r))

FairSpec == Spec /\ Fairness

-----------------------------------------------------------------------------
(***************************************************************************)
(* Properties                                                              *)
(***************************************************************************)

\* Where the dialer holds the message m for the peer p.
Queued(p, m) == {k \in DOMAIN queue : queue[k].peer = p /\ queue[k].id = m}
Delayed(p, m) == {i \in timers : i.peer = p /\ i.id = m}
InLoop(p, m) == cur.step # "idle" /\ cur.item.peer = p /\ cur.item.id = m

\* A message accepted and neither sent nor given up is in exactly one of the queue,
\* the loop of processMessageQueue and the timers of retrySendingMessage; any other
\* is in none: the retries never lose a message and never send it twice.
OneCopy ==
    \A p \in Peers, m \in MsgId :
        Cardinality(Queued(p, m)) + Cardinality(Delayed(p, m)) + (IF InLoop(p, m) THEN 1 ELSE 0)
            = IF fate[p][m] = "pending" THEN 1 ELSE 0

\* A message is given up only after the first attempt and all the retries that
\* messageSendingRetriesMaxCount grants it have failed, and never tried more often.
DroppedAfterAllRetries ==
    \A p \in Peers, m \in MsgId :
        /\ fails[p][m] <= MaxRetries + 1
        /\ fate[p][m] = "dropped" => fails[p][m] = MaxRetries + 1

\* Whatever becomes of connections while the loop waits for dial and newStream, a
\* message goes to a source that is piped to the stream of an open connection to its
\* peer (getStreamSource never returns the source of a former stream).
NeverAstray == \A p \in Peers, m \in MsgId : fate[p][m] # "astray"

\* The sink of a stream is called once (libp2p refuses a second call, and the
\* message would be lost), and only one open connection to a peer has a stream: the
\* one the source in routesInfo is piped to.
OneSinkPerStream ==
    \A p \in Peers : \A c \in conns[p] :
        /\ c.sinks <= 1
        /\ c.open /\ c.stream # 0 => routes[p] = c.stream

\* However often and in whatever order urls subscribe to a channel, each of them is
\* called back once for a message on it.
CalledBackOnce ==
    \A ch \in Channels : \A url \in asked[ch] \ {NoUrl} : Callbacks(ch, url) = 1

\* Every message accepted by sendMessage is sent or given up in the end: no peer
\* that cannot be dialed holds up the queue for ever.
EveryMessageSettles ==
    \A p \in Peers, m \in MsgId : fate[p][m] = "pending" ~> fate[p][m] # "pending"

\* The connections to p are good, and so is the one the loop goes to use.
Quiet(p) ==
    /\ settled /\ conns[p] # {}
    /\ \A c \in conns[p] : c.open /\ ~c.dead
    /\ cur.step = "stream" /\ cur.item.peer = p => \E c \in conns[p] : c.id = cur.conn

\* Once the connections to a peer are good, what waits for it in the queue or for a
\* retry is sent to it: no stream that died before is used again.
SentWhenQuiet ==
    \A p \in Peers, m \in MsgId :
        Quiet(p) /\ fate[p][m] = "pending" ~> fate[p][m] = "sent"

\* Once the network has settled, relays and peers are connected again for good,
\* though a disconnection takes them out of the address book: the interval puts
\* back the relays, and discovery over them the peers.
Reconnects ==
    /\ \A r \in Relays : <>[](r \in relayUp)
    /\ \A p \in Peers : <>[](conns[p] # {})
=============================================================================
