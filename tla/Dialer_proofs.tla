---------------------------- MODULE Dialer_proofs ----------------------------
(***************************************************************************)
(* Proofs about Dialer, for any number of peers, relays, messages,         *)
(* connections and retries: types; streams and the sources piped to them;  *)
(* the queue and its retries; subscriptions.                               *)
(***************************************************************************)
EXTENDS Dialer, TLAPS, FiniteSetTheorems, SequenceTheorems

-----------------------------------------------------------------------------
(***************************************************************************)
(* Ids of connections and streams                                          *)
(***************************************************************************)

\* Fewer than n - 1 things leave one of n ids unused, beside x.
LEMMA IdLeft ==
    ASSUME NEW n \in Nat, NEW T, IsFiniteSet(T), Cardinality(T) + 1 < n,
           NEW f, DOMAIN f = T, f \in [T -> {f[c] : c \in T}], NEW x
    PROVE  \E k \in 1 .. n : k # x /\ \A c \in T : f[c] # k
<1> DEFINE U == {f[c] : c \in T}
<1>1. f \in Surjection(T, U)
  BY DEF Surjection
<1>2. IsFiniteSet(U) /\ Cardinality(U) <= Cardinality(T)
  BY <1>1, FS_Surjection
<1>3. Cardinality(U) \in Nat /\ Cardinality(T) \in Nat
  BY <1>2, FS_CardinalityType
<1> HIDE DEF U
<1>4. PICK V : V = U \cup {x}
  OBVIOUS
<1>5. IsFiniteSet(V) /\ Cardinality(V) <= Cardinality(U) + 1
  BY <1>2, <1>3, <1>4, FS_AddElement
<1>6. IsFiniteSet(V) => Cardinality(V) \in Nat
  BY FS_CardinalityType
<1>7. Cardinality(1 .. n) = n
  BY FS_Interval
<1>8. ~(1 .. n \subseteq V)
  <2>1. ASSUME 1 .. n \subseteq V
        PROVE  Cardinality(1 .. n) <= Cardinality(V)
    BY <1>5, <2>1, FS_Subset
  <2> QED BY <1>2, <1>3, <1>5, <1>6, <1>7, <2>1
<1> QED BY <1>4, <1>8 DEF U

\* The connections of a peer are no more than MaxConns.
Bounded(cs) == IsFiniteSet(cs) /\ Cardinality(cs) <= MaxConns

ConnInv == \A p \in Peers : Bounded(conns[p])

LEMMA ConnIdLeft ==
    ASSUME NEW p \in Peers, IsFiniteSet(conns[p]), Cardinality(conns[p]) < MaxConns
    PROVE  AnyId(FreeConn(p)) \in FreeConn(p)
<1>1. MaxConns + 1 \in Nat /\ Cardinality(conns[p]) \in Nat /\ MaxConns \in Nat
  BY ConstantsAssumption, FS_CardinalityType
<1>2. PICK T : T = conns[p]
  OBVIOUS
<1>3. PICK f : f = [c \in T |-> c.id]
  OBVIOUS
<1>4. PICK x : x = cur.conn
  OBVIOUS
<1>5. \E k \in 1 .. MaxConns + 1 : k # x /\ \A c \in T : f[c] # k
  <2>1. DOMAIN f = T /\ f \in [T -> {f[c] : c \in T}]
    BY <1>3
  <2>2. IsFiniteSet(T) /\ Cardinality(T) + 1 < MaxConns + 1
    BY <1>1, <1>2
  <2> QED BY <1>1, <2>1, <2>2, IdLeft
<1>6. FreeConn(p) # {}
  BY <1>2, <1>3, <1>4, <1>5 DEF FreeConn, ConnId
<1> QED BY <1>6 DEF AnyId

\* c waits for a stream, so one id more than MaxConns is enough for the others.
LEMMA StreamIdLeft ==
    ASSUME NEW p \in Peers, Bounded(conns[p]), NEW c \in conns[p], c.stream = 0
    PROVE  AnyId(FreeStream(p)) \in FreeStream(p)
<1>1. MaxConns + 1 \in Nat /\ Cardinality(conns[p]) \in Nat /\ MaxConns \in Nat
  BY ConstantsAssumption, FS_CardinalityType DEF Bounded
<1>2. PICK T : T = conns[p] \ {c}
  OBVIOUS
<1>3. IsFiniteSet(T) /\ Cardinality(T) + 1 < MaxConns + 1
  BY <1>1, <1>2, FS_RemoveElement DEF Bounded
<1>4. PICK f : f = [d \in T |-> d.stream]
  OBVIOUS
<1>5. PICK x : x = routes[p]
  OBVIOUS
<1>6. \E k \in 1 .. MaxConns + 1 : k # x /\ \A d \in T : f[d] # k
  <2>1. DOMAIN f = T /\ f \in [T -> {f[d] : d \in T}]
    BY <1>4
  <2>2. PICK n \in Nat : n = MaxConns + 1
    BY <1>1
  <2>3. \E k \in 1 .. n : k # x /\ \A d \in T : f[d] # k
    BY <1>3, <2>1, <2>2, IdLeft
  <2> QED BY <2>2, <2>3
<1>7. PICK k \in 1 .. MaxConns + 1 : k # x /\ \A d \in T : f[d] # k
  BY <1>6
<1>8. \A d \in conns[p] : d.stream # k
  <2>1. \A d \in T : d.stream # k
    BY <1>4, <1>7
  <2>2. c.stream # k
    BY <1>1
  <2> QED BY <1>2, <2>1, <2>2
<1>9. FreeStream(p) # {}
  BY <1>5, <1>7, <1>8 DEF FreeStream, StreamId
<1> QED BY <1>9 DEF AnyId

-----------------------------------------------------------------------------
(***************************************************************************)
(* Streams                                                                 *)
(***************************************************************************)

\* While the loop waits for dial or newStream the peer has no stream: nothing else
\* opens one.
WaitsWithout == cur.step \in {"dial", "stream"} => Streaming(cur.item.peer) = {}

LinkInv == ConnInv /\ WaitsWithout /\ OneSinkPerStream

\* Connections come, without a stream, change and go, and keep their streams or not.
Tame(new, old) ==
    /\ new \subseteq Conn /\ Bounded(new)
    /\ \A c \in new : \/ c.stream = 0 /\ c.sinks = 0
                      \/ \E d \in old : /\ c.stream = d.stream /\ c.sinks = d.sinks
                                        /\ c.open => d.open

ConnsTame == conns' \in [Peers -> SUBSET Conn] /\ \A p \in Peers : Tame(conns'[p], conns[p])

\* What the loop waits for, after a step that opens no stream.
LoopGoesOn ==
    \/ cur'.step = "idle"
    \/ cur' = cur
    \/ cur.step = "dial" /\ cur'.item = cur.item
    \/ /\ cur'.item.peer \in Peers /\ Streaming(cur'.item.peer) = {} /\ UNCHANGED conns

LEMMA TameKeepsLinks ==
    ASSUME TypeOK, LinkInv, ConnsTame, LoopGoesOn, UNCHANGED routes
    PROVE  LinkInv'
<1>1. ConnInv'
  BY DEF ConnsTame, Tame, ConnInv
<1>2. \A p \in Peers : Streaming(p) = {} => \A c \in conns'[p] : ~(c.open /\ c.stream # 0)
  BY DEF ConnsTame, Tame, Streaming
<1>3. cur.step \in {"dial", "stream"} => cur.item.peer \in Peers
  BY DEF TypeOK, Item, Idle
<1>4. WaitsWithout'
  <2>1. SUFFICES ASSUME cur'.step \in {"dial", "stream"}
                 PROVE  \A c \in conns'[cur'.item.peer] : ~(c.open /\ c.stream # 0)
    BY DEF WaitsWithout, Streaming
  <2>2. CASE cur' = cur \/ (cur.step = "dial" /\ cur'.item = cur.item)
    BY <1>2, <1>3, <2>1, <2>2 DEF LinkInv, WaitsWithout
  <2>3. CASE cur'.item.peer \in Peers /\ Streaming(cur'.item.peer) = {}
    BY <1>2, <2>3
  <2> QED BY <2>1, <2>2, <2>3 DEF LoopGoesOn
<1>5. OneSinkPerStream'
  <2>1. ASSUME NEW p \in Peers, NEW c \in conns'[p]
        PROVE  c.sinks <= 1 /\ (c.open /\ c.stream # 0 => routes[p] = c.stream)
    BY <2>1 DEF ConnsTame, Tame, LinkInv, OneSinkPerStream
  <2> QED BY <2>1 DEF OneSinkPerStream
<1> QED BY <1>1, <1>4, <1>5 DEF LinkInv

LEMMA BoundedSets ==
    ASSUME NEW cs, Bounded(cs)
    PROVE  /\ \A c : Bounded(cs \ {c})
           /\ \A c, d : c \in cs => Bounded((cs \ {c}) \cup {d})
           /\ \A c : Cardinality(cs) < MaxConns => Bounded(cs \cup {c})
<1>1. IsFiniteSet(cs) /\ Cardinality(cs) \in Nat /\ MaxConns \in Nat /\ Cardinality(cs) <= MaxConns
  BY FS_CardinalityType, ConstantsAssumption DEF Bounded
<1>2. ASSUME NEW c
      PROVE  /\ IsFiniteSet(cs \ {c})
             /\ Cardinality(cs \ {c}) = IF c \in cs THEN Cardinality(cs) - 1 ELSE Cardinality(cs)
  BY <1>1, FS_RemoveElement
<1>3. ASSUME NEW c
      PROVE  Bounded(cs \ {c})
  BY <1>1, <1>2 DEF Bounded
<1>4. ASSUME NEW c \in cs, NEW d
      PROVE  Bounded((cs \ {c}) \cup {d})
  <2>1. PICK rest : rest = cs \ {c}
    OBVIOUS
  <2>2. IsFiniteSet(rest) /\ Cardinality(rest) = Cardinality(cs) - 1
    BY <1>2, <2>1
  <2>3. /\ IsFiniteSet(rest \cup {d})
        /\ Cardinality(rest \cup {d}) =
             IF d \in rest THEN Cardinality(rest) ELSE Cardinality(rest) + 1
    BY <2>2, FS_AddElement
  <2> QED BY <1>1, <2>1, <2>2, <2>3 DEF Bounded
<1>5. ASSUME NEW c, Cardinality(cs) < MaxConns
      PROVE  Bounded(cs \cup {c})
  <2>1. /\ IsFiniteSet(cs \cup {c})
        /\ Cardinality(cs \cup {c}) = IF c \in cs THEN Cardinality(cs) ELSE Cardinality(cs) + 1
    BY <1>1, FS_AddElement
  <2> QED BY <1>1, <1>5, <2>1 DEF Bounded
<1> QED BY <1>3, <1>4, <1>5

LEMMA TameOne ==
    ASSUME TypeOK, ConnInv, NEW p \in Peers, NEW new, conns' = [conns EXCEPT ![p] = new],
           Tame(new, conns[p])
    PROVE  ConnsTame
<1>1. \A q \in Peers : Tame(conns[q], conns[q])
  BY DEF Tame, TypeOK, ConnInv
<1> QED BY <1>1 DEF ConnsTame, TypeOK, Tame

LEMMA TameUnchanged ==
    ASSUME TypeOK, ConnInv, UNCHANGED conns
    PROVE  ConnsTame
BY DEF ConnsTame, Tame, TypeOK, ConnInv

\* One connection of p becomes d.
LEMMA TameReplace ==
    ASSUME TypeOK, ConnInv, NEW p \in Peers, NEW c \in conns[p], NEW d \in Conn,
           \/ d.stream = 0 /\ d.sinks = 0
           \/ c.stream = d.stream /\ c.sinks = d.sinks /\ (d.open => c.open),
           conns' = [conns EXCEPT ![p] = (conns[p] \ {c}) \cup {d}]
    PROVE  ConnsTame
<1>1. PICK old : old = conns[p] /\ old \subseteq Conn /\ Bounded(old) /\ c \in old
  BY DEF TypeOK, ConnInv
<1>2. PICK new : new = (old \ {c}) \cup {d}
  OBVIOUS
<1>3. Tame(new, old)
  BY <1>1, <1>2, BoundedSets DEF Tame
<1> QED BY <1>1, <1>2, <1>3, TameOne

LEMMA TameConnects ==
    ASSUME TypeOK, ConnInv, NEW p \in Peers, Connects(p)
    PROVE  ConnsTame
<1>1. PICK old : old = conns[p] /\ old \subseteq Conn /\ Bounded(old)
  BY DEF TypeOK, ConnInv
<1>2. PICK k \in FreeConn(p) : k = AnyId(FreeConn(p))
  BY <1>1, ConnIdLeft DEF Connects, Bounded
<1>3. PICK c : c = NewConn(k)
  OBVIOUS
<1>4. c \in Conn /\ c.stream = 0 /\ c.sinks = 0
  BY <1>2, <1>3 DEF NewConn, Conn, FreeConn
<1>5. PICK new : new = old \cup {c}
  OBVIOUS
<1>6. Tame(new, old)
  BY <1>1, <1>4, <1>5, BoundedSets DEF Tame, Connects
<1>7. conns' = [conns EXCEPT ![p] = new]
  BY <1>1, <1>2, <1>3, <1>5 DEF Connects
<1> QED BY <1>1, <1>6, <1>7, TameOne

LEMMA NetworkTame ==
    ASSUME TypeOK, ConnInv, NetworkStep
    PROVE  ConnsTame /\ UNCHANGED <<msgVars, subVars>>
<1>1. CASE SettleNetwork
  BY <1>1, TameUnchanged DEF SettleNetwork
<1>2. CASE \E r \in Relays : RelayLost(r) \/ RelayConnects(r) \/ IntervalTick(r)
  BY <1>2, TameUnchanged DEF RelayLost, RelayConnects, IntervalTick
<1>3. ASSUME NEW p \in Peers, AutoDial(p) \/ Accept(p)
      PROVE  ConnsTame /\ UNCHANGED <<msgVars, subVars>>
  BY <1>3, TameConnects DEF AutoDial, Accept
<1>4. ASSUME NEW p \in Peers, DieUnnoticed(p) \/ StreamReset(p) \/ Closing(p)
      PROVE  ConnsTame /\ UNCHANGED <<msgVars, subVars>>
  <2>1. PICK c, d :
           /\ c \in conns[p]
           /\ \/ d = [c EXCEPT !.dead = TRUE]
              \/ d = [c EXCEPT !.stream = 0, !.sinks = 0]
              \/ d = [c EXCEPT !.open = FALSE, !.dead = FALSE]
           /\ conns' = [conns EXCEPT ![p] = (conns[p] \ {c}) \cup {d}]
    BY <1>4 DEF DieUnnoticed, StreamReset, Closing
  <2>2. c \in Conn
    BY <2>1 DEF TypeOK
  <2>3. /\ d \in Conn
        /\ \/ d.stream = 0 /\ d.sinks = 0
           \/ c.stream = d.stream /\ c.sinks = d.sinks /\ (d.open => c.open)
    <3>1. CASE d = [c EXCEPT !.dead = TRUE]
      BY <2>2, <3>1 DEF Conn
    <3>2. CASE d = [c EXCEPT !.stream = 0, !.sinks = 0]
      BY <2>2, <3>2 DEF Conn
    <3>3. CASE d = [c EXCEPT !.open = FALSE, !.dead = FALSE]
      BY <2>2, <3>3 DEF Conn
    <3> QED BY <2>1, <3>1, <3>2, <3>3
  <2>4. ConnsTame
    BY <2>1, <2>3, TameReplace
  <2> QED BY <1>4, <2>4 DEF DieUnnoticed, StreamReset, Closing
<1>5. ASSUME NEW p \in Peers, ConnGone(p)
      PROVE  ConnsTame /\ UNCHANGED <<msgVars, subVars>>
  <2>1. PICK c \in conns[p] : conns' = [conns EXCEPT ![p] = conns[p] \ {c}]
    BY <1>5 DEF ConnGone
  <2>2. PICK old : old = conns[p] /\ old \subseteq Conn /\ Bounded(old)
    BY DEF TypeOK, ConnInv
  <2>3. Tame(old \ {c}, old)
    BY <2>2, BoundedSets DEF Tame
  <2> QED BY <1>5, <2>1, <2>2, <2>3, TameOne DEF ConnGone
<1>6. ASSUME NEW p \in Peers, Discovered(p)
      PROVE  ConnsTame /\ UNCHANGED <<msgVars, subVars>>
  BY <1>6, TameUnchanged DEF Discovered
<1> QED BY <1>1, <1>2, <1>3, <1>4, <1>5, <1>6 DEF NetworkStep

LEMMA NetworkTyped ==
    ASSUME TypeOK, ConnInv, NetworkStep
    PROVE  TypeOK'
<1>1. ConnsTame /\ UNCHANGED <<msgVars, subVars>>
  BY NetworkTame
<1>2. /\ book' \subseteq Peers \cup Relays /\ relayUp' \subseteq Relays
      /\ interval' \subseteq Relays /\ settled' \in BOOLEAN
  <2>1. /\ book \subseteq Peers \cup Relays /\ relayUp \subseteq Relays
        /\ interval \subseteq Relays /\ settled \in BOOLEAN
    BY DEF TypeOK
  <2>2. CASE SettleNetwork
    BY <2>1, <2>2 DEF SettleNetwork
  <2>3. ASSUME NEW p \in Peers, \/ AutoDial(p) \/ Accept(p) \/ DieUnnoticed(p) \/ StreamReset(p)
                                \/ Closing(p)
        PROVE  UNCHANGED <<book, relayUp, interval, settled>>
    BY <2>3 DEF AutoDial, Accept, DieUnnoticed, StreamReset, Closing
  <2>4. ASSUME NEW p \in Peers, ConnGone(p) \/ Discovered(p)
        PROVE  /\ book' \subseteq Peers \cup Relays /\ relayUp' = relayUp /\ settled' = settled
               /\ interval' \subseteq Relays
    <3>1. CASE ConnGone(p)
      BY <2>1, <3>1 DEF ConnGone, OnDisconnect
    <3>2. CASE Discovered(p)
      BY <2>1, <3>2 DEF Discovered
    <3> QED BY <2>4, <3>1, <3>2
  <2>5. ASSUME NEW r \in Relays, RelayLost(r) \/ RelayConnects(r) \/ IntervalTick(r)
        PROVE  /\ book' \subseteq Peers \cup Relays /\ relayUp' \subseteq Relays
               /\ interval' \subseteq Relays /\ settled' = settled
    BY <2>1, <2>5 DEF RelayLost, RelayConnects, IntervalTick, OnDisconnect
  <2> QED BY <2>1, <2>2, <2>3, <2>4, <2>5 DEF NetworkStep
<1> QED BY <1>1, <1>2 DEF ConnsTame, TypeOK, msgVars, subVars

-----------------------------------------------------------------------------
(***************************************************************************)
(* The loop of processMessageQueue                                         *)
(***************************************************************************)
LEMMA ItemType ==
    ASSUME NEW i \in Item
    PROVE  i.peer \in Peers /\ i.id \in MsgId /\ i.retries \in 0 .. MaxRetries
BY DEF Item

LEMMA CurType ==
    ASSUME TypeOK
    PROVE  /\ cur.step = "dial" => cur.item \in Item
           /\ cur.step = "stream" => cur.item \in Item /\ cur.conn \in ConnId
           /\ cur.step \in {"idle", "dial", "stream"}
BY DEF TypeOK, Idle

\* The message i is handed to a stream of an open connection.
Handed(i) ==
    /\ cur' = Idle /\ fails' = [fails EXCEPT ![i.peer][i.id] = 0]
    /\ \E v \in {"sent", "lost"} : fate' = [fate EXCEPT ![i.peer][i.id] = v]

\* Or put off, or given up.
PutOff(i) ==
    /\ cur' = Idle
    /\ fails' = [fails EXCEPT ![i.peer][i.id] = IF @ < MaxRetries + 2 THEN @ + 1 ELSE @]
    /\ \/ MayRetry(i) /\ timers' = timers \cup {Retried(i)} /\ UNCHANGED fate
       \/ ~MayRetry(i) /\ fate' = [fate EXCEPT ![i.peer][i.id] = "dropped"] /\ UNCHANGED timers

\* A message on a stream that is there: nothing changes but the message.
LEMMA HandOverOld ==
    ASSUME TypeOK, LinkInv, NEW i \in Item, NEW c \in Streaming(i.peer),
           HandOver(i, c, conns[i.peer])
    PROVE  Handed(i) /\ UNCHANGED <<conns, routes>>
<1>1. PICK p \in Peers : p = i.peer
  BY ItemType
<1>2. c \in conns[p] /\ c.open /\ c.stream # 0 /\ routes[p] = c.stream
  BY <1>1 DEF Streaming, LinkInv, OneSinkPerStream
<1>3. Sink(routes[p], c) = c /\ RouteFor(routes[p], c) = c.stream
  BY <1>2 DEF Sink, RouteFor
<1>4. (conns[p] \ {c}) \cup {c} = conns[p]
  BY <1>2
<1>5. UNCHANGED <<conns, routes>>
  <2>1. conns' = [conns EXCEPT ![p] = conns[p]] /\ routes' = [routes EXCEPT ![p] = routes[p]]
    BY <1>1, <1>2, <1>3, <1>4 DEF HandOver
  <2> QED BY <2>1 DEF TypeOK
<1>6. FateOn(conns[p], c.stream) \in {"sent", "lost"}
  BY <1>2 DEF FateOn
<1>7. fate' = [fate EXCEPT ![p][i.id] = FateOn(conns[p], c.stream)]
  BY <1>1, <1>3, <1>4 DEF HandOver
<1> QED BY <1>1, <1>5, <1>6, <1>7 DEF Handed, HandOver

\* A message on a new stream, which gets its source.
LEMMA StreamAnswersLinks ==
    ASSUME TypeOK, LinkInv, StreamAnswers
    PROVE  /\ Handed(cur.item) /\ LinkInv' /\ conns' \in [Peers -> SUBSET Conn]
           /\ routes' \in [Peers -> {0} \cup StreamId]
<1>1. cur.step = "stream" /\ cur.item \in Item
  BY CurType DEF StreamAnswers
<1>2. PICK p \in Peers : p = cur.item.peer
  BY <1>1, ItemType
<1>3. PICK c, s :
         /\ c \in conns[p] /\ c.open /\ ~c.dead /\ s = AnyId(FreeStream(p))
         /\ LET d == [c EXCEPT !.stream = s, !.sinks = 0]
            IN  HandOver(cur.item, d, (conns[p] \ {c}) \cup {d})
  BY <1>2 DEF StreamAnswers, Usable
<1>4. Streaming(p) = {} /\ Bounded(conns[p]) /\ c \in conns[p] /\ c \in Conn
  BY <1>1, <1>2, <1>3 DEF LinkInv, ConnInv, WaitsWithout, TypeOK
<1>5. \A d \in conns[p] : d.open => d.stream = 0
  BY <1>4 DEF Streaming
<1>6. s \in StreamId /\ s # 0 /\ s # routes[p]
  BY <1>3, <1>4, <1>5, StreamIdLeft, ConstantsAssumption DEF FreeStream, StreamId
<1>7. PICK d : d = [c EXCEPT !.stream = s, !.sinks = 0]
  OBVIOUS
<1>8. PICK e : e = [d EXCEPT !.sinks = 1]
  OBVIOUS
<1>9. /\ d.stream = s /\ e \in Conn /\ e.stream = s /\ e.sinks = 1 /\ e.open /\ ~e.dead
      /\ Sink(routes[p], d) = e
  <2>1. /\ d \in Conn /\ d.stream = s /\ d.sinks = 0 /\ d.open /\ ~d.dead
    BY <1>3, <1>4, <1>6, <1>7 DEF Conn
  <2>2. e \in Conn /\ e.stream = s /\ e.sinks = 1 /\ e.open /\ ~e.dead
    BY <1>8, <2>1 DEF Conn
  <2>3. Sink(routes[p], d) = [d EXCEPT !.sinks = 0 + 1]
    BY <1>6, <2>1 DEF Sink
  <2> QED BY <1>8, <2>1, <2>2, <2>3
<1>10. PICK rest : rest = ((conns[p] \ {c}) \cup {d}) \ {d}
  OBVIOUS
<1>11. /\ conns' = [conns EXCEPT ![p] = rest \cup {e}]
       /\ routes' = [routes EXCEPT ![p] = s]
       /\ fate' = [fate EXCEPT ![p][cur.item.id] = FateOn(rest \cup {e}, s)]
       /\ fails' = [fails EXCEPT ![p][cur.item.id] = 0] /\ cur' = Idle
  BY <1>2, <1>3, <1>7, <1>9, <1>10 DEF HandOver, RouteFor
<1>12. rest \subseteq conns[p] \ {c}
  BY <1>10
<1>13. Bounded(rest \cup {e})
  <2>1. Bounded((conns[p] \ {c}) \cup {e})
    BY <1>4, BoundedSets
  <2>2. rest \cup {e} \subseteq (conns[p] \ {c}) \cup {e}
    BY <1>12
  <2>3. PICK small, big : /\ small = rest \cup {e} /\ big = (conns[p] \ {c}) \cup {e}
                          /\ small \subseteq big /\ Bounded(big)
    BY <2>1, <2>2
  <2>4. IsFiniteSet(small) /\ Cardinality(small) <= Cardinality(big)
    BY <2>3, FS_Subset DEF Bounded
  <2>5. Cardinality(small) \in Nat /\ Cardinality(big) \in Nat /\ MaxConns \in Nat
    BY <2>3, <2>4, FS_CardinalityType, ConstantsAssumption DEF Bounded
  <2> QED BY <2>3, <2>4, <2>5 DEF Bounded
<1>14. FateOn(rest \cup {e}, s) = "sent"
  BY <1>9 DEF FateOn
<1>15. Handed(cur.item)
  BY <1>2, <1>11, <1>14 DEF Handed
<1>16. conns' \in [Peers -> SUBSET Conn] /\ routes' \in [Peers -> {0} \cup StreamId]
  <2>1. rest \cup {e} \subseteq Conn
    BY <1>9, <1>12 DEF TypeOK
  <2> QED BY <1>6, <1>11, <2>1 DEF TypeOK
<1>17. /\ conns'[p] = rest \cup {e} /\ routes'[p] = s
       /\ \A q \in Peers : q # p => conns'[q] = conns[q] /\ routes'[q] = routes[q]
  BY <1>11 DEF TypeOK
<1>18. ConnInv'
  BY <1>13, <1>17 DEF LinkInv, ConnInv
<1>19. WaitsWithout'
  BY <1>11 DEF WaitsWithout, Idle
<1>20. OneSinkPerStream'
  <2>1. ASSUME NEW k \in conns'[p]
        PROVE  k.sinks <= 1 /\ (k.open /\ k.stream # 0 => routes'[p] = k.stream)
    <3>1. CASE k = e
      BY <1>9, <1>17, <3>1
    <3>2. CASE k \in conns[p]
      BY <1>5, <3>2 DEF LinkInv, OneSinkPerStream
    <3> QED BY <1>12, <1>17, <3>1, <3>2
  <2>2. ASSUME NEW q \in Peers, q # p, NEW k \in conns'[q]
        PROVE  k.sinks <= 1 /\ (k.open /\ k.stream # 0 => routes'[q] = k.stream)
    BY <1>17, <2>2 DEF LinkInv, OneSinkPerStream
  <2> QED BY <2>1, <2>2 DEF OneSinkPerStream
<1> QED BY <1>15, <1>16, <1>18, <1>19, <1>20 DEF LinkInv

\* What a turn of the loop is, without the data of libp2p.
LoopStep ==
    \/ /\ cur = Idle /\ queue # <<>> /\ queue' = Tail(queue) /\ UNCHANGED timers
       /\ \/ Handed(Head(queue))
          \/ /\ cur' = [step |-> "dial", item |-> Head(queue)]
             /\ UNCHANGED <<fate, fails>>
    \/ /\ cur.step = "dial" /\ cur'.step = "stream" /\ cur'.item = cur.item
       /\ UNCHANGED <<queue, timers, fate, fails>>
    \/ /\ cur.step \in {"dial", "stream"} /\ UNCHANGED queue
       /\ \/ Handed(cur.item) /\ UNCHANGED timers
          \/ PutOff(cur.item)

LEMMA TakeMessageStep ==
    ASSUME TypeOK, LinkInv, TakeMessage
    PROVE  /\ LoopStep /\ UNCHANGED <<conns, routes>> /\ LinkInv'
           /\ cur' \in {Idle} \cup [step : {"dial"}, item : Item]
<1>1. PICK i : i = Head(queue)
  OBVIOUS
<1>2. i \in Item
  BY <1>1 DEF TypeOK, TakeMessage
<1>3. CASE \E c \in Streaming(i.peer) : HandOver(i, c, conns[i.peer])
  <2>1. Handed(i) /\ UNCHANGED <<conns, routes>>
    BY <1>2, <1>3, HandOverOld
  <2>2. cur' = Idle /\ cur'.step = "idle"
    BY <2>1 DEF Handed, Idle
  <2>3. ConnsTame
    BY <2>1, TameUnchanged DEF LinkInv
  <2>4. LinkInv'
    BY <2>1, <2>2, <2>3, TameKeepsLinks DEF LoopGoesOn
  <2> QED BY <1>1, <2>1, <2>2, <2>4 DEF TakeMessage, LoopStep
<1>4. CASE /\ Streaming(i.peer) = {} /\ cur' = [step |-> "dial", item |-> i]
           /\ UNCHANGED <<conns, routes, fate, fails>>
  <2>1. LoopGoesOn
    BY <1>2, <1>4, ItemType DEF LoopGoesOn
  <2>2. LinkInv'
    BY <1>4, <2>1, TameUnchanged, TameKeepsLinks DEF LinkInv
  <2> QED BY <1>1, <1>2, <1>4, <2>2 DEF TakeMessage, LoopStep
<1> QED BY <1>1, <1>3, <1>4 DEF TakeMessage

LEMMA DialAnswersStep ==
    ASSUME TypeOK, LinkInv, DialAnswers
    PROVE  /\ LoopStep /\ UNCHANGED routes /\ ConnsTame /\ LinkInv'
           /\ cur' \in [step : {"stream"}, item : Item, conn : ConnId]
<1>1. cur.step = "dial" /\ cur.item \in Item /\ cur.item.peer \in Peers
  BY CurType, ItemType DEF DialAnswers
<1>2. PICK p \in Peers : p = cur.item.peer
  BY <1>1
<1>3. ConnsTame /\ \E k \in ConnId : cur' = [step |-> "stream", item |-> cur.item, conn |-> k]
  <2>1. CASE \E c \in conns[p] :
                /\ cur' = [step |-> "stream", item |-> cur.item, conn |-> c.id]
                /\ UNCHANGED conns
    BY <2>1, TameUnchanged DEF LinkInv, TypeOK, Conn
  <2>2. CASE /\ Connects(p)
             /\ cur' = [step |-> "stream", item |-> cur.item, conn |-> AnyId(FreeConn(p))]
    <3>1. AnyId(FreeConn(p)) \in ConnId
      BY <2>2, ConnIdLeft DEF LinkInv, ConnInv, Bounded, Connects, FreeConn
    <3> QED BY <2>2, <3>1, TameConnects DEF LinkInv
  <2> QED BY <1>2, <2>1, <2>2 DEF DialAnswers
<1>4. LoopGoesOn
  BY <1>1, <1>3 DEF LoopGoesOn
<1>5. LinkInv'
  BY <1>3, <1>4, TameKeepsLinks DEF DialAnswers
<1> QED BY <1>1, <1>3, <1>5 DEF DialAnswers, LoopStep

LEMMA RetryStep ==
    ASSUME TypeOK, LinkInv, DialFails \/ StreamFails
    PROVE  LoopStep /\ cur' = Idle /\ LinkInv'
<1>1. cur.step \in {"dial", "stream"} /\ RetrySending(cur.item) /\ UNCHANGED <<netVars, queue, routes>>
  BY DEF DialFails, StreamFails
<1>2. PutOff(cur.item) /\ cur' = Idle
  BY <1>1 DEF RetrySending, PutOff
<1>3. LoopGoesOn /\ UNCHANGED <<conns, routes, queue>>
  BY <1>1, <1>2 DEF LoopGoesOn, Idle, netVars
<1>4. LinkInv'
  BY <1>3, TameUnchanged, TameKeepsLinks DEF LinkInv
<1> QED BY <1>1, <1>2, <1>3, <1>4 DEF LoopStep

\* What a turn of the loop leaves of the messages keeps its types.
LEMMA LoopTyped ==
    ASSUME TypeOK, LoopStep
    PROVE  /\ queue' \in Seq(Item) /\ timers' \subseteq Item
           /\ fate' \in [Peers -> [MsgId -> {"none", "pending", "sent", "lost", "astray", "dropped"}]]
           /\ fails' \in [Peers -> [MsgId -> 0 .. MaxRetries + 2]]
<1>1. MaxRetries \in Nat
  BY ConstantsAssumption
<1>2. ASSUME NEW i \in Item, Handed(i)
      PROVE  /\ fate' \in [Peers -> [MsgId -> {"none", "pending", "sent", "lost", "astray", "dropped"}]]
             /\ fails' \in [Peers -> [MsgId -> 0 .. MaxRetries + 2]]
  <2>1. i.peer \in Peers /\ i.id \in MsgId /\ 0 \in 0 .. MaxRetries + 2
    BY <1>1, ItemType
  <2> QED BY <1>2, <2>1 DEF Handed, TypeOK
<1>3. ASSUME NEW i \in Item, PutOff(i)
      PROVE  /\ fate' \in [Peers -> [MsgId -> {"none", "pending", "sent", "lost", "astray", "dropped"}]]
             /\ fails' \in [Peers -> [MsgId -> 0 .. MaxRetries + 2]]
             /\ timers' \subseteq Item
  <2>1. i.peer \in Peers /\ i.id \in MsgId /\ i.retries \in 0 .. MaxRetries
    BY ItemType
  <2>2. fails' \in [Peers -> [MsgId -> 0 .. MaxRetries + 2]]
    <3>1. PICK v : /\ v = IF fails[i.peer][i.id] < MaxRetries + 2 THEN fails[i.peer][i.id] + 1
                                                              ELSE fails[i.peer][i.id]
                   /\ fails' = [fails EXCEPT ![i.peer][i.id] = v]
      BY <1>3 DEF PutOff
    <3>2. fails[i.peer][i.id] \in 0 .. MaxRetries + 2
      BY <2>1 DEF TypeOK
    <3>3. v \in 0 .. MaxRetries + 2
      BY <1>1, <3>1, <3>2
    <3> QED BY <2>1, <3>1, <3>3 DEF TypeOK
  <2>3. fate' \in [Peers -> [MsgId -> {"none", "pending", "sent", "lost", "astray", "dropped"}]]
    <3>1. fate' = fate \/ fate' = [fate EXCEPT ![i.peer][i.id] = "dropped"]
      BY <1>3 DEF PutOff
    <3>2. CASE fate' = fate
      BY <3>2 DEF TypeOK
    <3>3. CASE fate' = [fate EXCEPT ![i.peer][i.id] = "dropped"]
      BY <2>1, <3>3 DEF TypeOK
    <3> QED BY <3>1, <3>2, <3>3
  <2>4. MayRetry(i) => Retried(i) \in Item
    <3>1. MayRetry(i) => i.retries + 1 \in 0 .. MaxRetries
      BY <1>1, <2>1 DEF MayRetry
    <3> QED BY <3>1 DEF Retried, Item
  <2> QED BY <1>3, <2>2, <2>3, <2>4 DEF PutOff, TypeOK
<1>4. queue # <<>> => Head(queue) \in Item /\ Tail(queue) \in Seq(Item)
  BY DEF TypeOK
<1> QED BY <1>2, <1>3, <1>4, CurType DEF LoopStep, TypeOK

-----------------------------------------------------------------------------
(***************************************************************************)
(* Messages sent and put off                                               *)
(***************************************************************************)

\* The peers s of a call of sendMessage, listed once each.
Listed(s, n) == n \in Nat /\ s \in [1 .. n -> Peers] /\ \A i, j \in 1 .. n : s[i] = s[j] => i = j

LEMMA SendRouteLists ==
    ASSUME SendRoute
    PROVE  \E s, n : Listed(s, n) /\ PushAll(s)
<1>1. ASSUME NEW p \in Peers, SendTo(p)
      PROVE  \E s, n : Listed(s, n) /\ PushAll(s)
  <2>1. Listed(<<p>>, 1)
    BY DEF Listed
  <2> QED BY <1>1, <2>1 DEF SendTo
<1>2. CASE Broadcast
  <2>1. IsFiniteSet(ConnectedPeers)
    BY ConstantsAssumption, FS_Subset DEF ConnectedPeers
  <2>2. PICK n \in Nat : n = Cardinality(ConnectedPeers)
    BY <2>1, FS_CardinalityType
  <2>3. PICK s \in Orders(ConnectedPeers) : PushAll(s)
    BY <1>2 DEF Broadcast
  <2>4. Listed(s, n)
    BY <2>2, <2>3 DEF Orders, Listed, ConnectedPeers
  <2> QED BY <2>3, <2>4
<1> QED BY <1>1, <1>2 DEF SendRoute

\* The messages a call of sendMessage adds to the queue.
New(s, n) == [i \in 1 .. n |-> [peer |-> s[i], id |-> sends + 1, retries |-> 0]]

LEMMA PushAllIs ==
    ASSUME TypeOK, NEW s, NEW n, Listed(s, n), PushAll(s)
    PROVE  /\ New(s, n) \in Seq(Item) /\ Len(New(s, n)) = n
           /\ queue' = queue \o New(s, n) /\ queue' \in Seq(Item)
           /\ sends + 1 \in MsgId /\ sends' = sends + 1 /\ sends' \in 0 .. MaxSends
           /\ fate' \in [Peers -> [MsgId -> {"none", "pending", "sent", "lost", "astray", "dropped"}]]
           /\ \A p \in Peers : \A m \in MsgId :
                 fate'[p][m] = IF m = sends + 1 /\ \E i \in 1 .. n : s[i] = p THEN "pending"
                               ELSE fate[p][m]
<1>1. DOMAIN s = 1 .. n /\ n \in Nat
  BY DEF Listed
<1>2. sends \in 0 .. MaxSends /\ MaxSends \in Nat /\ sends < MaxSends /\ 0 \in 0 .. MaxRetries
  BY ConstantsAssumption DEF TypeOK, PushAll
<1>3. sends + 1 \in MsgId /\ sends + 1 \in 0 .. MaxSends
  BY <1>2 DEF MsgId
<1>4. \A i \in 1 .. n : [peer |-> s[i], id |-> sends + 1, retries |-> 0] \in Item
  BY <1>2, <1>3 DEF Listed, Item
<1>5. New(s, n) \in Seq(Item) /\ Len(New(s, n)) = n
  <2>1. New(s, n) \in [1 .. n -> Item]
    BY <1>4 DEF New
  <2> QED BY <1>1, <2>1
<1>6. queue' = queue \o New(s, n)
  BY <1>1 DEF PushAll, New
<1>7. queue' \in Seq(Item)
  BY <1>5, <1>6, ConcatProperties DEF TypeOK
<1>8. fate' = [p \in Peers |-> IF \E i \in 1 .. n : s[i] = p
                               THEN [fate[p] EXCEPT ![sends + 1] = "pending"]
                               ELSE fate[p]]
  BY <1>1 DEF PushAll
<1>9. \A p \in Peers : \A m \in MsgId :
         fate'[p][m] = IF m = sends + 1 /\ \E i \in 1 .. n : s[i] = p THEN "pending"
                       ELSE fate[p][m]
  BY <1>3, <1>8 DEF TypeOK
<1>10. fate' \in [Peers -> [MsgId -> {"none", "pending", "sent", "lost", "astray", "dropped"}]]
  BY <1>8 DEF TypeOK
<1> QED BY <1>3, <1>5, <1>6, <1>7, <1>9, <1>10 DEF PushAll

\* Steps that neither open nor use a stream.
LEMMA OtherKeepsLinks ==
    ASSUME TypeOK, LinkInv, UNCHANGED <<conns, cur, routes>>
    PROVE  LinkInv'
BY TameUnchanged, TameKeepsLinks DEF LinkInv, LoopGoesOn

LEMMA SubscribeTyped ==
    ASSUME TypeOK, SubscribeRoute
    PROVE  /\ UNCHANGED <<netVars, msgVars>>
           /\ subs' \in [Channels -> Seq(Urls)] /\ asked' \in [Channels -> SUBSET Urls]
<1>1. PICK ch \in Channels, url \in Urls : SubscribeChannel(ch, url)
  BY DEF SubscribeRoute
<1>2. subs[ch] \in Seq(Urls) /\ Append(subs[ch], url) \in Seq(Urls)
  BY DEF TypeOK
<1>3. subs' = subs \/ subs' = [subs EXCEPT ![ch] = Append(subs[ch], url)]
  BY <1>1 DEF SubscribeChannel
<1>4. subs' \in [Channels -> Seq(Urls)]
  BY <1>2, <1>3 DEF TypeOK
<1>5. asked' \in [Channels -> SUBSET Urls]
  BY <1>1 DEF SubscribeChannel, TypeOK
<1> QED BY <1>1, <1>4, <1>5 DEF SubscribeChannel

LinkTyped == TypeOK /\ LinkInv

LEMMA NextKeepsLinks ==
    ASSUME LinkTyped, [Next]_vars
    PROVE  LinkTyped'
<1>1. TypeOK /\ LinkInv /\ ConnInv
  BY DEF LinkTyped, LinkInv
<1>2. CASE UNCHANGED vars
  <2>1. TypeOK'
    BY <1>1, <1>2 DEF vars, netVars, msgVars, subVars, TypeOK
  <2> QED BY <1>1, <1>2, <2>1, OtherKeepsLinks DEF LinkTyped, vars, netVars, msgVars
<1>3. CASE NetworkStep
  <2>1. ConnsTame /\ LoopGoesOn /\ UNCHANGED routes
    BY <1>1, <1>3, NetworkTame DEF msgVars, LoopGoesOn
  <2> QED BY <1>1, <1>3, <2>1, TameKeepsLinks, NetworkTyped DEF LinkTyped
<1>4. CASE SubscribeRoute
  <2>1. TypeOK' /\ UNCHANGED <<conns, cur, routes>>
    BY <1>1, <1>4, SubscribeTyped DEF TypeOK, netVars, msgVars
  <2> QED BY <1>1, <2>1, OtherKeepsLinks DEF LinkTyped
<1>5. CASE SendRoute
  <2>1. PICK s, n : Listed(s, n) /\ PushAll(s)
    BY <1>5, SendRouteLists
  <2>2. TypeOK' /\ UNCHANGED <<conns, cur, routes>>
    BY <1>1, <2>1, PushAllIs DEF PushAll, TypeOK, netVars, subVars
  <2> QED BY <1>1, <2>2, OtherKeepsLinks DEF LinkTyped
<1>6. CASE \E i \in timers : RetryDue(i)
  <2>1. PICK i \in timers : RetryDue(i)
    BY <1>6
  <2>2. i \in Item /\ Append(queue, i) \in Seq(Item)
    BY <1>1 DEF TypeOK
  <2>3. TypeOK' /\ UNCHANGED <<conns, cur, routes>>
    BY <1>1, <2>1, <2>2 DEF RetryDue, TypeOK, netVars, subVars
  <2> QED BY <1>1, <2>3, OtherKeepsLinks DEF LinkTyped
<1>7. CASE TakeMessage
  <2>1. LoopStep /\ LinkInv' /\ UNCHANGED <<conns, routes>>
        /\ cur' \in {Idle} \cup [step : {"dial"}, item : Item]
    BY <1>1, <1>7, TakeMessageStep
  <2>2. TypeOK'
    BY <1>1, <1>7, <2>1, LoopTyped DEF TakeMessage, TypeOK, subVars
  <2> QED BY <2>1, <2>2 DEF LinkTyped
<1>8. CASE DialAnswers
  <2>1. /\ LoopStep /\ LinkInv' /\ conns' \in [Peers -> SUBSET Conn] /\ UNCHANGED routes
        /\ cur' \in [step : {"stream"}, item : Item, conn : ConnId]
    BY <1>1, <1>8, DialAnswersStep DEF ConnsTame
  <2>2. TypeOK'
    BY <1>1, <1>8, <2>1, LoopTyped DEF DialAnswers, TypeOK, subVars
  <2> QED BY <2>1, <2>2 DEF LinkTyped
<1>9. CASE StreamAnswers
  <2>1. /\ Handed(cur.item) /\ LinkInv' /\ conns' \in [Peers -> SUBSET Conn]
        /\ routes' \in [Peers -> {0} \cup StreamId]
    BY <1>1, <1>9, StreamAnswersLinks
  <2>2. LoopStep
    BY <1>9, <2>1 DEF StreamAnswers, LoopStep
  <2>3. TypeOK'
    BY <1>1, <1>9, <2>1, <2>2, LoopTyped DEF StreamAnswers, TypeOK, subVars, Handed
  <2> QED BY <2>1, <2>3 DEF LinkTyped
<1>10. CASE DialFails \/ StreamFails
  <2>1. LoopStep /\ cur' = Idle /\ LinkInv'
    BY <1>1, <1>10, RetryStep
  <2>2. TypeOK'
    BY <1>1, <1>10, <2>1, LoopTyped DEF DialFails, StreamFails, TypeOK, netVars, subVars
  <2> QED BY <2>1, <2>2 DEF LinkTyped
<1> QED BY <1>2, <1>3, <1>4, <1>5, <1>6, <1>7, <1>8, <1>9, <1>10 DEF Next, MessageStep

LEMMA LinksHold == Spec => []LinkTyped
<1>1. Init => LinkTyped
  <2>1. /\ 0 \in 0 .. MaxSends /\ 0 \in 0 .. MaxRetries + 2 /\ MaxConns \in Nat
    BY ConstantsAssumption
  <2>2. ASSUME Init
        PROVE  TypeOK
    <3>1. /\ book \subseteq Peers \cup Relays /\ relayUp \subseteq Relays /\ interval \subseteq Relays
          /\ conns \in [Peers -> SUBSET Conn] /\ settled \in BOOLEAN
      BY <2>2 DEF Init
    <3>2. /\ queue \in Seq(Item) /\ cur = Idle /\ timers \subseteq Item
          /\ routes \in [Peers -> {0} \cup StreamId] /\ sends \in 0 .. MaxSends
      BY <2>1, <2>2 DEF Init
    <3>3. /\ fate \in [Peers -> [MsgId -> {"none", "pending", "sent", "lost", "astray", "dropped"}]]
          /\ fails \in [Peers -> [MsgId -> 0 .. MaxRetries + 2]]
      BY <2>1, <2>2 DEF Init
    <3>4. subs \in [Channels -> Seq(Urls)] /\ asked \in [Channels -> SUBSET Urls]
      BY <2>2 DEF Init
    <3> QED BY <3>1, <3>2, <3>3, <3>4 DEF TypeOK
  <2>3. ASSUME Init
        PROVE  LinkInv
    <3>1. \A p \in Peers : conns[p] = {}
      BY <2>3 DEF Init
    <3>2. ConnInv
      BY <2>1, <3>1, FS_EmptySet DEF ConnInv, Bounded
    <3>3. WaitsWithout
      BY <2>3 DEF Init, WaitsWithout, Idle
    <3> QED BY <3>1, <3>2, <3>3 DEF LinkInv, OneSinkPerStream
  <2> QED BY <2>2, <2>3 DEF LinkTyped
<1>2. LinkTyped /\ [Next]_vars => LinkTyped'
  BY NextKeepsLinks
<1> QED BY <1>1, <1>2, PTL DEF Spec

-----------------------------------------------------------------------------
(***************************************************************************)
(* The message queue                                                       *)
(***************************************************************************)

\* i is the message m for p, and one that waits with as many retries as it failed.
Is(i, p, m) == i.peer = p /\ i.id = m
Same(i, j) == i.peer = j.peer /\ i.id = j.id
Waits(i) == fate[i.peer][i.id] = "pending" /\ fails[i.peer][i.id] = i.retries

InTurn == cur.step # "idle"

\* No message is in two places.
Apart ==
    /\ \A j, k \in DOMAIN queue : Same(queue[j], queue[k]) => j = k
    /\ \A i, j \in timers : Same(i, j) => i = j
    /\ \A k \in DOMAIN queue : \A i \in timers : ~Same(queue[k], i)
    /\ InTurn => /\ \A k \in DOMAIN queue : ~Same(queue[k], cur.item)
                 /\ \A i \in timers : ~Same(i, cur.item)

Held ==
    /\ \A k \in DOMAIN queue : Waits(queue[k])
    /\ \A i \in timers : Waits(i)
    /\ InTurn => Waits(cur.item)

Found(p, m) ==
    \/ \E k \in DOMAIN queue : Is(queue[k], p, m)
    \/ \E i \in timers : Is(i, p, m)
    \/ InTurn /\ Is(cur.item, p, m)

\* And none is forgotten; one that is not waiting has failed as often as it may have.
Accounted ==
    \A p \in Peers : \A m \in MsgId :
        /\ fate[p][m] = "pending" => Found(p, m)
        /\ m > sends => fate[p][m] = "none"
        /\ fate[p][m] = "none" => fails[p][m] = 0
        /\ IF fate[p][m] = "dropped" THEN fails[p][m] = MaxRetries + 1
           ELSE fails[p][m] <= MaxRetries
        /\ fate[p][m] # "astray"

QueueInv == Apart /\ Held /\ Accounted

LEMMA SameQueue ==
    ASSUME QueueInv, UNCHANGED <<queue, cur, timers, sends, fate, fails>>
    PROVE  QueueInv'
BY DEF QueueInv, Apart, Held, Accounted, Found, InTurn, Waits

\* The queue without its first message.
LEMMA TailIs ==
    ASSUME NEW q \in Seq(Item), q # <<>>
    PROVE  /\ Tail(q) \in Seq(Item) /\ Head(q) = q[1] /\ 1 \in DOMAIN q /\ Head(q) \in Item
           /\ \A k \in DOMAIN Tail(q) : k + 1 \in DOMAIN q /\ k + 1 # 1 /\ Tail(q)[k] = q[k + 1]
           /\ \A k \in DOMAIN q : k # 1 => k - 1 \in DOMAIN Tail(q) /\ Tail(q)[k - 1] = q[k]
OBVIOUS

LEMMA AppendIs ==
    ASSUME NEW q \in Seq(Item), NEW i \in Item
    PROVE  /\ Append(q, i) \in Seq(Item)
           /\ \A k \in DOMAIN q : k \in DOMAIN Append(q, i) /\ Append(q, i)[k] = q[k]
           /\ \A k \in DOMAIN Append(q, i) : k \in DOMAIN q \/ k = Len(q) + 1
           /\ Len(q) + 1 \in DOMAIN Append(q, i) /\ Append(q, i)[Len(q) + 1] = i
           /\ Len(q) + 1 \notin DOMAIN q
OBVIOUS

\* A time-out of retrySendingMessage puts the message at the end.
LEMMA RetryDueKeepsQueue ==
    ASSUME TypeOK, QueueInv, NEW i \in timers, RetryDue(i)
    PROVE  QueueInv'
<1>1. i \in Item /\ queue \in Seq(Item)
  BY DEF TypeOK
<1>2. PICK n : n = Len(queue) + 1
  OBVIOUS
<1>3. /\ \A k \in DOMAIN queue : k \in DOMAIN queue' /\ queue'[k] = queue[k] /\ k # n
      /\ \A k \in DOMAIN queue' : k \in DOMAIN queue \/ k = n
      /\ n \in DOMAIN queue' /\ queue'[n] = i
  BY <1>1, <1>2, AppendIs DEF RetryDue
<1>4. timers' = timers \ {i} /\ UNCHANGED <<cur, sends, fate, fails>>
  BY DEF RetryDue
<1>5. \A j : Waits(j)' <=> Waits(j)
  BY <1>4 DEF Waits
<1>6. Held'
  BY <1>3, <1>4, <1>5 DEF QueueInv, Held, InTurn
<1>7. \A j, k : Same(j, k) => Same(k, j)
  BY DEF Same
<1>8. Apart'
  <2>1. ASSUME NEW j \in DOMAIN queue', NEW k \in DOMAIN queue', Same(queue'[j], queue'[k])
        PROVE  j = k
    BY <1>3, <1>7, <2>1 DEF QueueInv, Apart
  <2>2. ASSUME NEW k \in DOMAIN queue', NEW j \in timers'
        PROVE  ~Same(queue'[k], j)
    BY <1>3, <1>4, <1>7 DEF QueueInv, Apart
  <2>3. ASSUME InTurn, NEW k \in DOMAIN queue'
        PROVE  ~Same(queue'[k], cur.item)
    BY <1>3, <2>3 DEF QueueInv, Apart
  <2> QED BY <1>4, <2>1, <2>2, <2>3 DEF QueueInv, Apart, InTurn
<1>9. \A p, m : Found(p, m) => Found(p, m)'
  BY <1>3, <1>4 DEF Found, InTurn
<1>10. Accounted'
  BY <1>4, <1>9 DEF QueueInv, Accounted
<1> QED BY <1>6, <1>8, <1>10 DEF QueueInv

\* What becomes of the message i, and of no other.
LEMMA HandedIs ==
    ASSUME TypeOK, NEW i \in Item, Handed(i)
    PROVE  /\ fate'[i.peer][i.id] \in {"sent", "lost"} /\ fails'[i.peer][i.id] = 0
           /\ \A p \in Peers : \A m \in MsgId : ~Is(i, p, m) =>
                 fate'[p][m] = fate[p][m] /\ fails'[p][m] = fails[p][m]
<1>1. i.peer \in Peers /\ i.id \in MsgId
  BY ItemType
<1>2. PICK v \in {"sent", "lost"} : fate' = [fate EXCEPT ![i.peer][i.id] = v]
  BY DEF Handed
<1>3. /\ fate'[i.peer][i.id] = v
      /\ \A p \in Peers : \A m \in MsgId : ~Is(i, p, m) => fate'[p][m] = fate[p][m]
  BY <1>1, <1>2 DEF TypeOK, Is
<1>4. /\ fails'[i.peer][i.id] = 0
      /\ \A p \in Peers : \A m \in MsgId : ~Is(i, p, m) => fails'[p][m] = fails[p][m]
  BY <1>1 DEF Handed, TypeOK, Is
<1> QED BY <1>3, <1>4

LEMMA PutOffIs ==
    ASSUME TypeOK, NEW i \in Item, PutOff(i), Waits(i)
    PROVE  /\ fails'[i.peer][i.id] = i.retries + 1
           /\ \A p \in Peers : \A m \in MsgId : ~Is(i, p, m) =>
                 fate'[p][m] = fate[p][m] /\ fails'[p][m] = fails[p][m]
           /\ \/ /\ i.retries + 1 <= MaxRetries /\ timers' = timers \cup {Retried(i)}
                 /\ fate'[i.peer][i.id] = "pending"
              \/ /\ i.retries = MaxRetries /\ timers' = timers
                 /\ fate'[i.peer][i.id] = "dropped"
<1>1. i.peer \in Peers /\ i.id \in MsgId /\ i.retries \in 0 .. MaxRetries /\ MaxRetries \in Nat
  BY ItemType, ConstantsAssumption
<1>2. fails[i.peer][i.id] = i.retries /\ fate[i.peer][i.id] = "pending"
  BY DEF Waits
<1>3. fails' = [fails EXCEPT ![i.peer][i.id] = i.retries + 1]
  <2>1. PICK v : /\ v = IF fails[i.peer][i.id] < MaxRetries + 2 THEN fails[i.peer][i.id] + 1
                                                            ELSE fails[i.peer][i.id]
                 /\ fails' = [fails EXCEPT ![i.peer][i.id] = v]
    BY DEF PutOff
  <2>2. v = i.retries + 1
    BY <1>1, <1>2, <2>1
  <2> QED BY <2>1, <2>2
<1>4. /\ fails'[i.peer][i.id] = i.retries + 1
      /\ \A p \in Peers : \A m \in MsgId : ~Is(i, p, m) => fails'[p][m] = fails[p][m]
  BY <1>1, <1>3 DEF TypeOK, Is
<1>5. CASE MayRetry(i)
  BY <1>1, <1>2, <1>4, <1>5 DEF PutOff, MayRetry
<1>6. CASE ~MayRetry(i)
  <2>1. fate' = [fate EXCEPT ![i.peer][i.id] = "dropped"] /\ timers' = timers
    BY <1>6 DEF PutOff
  <2>2. /\ fate'[i.peer][i.id] = "dropped"
        /\ \A p \in Peers : \A m \in MsgId : ~Is(i, p, m) => fate'[p][m] = fate[p][m]
    BY <1>1, <2>1 DEF TypeOK, Is
  <2>3. i.retries = MaxRetries
    BY <1>1, <1>6 DEF MayRetry
  <2> QED BY <1>4, <2>1, <2>2, <2>3
<1> QED BY <1>5, <1>6

LEMMA Membership ==
    ASSUME TypeOK
    PROVE  /\ \A k \in DOMAIN queue : queue[k] \in Item
           /\ \A i \in timers : i \in Item
           /\ InTurn => cur.item \in Item
BY CurType DEF TypeOK, InTurn

\* The loop takes the first message of the queue.
LEMMA TakeKeepsQueue ==
    ASSUME TypeOK, QueueInv, cur = Idle, queue # <<>>, queue' = Tail(queue),
           UNCHANGED <<timers, sends>>,
           \/ Handed(Head(queue))
           \/ /\ cur' = [step |-> "dial", item |-> Head(queue)]
              /\ UNCHANGED <<fate, fails>>
    PROVE  QueueInv'
<1>1. PICK i \in Item : /\ i = Head(queue) /\ i = queue[1] /\ 1 \in DOMAIN queue
                        /\ \A k \in DOMAIN queue' : /\ k + 1 \in DOMAIN queue /\ k + 1 # 1
                                                     /\ queue'[k] = queue[k + 1]
                        /\ \A k \in DOMAIN queue : k # 1 =>
                              k - 1 \in DOMAIN queue' /\ queue'[k - 1] = queue[k]
  BY TailIs DEF TypeOK
<1>2. ~InTurn
  BY DEF InTurn, Idle
<1>3. /\ \A k \in DOMAIN queue' : /\ queue'[k] \in Item /\ Waits(queue'[k]) /\ ~Same(queue'[k], i)
      /\ \A j \in timers : j \in Item /\ Waits(j) /\ ~Same(j, i)
  <2>1. ASSUME NEW k \in DOMAIN queue'
        PROVE  queue'[k] \in Item /\ Waits(queue'[k]) /\ ~Same(queue'[k], i)
    BY <1>1, Membership DEF QueueInv, Apart, Held
  <2>2. ASSUME NEW j \in timers
        PROVE  j \in Item /\ Waits(j) /\ ~Same(j, i)
    BY <1>1, Membership DEF QueueInv, Apart, Held, Same
  <2> QED BY <2>1, <2>2
<1>4. /\ \A j, k \in DOMAIN queue' : Same(queue'[j], queue'[k]) => j = k
      /\ \A j, k \in timers' : Same(j, k) => j = k
      /\ \A k \in DOMAIN queue' : \A j \in timers' : ~Same(queue'[k], j)
  <2>1. ASSUME NEW j \in DOMAIN queue', NEW k \in DOMAIN queue', Same(queue'[j], queue'[k])
        PROVE  j = k
    <3>1. j + 1 = k + 1
      BY <1>1, <2>1 DEF QueueInv, Apart
    <3>2. queue' \in Seq(Item)
      BY TailIs DEF TypeOK
    <3> QED BY <3>1, <3>2
  <2> QED BY <1>1, <2>1 DEF QueueInv, Apart
<1>5. \A p \in Peers : \A m \in MsgId : Found(p, m) => Is(i, p, m) \/
         \/ \E k \in DOMAIN queue' : Is(queue'[k], p, m)
         \/ \E j \in timers' : Is(j, p, m)
  <2>1. ASSUME NEW p, NEW m, NEW k \in DOMAIN queue, Is(queue[k], p, m), ~Is(i, p, m)
        PROVE  \E j \in DOMAIN queue' : Is(queue'[j], p, m)
    <3>1. k # 1
      BY <1>1, <2>1
    <3>2. k - 1 \in DOMAIN queue' /\ queue'[k - 1] = queue[k]
      BY <1>1, <3>1
    <3> QED BY <2>1, <3>2
  <2> QED BY <1>2, <2>1 DEF Found
<1>6. CASE Handed(Head(queue))
  <2>1. /\ fate'[i.peer][i.id] \in {"sent", "lost"} /\ fails'[i.peer][i.id] = 0
        /\ \A p \in Peers : \A m \in MsgId : ~Is(i, p, m) =>
              fate'[p][m] = fate[p][m] /\ fails'[p][m] = fails[p][m]
        /\ cur' = Idle
    BY <1>1, <1>6, HandedIs DEF Handed
  <2>2. ~InTurn'
    BY <2>1 DEF InTurn, Idle
  <2>3. \A j \in Item : Waits(j) /\ ~Same(j, i) => Waits(j)'
    BY <2>1, ItemType DEF Waits, Same, Is
  <2>4. Held' /\ Apart'
    BY <1>3, <1>4, <2>2, <2>3 DEF Held, Apart
  <2>5. Accounted'
    <3>1. ASSUME NEW p \in Peers, NEW m \in MsgId, Is(i, p, m)
          PROVE  /\ fate'[p][m] \in {"sent", "lost"} /\ fails'[p][m] = 0 /\ fate[p][m] = "pending"
      BY <1>1, <2>1, <3>1 DEF Is, QueueInv, Held, Waits
    <3>2. MaxRetries \in Nat
      BY ConstantsAssumption
    <3>3. ASSUME NEW p \in Peers, NEW m \in MsgId, ~Is(i, p, m)
          PROVE  /\ fate'[p][m] = fate[p][m] /\ fails'[p][m] = fails[p][m]
                 /\ Found(p, m) => Found(p, m)'
      BY <1>5, <2>1, <3>3 DEF Found
    <3> QED BY <3>1, <3>2, <3>3 DEF QueueInv, Accounted
  <2> QED BY <2>4, <2>5 DEF QueueInv
<1>7. CASE /\ cur' = [step |-> "dial", item |-> Head(queue)]
           /\ UNCHANGED <<fate, fails>>
  <2>1. InTurn' /\ cur'.item = i
    BY <1>1, <1>7 DEF InTurn
  <2>2. \A j : Waits(j) <=> Waits(j)'
    BY <1>7 DEF Waits
  <2>3. Waits(i)
    BY <1>1 DEF QueueInv, Held
  <2>4. Held' /\ Apart'
    BY <1>3, <1>4, <2>1, <2>2, <2>3 DEF Held, Apart
  <2>5. \A p \in Peers : \A m \in MsgId : Found(p, m) => Found(p, m)'
    BY <1>5, <2>1 DEF Found
  <2> QED BY <1>7, <2>4, <2>5 DEF QueueInv, Accounted
<1> QED BY <1>6, <1>7

\* dial was answered, and newStream is waited for.
LEMMA WaitKeepsQueue ==
    ASSUME QueueInv, cur.step = "dial", cur'.step = "stream", cur'.item = cur.item,
           UNCHANGED <<queue, timers, sends, fate, fails>>
    PROVE  QueueInv'
<1>1. InTurn /\ InTurn'
  BY DEF InTurn
<1> QED BY <1>1 DEF QueueInv, Apart, Held, Accounted, Found, Waits

\* The message of the turn is handed to a stream, put off or given up.
LEMMA TurnKeepsQueue ==
    ASSUME TypeOK, QueueInv, cur.step \in {"dial", "stream"}, UNCHANGED <<queue, sends>>,
           \/ Handed(cur.item) /\ UNCHANGED timers
           \/ PutOff(cur.item)
    PROVE  QueueInv'
<1>1. InTurn /\ ~InTurn'
  BY DEF InTurn, Handed, PutOff, Idle
<1>2. PICK i \in Item : i = cur.item
  BY CurType
<1>3. /\ Waits(i) /\ \A k \in DOMAIN queue : ~Same(queue[k], i) /\ queue[k] \in Item
      /\ \A j \in timers : ~Same(j, i) /\ j \in Item
  BY <1>1, <1>2, Membership DEF QueueInv, Apart, Held
<1>4. MaxRetries \in Nat /\ i.peer \in Peers /\ i.id \in MsgId /\ i.retries \in 0 .. MaxRetries
  BY ItemType, ConstantsAssumption
<1>5. \A p \in Peers : \A m \in MsgId : ~Is(i, p, m) =>
         fate'[p][m] = fate[p][m] /\ fails'[p][m] = fails[p][m]
  BY <1>2, <1>3, HandedIs, PutOffIs
<1>6. \A j \in Item : Waits(j) /\ ~Same(j, i) => Waits(j)'
  BY <1>5, ItemType DEF Waits, Same, Is
<1>7. \A p \in Peers : \A m \in MsgId : Found(p, m) => Is(i, p, m) \/
         \/ \E k \in DOMAIN queue : Is(queue[k], p, m)
         \/ \E j \in timers : Is(j, p, m)
  BY <1>2 DEF Found
<1>8. timers \subseteq timers'
  BY DEF PutOff
<1>9. ASSUME NEW p \in Peers, NEW m \in MsgId, ~Is(i, p, m)
      PROVE  /\ fate'[p][m] = fate[p][m] /\ fails'[p][m] = fails[p][m]
             /\ Found(p, m) => Found(p, m)'
  BY <1>5, <1>7, <1>8, <1>9 DEF Found
<1>10. ASSUME NEW p \in Peers, NEW m \in MsgId, Is(i, p, m)
       PROVE  p = i.peer /\ m = i.id /\ fate[p][m] = "pending"
  BY <1>3, <1>10 DEF Is, Waits
<1>11. CASE /\ timers' = timers
            /\ \/ fate'[i.peer][i.id] \in {"sent", "lost"} /\ fails'[i.peer][i.id] = 0
               \/ fate'[i.peer][i.id] = "dropped" /\ fails'[i.peer][i.id] = MaxRetries + 1
  <2>4. timers' = timers /\ queue' = queue
    BY <1>11
  <2>1. Held'
    BY <1>1, <1>3, <1>6, <2>4 DEF QueueInv, Held
  <2>3. Apart'
    BY <1>1, <2>4 DEF QueueInv, Apart
  <2>2. Accounted'
    BY <1>4, <1>9, <1>10, <1>11 DEF QueueInv, Accounted
  <2> QED BY <2>1, <2>2, <2>3 DEF QueueInv
<1>12. CASE /\ i.retries + 1 <= MaxRetries /\ timers' = timers \cup {Retried(i)}
            /\ fate'[i.peer][i.id] = "pending" /\ fails'[i.peer][i.id] = i.retries + 1
  <2>0. /\ Retried(i).peer = i.peer /\ Retried(i).id = i.id
        /\ Retried(i).retries = i.retries + 1
    <3>1. i \in Item
      BY <1>2
    <3> QED BY <3>1 DEF Retried, Item
  <2>1. PICK r : r = Retried(i) /\ r.peer = i.peer /\ r.id = i.id /\ r.retries = i.retries + 1
    BY <2>0
  <2>2. /\ Waits(r)' /\ \A j : Same(j, r) <=> Same(j, i)
        /\ \A j : Same(r, j) <=> Same(i, j)
    BY <1>12, <2>1 DEF Waits, Same
  <2>3. \A j, k : Same(j, k) => Same(k, j)
    BY DEF Same
  <2>4. Held'
    BY <1>1, <1>3, <1>6, <1>12, <2>1, <2>2 DEF QueueInv, Held
  <2>5. Apart'
    BY <1>1, <1>3, <1>12, <2>1, <2>2, <2>3 DEF QueueInv, Apart
  <2>6. Accounted'
    <3>1. Found(i.peer, i.id)'
      BY <1>12, <2>1 DEF Found, Is
    <3>2. sends \in Int /\ ~(i.id > sends)
      BY <1>3, <1>4 DEF QueueInv, Accounted, Waits, TypeOK
    <3> QED BY <1>4, <1>9, <1>10, <1>12, <3>1, <3>2 DEF QueueInv, Accounted
  <2> QED BY <2>4, <2>5, <2>6 DEF QueueInv
<1>13. CASE Handed(i) /\ timers' = timers
  BY <1>11, <1>13, HandedIs
<1>14. CASE PutOff(i)
  BY <1>3, <1>4, <1>11, <1>12, <1>14, PutOffIs
<1> QED BY <1>2, <1>13, <1>14

\* New messages are of an id that no other has.
LEMMA PushKeepsQueue ==
    ASSUME TypeOK, QueueInv, NEW s, NEW n, Listed(s, n), PushAll(s)
    PROVE  QueueInv'
<1>1. PICK new \in Seq(Item) : /\ new = New(s, n) /\ Len(new) = n /\ queue' = queue \o new
                               /\ queue \in Seq(Item) /\ queue' \in Seq(Item)
  BY PushAllIs DEF TypeOK
<1>2. /\ n \in Nat /\ DOMAIN new = 1 .. n
      /\ \A k \in 1 .. n : new[k].peer = s[k] /\ new[k].id = sends + 1 /\ new[k].retries = 0
  BY <1>1 DEF New, Listed
<1>3. PICK l \in Nat : l = Len(queue) /\ DOMAIN queue = 1 .. l
  BY <1>1
<1>4. /\ \A k \in DOMAIN queue : k \in DOMAIN queue' /\ queue'[k] = queue[k]
      /\ \A k \in 1 .. n : k + l \in DOMAIN queue' /\ queue'[k + l] = new[k]
      /\ \A k \in DOMAIN queue' : k \in DOMAIN queue \/ (k - l \in 1 .. n /\ queue'[k] = new[k - l])
  BY <1>1, <1>2, <1>3
<1>5. UNCHANGED <<cur, timers, fails>> /\ sends' = sends + 1 /\ sends \in Nat /\ sends + 1 \in MsgId
  <2>1. sends \in Nat
    BY ConstantsAssumption DEF TypeOK
  <2>2. sends' = sends + 1 /\ sends + 1 \in MsgId
    BY PushAllIs
  <2> QED BY <2>1, <2>2 DEF PushAll
<1>6. \A p \in Peers : \A m \in MsgId :
         fate'[p][m] = IF m = sends + 1 /\ \E i \in 1 .. n : s[i] = p THEN "pending"
                       ELSE fate[p][m]
  BY PushAllIs
<1>7. \A p \in Peers : fate[p][sends + 1] = "none" /\ fails[p][sends + 1] = 0
  BY <1>5 DEF QueueInv, Accounted
<1>8. \A i \in Item : Waits(i) => i.id # sends + 1 /\ Waits(i)'
  <2>1. ASSUME NEW i \in Item, Waits(i)
        PROVE  i.id # sends + 1 /\ Waits(i)'
    <3>1. i.id # sends + 1
      BY <1>7, <2>1, ItemType DEF Waits
    <3> QED BY <1>5, <1>6, <2>1, <3>1, ItemType DEF Waits
  <2> QED BY <2>1
<1>9. \A k \in 1 .. n : new[k] \in Item /\ Waits(new[k])'
  <2>1. ASSUME NEW k \in 1 .. n
        PROVE  new[k] \in Item /\ Waits(new[k])'
    <3>1. new[k] \in Item /\ s[k] \in Peers
      <4>1. new[k] \in Item
        BY <1>1, <1>2
      <4>2. s[k] \in Peers
        BY DEF Listed
      <4> QED BY <4>1, <4>2
    <3>2. fate'[s[k]][sends + 1] = "pending" /\ fails'[s[k]][sends + 1] = 0
      BY <1>5, <1>6, <1>7, <3>1
    <3> QED BY <1>2, <3>1, <3>2 DEF Waits
  <2> QED BY <2>1
<1>10. /\ \A k \in DOMAIN queue : Waits(queue[k]) /\ queue[k] \in Item
       /\ \A i \in timers : Waits(i) /\ i \in Item
       /\ InTurn => Waits(cur.item) /\ cur.item \in Item
  BY Membership DEF QueueInv, Held
<1>11. Held'
  <2>1. \A k \in DOMAIN queue' : Waits(queue[k])'
    BY <1>4, <1>8, <1>9, <1>10
  <2> QED BY <1>5, <1>8, <1>10, <2>1 DEF Held, InTurn
<1>12. \A i \in Item : Waits(i) => \A k \in 1 .. n : ~Same(i, new[k]) /\ ~Same(new[k], i)
  BY <1>2, <1>8 DEF Same
<1>13. Apart'
  <2>1. ASSUME NEW j \in DOMAIN queue', NEW k \in DOMAIN queue', Same(queue'[j], queue'[k])
        PROVE  j = k
    <3>1. CASE j \in DOMAIN queue /\ k \in DOMAIN queue
      BY <1>4, <2>1, <3>1 DEF QueueInv, Apart
    <3>2. CASE ~(j \in DOMAIN queue) /\ ~(k \in DOMAIN queue)
      <4>1. /\ j - l \in 1 .. n /\ k - l \in 1 .. n
            /\ s[j - l] = s[k - l]
        BY <1>2, <1>4, <2>1, <3>2 DEF Same
      <4>2. j - l = k - l
        BY <4>1 DEF Listed
      <4>3. j \in Int /\ k \in Int
        BY <1>1
      <4> QED BY <1>3, <4>2, <4>3
    <3>3. CASE j \in DOMAIN queue /\ ~(k \in DOMAIN queue)
      BY <1>4, <1>10, <1>12, <2>1, <3>3
    <3>4. CASE ~(j \in DOMAIN queue) /\ k \in DOMAIN queue
      BY <1>4, <1>10, <1>12, <2>1, <3>4
    <3> QED BY <3>1, <3>2, <3>3, <3>4
  <2>2. ASSUME NEW k \in DOMAIN queue', NEW i \in timers
        PROVE  ~Same(queue'[k], i)
    BY <1>4, <1>10, <1>12 DEF QueueInv, Apart
  <2>3. ASSUME InTurn, NEW k \in DOMAIN queue'
        PROVE  ~Same(queue'[k], cur.item)
    BY <1>4, <1>10, <1>12, <2>3 DEF QueueInv, Apart
  <2> QED BY <1>5, <2>1, <2>2, <2>3 DEF QueueInv, Apart, InTurn
<1>14. \A p, m : Found(p, m) => Found(p, m)'
  BY <1>4, <1>5 DEF Found, InTurn
<1>15. Accounted'
  <2>1. ASSUME NEW p \in Peers, NEW m \in MsgId, fate'[p][m] = "pending"
        PROVE  Found(p, m)'
    <3>1. CASE m = sends + 1 /\ \E k \in 1 .. n : s[k] = p
      BY <1>2, <1>4, <3>1 DEF Found, Is
    <3>2. CASE fate[p][m] = "pending"
      BY <1>14, <3>2 DEF QueueInv, Accounted
    <3> QED BY <1>6, <2>1, <3>1, <3>2
  <2>2. ASSUME NEW p \in Peers, NEW m \in MsgId
        PROVE  /\ m > sends' => fate'[p][m] = "none"
               /\ fate'[p][m] = "none" => fails'[p][m] = 0
               /\ IF fate'[p][m] = "dropped" THEN fails'[p][m] = MaxRetries + 1
                  ELSE fails'[p][m] <= MaxRetries
               /\ fate'[p][m] # "astray"
    <3>1. CASE m = sends + 1
      BY <1>5, <1>6, <1>7, <3>1, ConstantsAssumption
    <3>2. CASE m # sends + 1
      <4>1. m \in Int /\ (m > sends' => m > sends)
        BY <1>5, ConstantsAssumption DEF MsgId
      <4> QED BY <1>5, <1>6, <3>2, <4>1 DEF QueueInv, Accounted
    <3> QED BY <3>1, <3>2
  <2> QED BY <2>1, <2>2 DEF Accounted
<1> QED BY <1>11, <1>13, <1>15 DEF QueueInv

LEMMA NextKeepsQueue ==
    ASSUME LinkTyped, QueueInv, [Next]_vars
    PROVE  QueueInv'
<1>1. TypeOK /\ LinkInv /\ ConnInv
  BY DEF LinkTyped, LinkInv
<1>2. CASE NetworkStep \/ SubscribeRoute \/ UNCHANGED vars
  <2>1. UNCHANGED msgVars
    BY <1>1, <1>2, NetworkTame, SubscribeTyped DEF vars
  <2> QED BY <2>1, SameQueue DEF msgVars
<1>3. CASE SendRoute
  BY <1>1, <1>3, SendRouteLists, PushKeepsQueue
<1>4. CASE \E i \in timers : RetryDue(i)
  BY <1>1, <1>4, RetryDueKeepsQueue
<1>5. CASE TakeMessage \/ DialAnswers \/ DialFails \/ StreamAnswers \/ StreamFails
  <2>1. LoopStep
    <3>1. CASE StreamAnswers
      BY <1>1, <3>1, StreamAnswersLinks DEF StreamAnswers, LoopStep
    <3> QED BY <1>1, <1>5, <3>1, TakeMessageStep, DialAnswersStep, RetryStep
  <2>2. UNCHANGED sends
    BY <1>5 DEF TakeMessage, DialAnswers, DialFails, StreamAnswers, StreamFails
  <2> QED BY <1>1, <2>1, <2>2, TakeKeepsQueue, WaitKeepsQueue, TurnKeepsQueue DEF LoopStep
<1> QED BY <1>2, <1>3, <1>4, <1>5 DEF Next, MessageStep

LEMMA QueueInvHolds == Spec => []QueueInv
<1>1. Init => QueueInv
  <2>1. MaxRetries \in Nat
    BY ConstantsAssumption
  <2>2. ASSUME Init
        PROVE  DOMAIN queue = {} /\ ~InTurn /\ timers = {}
    BY <2>2 DEF Init, InTurn, Idle
  <2>3. ASSUME Init
        PROVE  \A p \in Peers : \A m \in MsgId : fate[p][m] = "none" /\ fails[p][m] = 0
    BY <2>3 DEF Init
  <2> QED BY <2>1, <2>2, <2>3 DEF QueueInv, Apart, Held, Accounted
<1>2. LinkTyped /\ QueueInv /\ [Next]_vars => QueueInv'
  BY NextKeepsQueue
<1> QED BY <1>1, <1>2, LinksHold, PTL DEF Spec

LEMMA AtMostOne ==
    ASSUME NEW S, \A j, k \in S : j = k
    PROVE  Cardinality(S) = IF S = {} THEN 0 ELSE 1
<1>1. CASE S = {}
  BY <1>1, FS_EmptySet
<1>2. CASE S # {}
  <2>1. PICK x : S = {x}
    BY <1>2
  <2> QED BY <1>2, <2>1, FS_Singleton
<1> QED BY <1>1, <1>2

LEMMA QueueHasOneCopy ==
    ASSUME QueueInv, NEW p \in Peers, NEW m \in MsgId
    PROVE  Cardinality(Queued(p, m)) + Cardinality(Delayed(p, m)) + (IF InLoop(p, m) THEN 1 ELSE 0)
             = IF fate[p][m] = "pending" THEN 1 ELSE 0
<1>1. \A i, j : (i.peer = p /\ i.id = m /\ j.peer = p /\ j.id = m) => Same(i, j)
  BY DEF Same
<1>2. Cardinality(Queued(p, m)) = IF Queued(p, m) = {} THEN 0 ELSE 1
  <2>1. \A j, k \in Queued(p, m) : j = k
    BY <1>1 DEF Queued, QueueInv, Apart
  <2> QED BY <2>1, AtMostOne
<1>3. Cardinality(Delayed(p, m)) = IF Delayed(p, m) = {} THEN 0 ELSE 1
  <2>1. \A i, j \in Delayed(p, m) : i = j
    BY <1>1 DEF Delayed, QueueInv, Apart
  <2> QED BY <2>1, AtMostOne
<1>4. /\ ~(Queued(p, m) # {} /\ Delayed(p, m) # {})
      /\ ~(Queued(p, m) # {} /\ InLoop(p, m))
      /\ ~(Delayed(p, m) # {} /\ InLoop(p, m))
  BY <1>1 DEF Queued, Delayed, InLoop, InTurn, QueueInv, Apart
<1>5. Queued(p, m) # {} \/ Delayed(p, m) # {} \/ InLoop(p, m) => fate[p][m] = "pending"
  BY DEF Queued, Delayed, InLoop, InTurn, QueueInv, Held, Waits
<1>6. fate[p][m] = "pending" => Queued(p, m) # {} \/ Delayed(p, m) # {} \/ InLoop(p, m)
  BY DEF Queued, Delayed, InLoop, InTurn, QueueInv, Accounted, Found, Is
<1> QED BY <1>2, <1>3, <1>4, <1>5, <1>6

-----------------------------------------------------------------------------
(***************************************************************************)
(* Subscriptions                                                           *)
(***************************************************************************)
ListedOnce ==
    \A ch \in Channels :
        /\ \A url \in asked[ch] : url # NoUrl => \E k \in DOMAIN subs[ch] : subs[ch][k] = url
        /\ \A j, k \in DOMAIN subs[ch] : subs[ch][j] = subs[ch][k] /\ subs[ch][j] # NoUrl => j = k

LEMMA SubscribeKeepsList ==
    ASSUME TypeOK, ListedOnce, NEW c \in Channels, NEW url \in Urls, SubscribeChannel(c, url)
    PROVE  ListedOnce'
<1>1. PICK q \in Seq(Urls) : q = subs[c]
  BY DEF TypeOK
<1>2. /\ asked'[c] = asked[c] \cup {url}
      /\ \A ch \in Channels : ch # c => asked'[ch] = asked[ch] /\ subs'[ch] = subs[ch]
      /\ subs'[c] = IF Redundant(c, url) THEN q ELSE Append(q, url)
  BY <1>1 DEF SubscribeChannel, TypeOK
<1>3. /\ \A u \in asked[c] : u # NoUrl => \E k \in DOMAIN q : q[k] = u
      /\ \A j, k \in DOMAIN q : q[j] = q[k] /\ q[j] # NoUrl => j = k
  BY <1>1 DEF ListedOnce
<1>4. CASE Redundant(c, url)
  <2>1. url # NoUrl => \E k \in DOMAIN q : q[k] = url
    BY <1>1, <1>4 DEF Redundant
  <2> QED BY <1>2, <1>3, <1>4, <2>1 DEF ListedOnce
<1>5. CASE ~Redundant(c, url)
  <2>1. PICK n : n = Len(q) + 1
    OBVIOUS
  <2>2. PICK r : r = Append(q, url)
    OBVIOUS
  <2>3. /\ \A k \in DOMAIN q : k \in DOMAIN r /\ r[k] = q[k] /\ k # n
        /\ \A k \in DOMAIN r : k \in DOMAIN q \/ k = n
        /\ n \in DOMAIN r /\ r[n] = url
    BY <1>1, <2>1, <2>2
  <2>4. url # NoUrl => \A k \in DOMAIN q : q[k] # url
    BY <1>1, <1>5 DEF Redundant
  <2>5. \A u \in asked'[c] : u # NoUrl => \E k \in DOMAIN r : r[k] = u
    BY <1>2, <1>3, <2>3
  <2>6. \A j, k \in DOMAIN r : r[j] = r[k] /\ r[j] # NoUrl => j = k
    BY <1>3, <2>3, <2>4
  <2>7. subs'[c] = r
    BY <1>2, <1>5, <2>2
  <2> QED BY <1>2, <2>5, <2>6, <2>7 DEF ListedOnce
<1> QED BY <1>4, <1>5

LEMMA ListedOnceHolds == Spec => []ListedOnce
<1>1. Init => ListedOnce
  BY DEF Init, ListedOnce
<1>2. LinkTyped /\ ListedOnce /\ [Next]_vars => ListedOnce'
  <2>1. SUFFICES ASSUME LinkTyped, ListedOnce, [Next]_vars
                 PROVE  ListedOnce'
    OBVIOUS
  <2>2. TypeOK /\ ConnInv
    BY <2>1 DEF LinkTyped, LinkInv
  <2>3. CASE SubscribeRoute
    BY <2>1, <2>2, <2>3, SubscribeKeepsList DEF SubscribeRoute
  <2>4. CASE UNCHANGED subVars
    BY <2>1, <2>4 DEF subVars, ListedOnce
  <2>5. MessageStep => UNCHANGED subVars
    BY DEF MessageStep, SendRoute, SendTo, Broadcast, PushAll, TakeMessage, DialAnswers,
           DialFails, StreamAnswers, StreamFails, RetryDue, subVars
  <2>6. NetworkStep => UNCHANGED subVars
    BY <2>2, NetworkTame
  <2> QED BY <2>1, <2>3, <2>4, <2>5, <2>6 DEF Next, vars
<1> QED BY <1>1, <1>2, LinksHold, PTL DEF Spec

-----------------------------------------------------------------------------
(***************************************************************************)
(* The theorems                                                            *)
(***************************************************************************)

\* Connections, streams, the queue and the subscriptions keep their types.
THEOREM TypeCorrect == Spec => []TypeOK
<1>1. LinkTyped => TypeOK
  BY DEF LinkTyped
<1> QED BY <1>1, LinksHold, PTL

\* A stream has one source, called once, and it is the one in routesInfo of the only open
\* connection of its peer that has a stream.
THEOREM OneSinkCorrect == Spec => []OneSinkPerStream
<1>1. LinkTyped => OneSinkPerStream
  BY DEF LinkTyped, LinkInv
<1> QED BY <1>1, LinksHold, PTL

\* processMessageQueue and retrySendingMessage hold a message that is neither sent nor given
\* up in exactly one place, and any other in none.
THEOREM OneCopyCorrect == Spec => []OneCopy
<1>1. QueueInv => OneCopy
  BY QueueHasOneCopy DEF OneCopy
<1> QED BY <1>1, QueueInvHolds, PTL

\* retrySendingMessage gives up after the first attempt and all retries, and not before.
THEOREM DroppedCorrect == Spec => []DroppedAfterAllRetries
<1>1. LinkTyped /\ QueueInv => DroppedAfterAllRetries
  <2>1. SUFFICES ASSUME LinkTyped, QueueInv, NEW p \in Peers, NEW m \in MsgId
                 PROVE  /\ fails[p][m] <= MaxRetries + 1
                        /\ fate[p][m] = "dropped" => fails[p][m] = MaxRetries + 1
    BY DEF DroppedAfterAllRetries
  <2>2. fails[p][m] \in Int /\ MaxRetries \in Nat
    BY <2>1, ConstantsAssumption DEF LinkTyped, TypeOK
  <2> QED BY <2>1, <2>2 DEF QueueInv, Accounted
<1> QED BY <1>1, LinksHold, QueueInvHolds, PTL

\* getStreamSource never returns the source of a former stream, whatever becomes of the
\* connections while dial and newStream are awaited.
THEOREM NeverAstrayCorrect == Spec => []NeverAstray
<1>1. QueueInv => NeverAstray
  BY DEF QueueInv, Accounted, NeverAstray
<1> QED BY <1>1, QueueInvHolds, PTL

\* subscribeChannel lists each url of a channel once, whatever the order of the calls.
THEOREM CalledBackCorrect == Spec => []CalledBackOnce
<1>1. ListedOnce => CalledBackOnce
  <2>1. SUFFICES ASSUME ListedOnce, NEW ch \in Channels, NEW url \in asked[ch] \ {NoUrl}
                 PROVE  Callbacks(ch, url) = 1
    BY DEF CalledBackOnce
  <2>2. PICK S : S = {k \in DOMAIN subs[ch] : subs[ch][k] = url}
    OBVIOUS
  <2>3. S # {} /\ \A j, k \in S : j = k
    BY <2>1, <2>2 DEF ListedOnce
  <2> QED BY <2>2, <2>3, AtMostOne DEF Callbacks
<1> QED BY <1>1, ListedOnceHolds, PTL
=============================================================================
