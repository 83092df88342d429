------------------------ MODULE GuardDetection_proofs ------------------------
(***************************************************************************)
(* Proofs about GuardDetection, for any number of guards, nonces, messages *)
(* and starts: types, and that the peer id a guard believes in never goes  *)
(* back to an earlier process.                                             *)
(***************************************************************************)
EXTENDS GuardDetection, TLAPS

(***************************************************************************)
(* The inductive invariant: nobody claims a process that was not started   *)
(* yet, and what would be accepted is not older than what is known.        *)
(***************************************************************************)
StartedOnly ==
    /\ \A g \in Guard : \A h \in Guard : peerId[g][h] <= start[h]
    /\ \A m \in net : m.peer <= start[m.from]

LatestInv == TypeOK /\ StartedOnly /\ AcceptableIsLatest

(***************************************************************************)
(* What a step may do.  A new message is of the present process of its     *)
(* sender; a new nonce answers no message under way; a peer id stays, is   *)
(* forgotten, or comes with an approval that uses up all nonces.           *)
(***************************************************************************)
Copy(m, x) ==
    /\ m.type = x.type /\ m.from = x.from /\ m.to = x.to
    /\ m.peer = x.peer /\ m.received = x.received

OfNow(m) == m.peer = start[m.from]

NetGrows ==
    /\ net' \subseteq Message
    /\ \A m \in net' : OfNow(m) \/ \E x \in net : Copy(m, x)

Fresh(g, id) == \A m \in net : m.to = g => m.received # id

NoncesGrow ==
    /\ nonces' \in [Guard -> [Guard -> SUBSET Nonce]]
    /\ \A g \in Guard : \A h \in Guard : \A n \in Clear(nonces'[g][h]) :
          n.id \in Ids(Clear(nonces[g][h])) \/ Fresh(g, n.id)

Acceptable(m) == m.type = "approval" /\ m.received \in Ids(Clear(nonces[m.to][m.from]))

PeersFollow ==
    /\ peerId' \in [Guard -> [Guard -> PeerId]]
    /\ \A g \in Guard : \A h \in Guard :
          \/ peerId'[g][h] = peerId[g][h] \/ peerId'[g][h] = 0
          \/ /\ nonces'[g][h] = {}
             /\ \E m \in net : /\ Acceptable(m) /\ m.to = g /\ m.from = h
                               /\ peerId'[g][h] = m.peer

StartsGrow ==
    /\ start' \in [Guard -> 1 .. MaxStarts]
    /\ \A h \in Guard : start'[h] >= start[h]

OthersTyped ==
    /\ age' \in [Guard -> [Guard -> 0 .. ActiveTimeout + 1]]
    /\ callbacks' \in [Guard -> SUBSET Guard]
    /\ updated' \in [Guard -> BOOLEAN]
    /\ stable' \in BOOLEAN

Step == NetGrows /\ NoncesGrow /\ PeersFollow /\ StartsGrow /\ OthersTyped

LEMMA StepKeepsLatestInv ==
    ASSUME LatestInv, Step
    PROVE  LatestInv'
<1>1. TypeOK'
  BY DEF LatestInv, TypeOK, Step, NetGrows, NoncesGrow, PeersFollow, StartsGrow, OthersTyped
<1>2. MaxStarts \in Nat
  BY ConstantsAssumption
<1>3. /\ \A h \in Guard : start[h] \in Nat /\ start'[h] \in Nat /\ start'[h] >= start[h]
      /\ \A g \in Guard : \A h \in Guard : peerId[g][h] \in Nat /\ peerId'[g][h] \in Nat
  BY <1>1, <1>2 DEF LatestInv, TypeOK, Step, StartsGrow, PeerId
<1>4. /\ \A m \in net : m.from \in Guard /\ m.to \in Guard /\ m.peer \in Nat
      /\ \A m \in net' : m.from \in Guard /\ m.to \in Guard /\ m.peer \in Nat
  BY <1>1, <1>2 DEF LatestInv, TypeOK, Message
<1>5. ASSUME NEW g \in Guard, NEW h \in Guard
      PROVE  peerId'[g][h] <= start[h]
  <2>1. CASE \E m \in net : m.from = h /\ peerId'[g][h] = m.peer
    BY <1>3, <1>4, <2>1 DEF LatestInv, StartedOnly
  <2>2. CASE peerId'[g][h] = peerId[g][h] \/ peerId'[g][h] = 0
    BY <1>3, <2>2 DEF LatestInv, StartedOnly
  <2> QED BY <2>1, <2>2 DEF Step, PeersFollow
<1>6. ASSUME NEW m \in net'
      PROVE  m.peer <= start[m.from]
  <2>1. CASE OfNow(m)
    BY <1>3, <1>4, <2>1 DEF OfNow
  <2>2. CASE \E x \in net : Copy(m, x)
    BY <2>2 DEF LatestInv, StartedOnly, Copy
  <2> QED BY <2>1, <2>2 DEF Step, NetGrows
<1>7. StartedOnly'
  <2>1. \A g \in Guard : \A h \in Guard : peerId'[g][h] <= start'[h]
    BY <1>3, <1>5
  <2>2. \A m \in net' : m.peer <= start'[m.from]
    BY <1>3, <1>4, <1>6
  <2> QED BY <2>1, <2>2 DEF StartedOnly
<1>8. ASSUME NEW m \in net', m.type = "approval",
             m.received \in Ids(Clear(nonces'[m.to][m.from]))
      PROVE  m.peer >= peerId'[m.to][m.from]
  <2>1. PICK g \in Guard, h \in Guard : g = m.to /\ h = m.from
    BY <1>4
  <2>2. CASE OfNow(m)
    BY <1>3, <1>4, <1>5, <2>1, <2>2 DEF OfNow
  <2>3. ASSUME NEW x \in net, Copy(m, x)
        PROVE  m.peer >= peerId'[m.to][m.from]
    <3>1. PICK n \in Clear(nonces'[g][h]) : n.id = m.received
      BY <1>8, <2>1 DEF Ids
    <3>2. ~Fresh(g, n.id)
      BY <2>1, <2>3, <3>1 DEF Fresh, Copy
    <3>3. n.id \in Ids(Clear(nonces[g][h]))
      BY <3>1, <3>2 DEF Step, NoncesGrow
    <3>4. x.peer >= peerId[g][h]
      BY <1>8, <2>1, <2>3, <3>1, <3>3 DEF LatestInv, AcceptableIsLatest, Copy
    <3>5. nonces'[g][h] # {}
      BY <3>1 DEF Clear
    <3>6. peerId'[g][h] = peerId[g][h] \/ peerId'[g][h] = 0
      BY <3>5 DEF Step, PeersFollow
    <3> QED BY <1>3, <1>4, <2>1, <2>3, <3>4, <3>6 DEF Copy
  <2> QED BY <2>2, <2>3 DEF Step, NetGrows
<1>9. AcceptableIsLatest'
  BY <1>8 DEF AcceptableIsLatest
<1> QED BY <1>1, <1>7, <1>9 DEF LatestInv

-----------------------------------------------------------------------------
(***************************************************************************)
(* Lemmas about nonces and messages                                        *)
(***************************************************************************)
LEMMA ClearShrinks ==
    /\ \A ns : Clear(ns) \subseteq ns /\ Clear(Clear(ns)) = Clear(ns)
    /\ \A ns, some : some \subseteq ns => Clear(some) \subseteq Clear(ns)
    /\ Clear({}) = {}
BY DEF Clear

LEMMA FreeIdFresh ==
    ASSUME TypeOK, NEW g \in Guard, NEW id \in FreeIds(g)
    PROVE  id \in NonceId /\ id # 0 /\ Fresh(g, id)
<1>1. MaxNonces \in Nat /\ MaxNet \in Nat
  BY ConstantsAssumption
<1>2. id \in NonceId
  BY <1>1 DEF FreeIds, NonceId
<1>3. id \notin {m.received : m \in {x \in net : x.to = g}}
  BY DEF FreeIds
<1> QED BY <1>1, <1>2, <1>3 DEF Fresh, NonceId

LEMMA NewNonce ==
    ASSUME NEW id \in NonceId
    PROVE  [id |-> id, age |-> 0] \in Nonce
<1>1. 0 \in 0 .. MessageValid + 1
  BY ConstantsAssumption
<1> QED BY <1>1 DEF Nonce

\* g's lists become `new`, whose nonces are old ones or free.
LEMMA SetGrows ==
    ASSUME TypeOK, NEW g \in Guard, NEW new \in [Guard -> SUBSET Nonce], SetNonces(g, new),
           \A h \in Guard : \A n \in Clear(new[h]) :
              n.id \in Ids(Clear(nonces[g][h])) \/ n.id \in FreeIds(g)
    PROVE  NoncesGrow /\ nonces'[g] = new
<1>1. /\ nonces'[g] = new /\ \A k \in Guard : k # g => nonces'[k] = nonces[k]
      /\ nonces' \in [Guard -> [Guard -> SUBSET Nonce]]
  BY DEF SetNonces, TypeOK
<1>2. ASSUME NEW k \in Guard, NEW h \in Guard, NEW n \in Clear(nonces'[k][h])
      PROVE  n.id \in Ids(Clear(nonces[k][h])) \/ Fresh(k, n.id)
  <2>1. CASE k = g
    BY <1>1, <2>1, FreeIdFresh
  <2>2. CASE k # g
    BY <1>1, <1>2, <2>2 DEF Ids
  <2> QED BY <2>1, <2>2
<1> QED BY <1>1, <1>2 DEF NoncesGrow

LEMMA WithNonceGrows ==
    ASSUME TypeOK, NEW g \in Guard, NEW lists \in [Guard -> SUBSET Nonce], NEW t,
           \A h \in Guard : Ids(Clear(lists[h])) \subseteq Ids(Clear(nonces[g][h])),
           NEW id \in FreeIds(g), SetNonces(g, WithNonce(lists, t, id))
    PROVE  NoncesGrow
<1>1. PICK n : n = [id |-> id, age |-> 0]
  OBVIOUS
<1>2. n \in Nonce /\ n.id = id
  BY <1>1, FreeIdFresh, NewNonce
<1>3. PICK new : new = WithNonce(lists, t, id)
  OBVIOUS
<1>4. \A h \in Guard : new[h] = lists[h] \cup {n} \/ new[h] = lists[h]
  BY <1>1, <1>3 DEF WithNonce
<1>5. new \in [Guard -> SUBSET Nonce]
  BY <1>1, <1>2, <1>3 DEF WithNonce
<1>6. ASSUME NEW h \in Guard, NEW k \in Clear(new[h])
      PROVE  k.id \in Ids(Clear(nonces[g][h])) \/ k.id \in FreeIds(g)
  <2>1. CASE k = n
    BY <1>2, <2>1
  <2>2. CASE k # n
    <3>1. k \in Clear(lists[h])
      BY <1>4, <1>6, <2>2 DEF Clear
    <3> QED BY <3>1 DEF Ids
  <2> QED BY <2>1, <2>2
<1> QED BY <1>3, <1>5, <1>6, SetGrows

LEMMA ClearedShrinks ==
    ASSUME NEW lists \in [Guard -> SUBSET Nonce]
    PROVE  /\ Cleared(lists) \in [Guard -> SUBSET Nonce]
           /\ \A h \in Guard : Clear(Cleared(lists)[h]) = Clear(lists[h])
BY ClearShrinks DEF Cleared

LEMMA MessageOfType ==
    ASSUME TypeOK, NEW g \in Guard, NEW type \in {"register", "approval", "heartbeat"},
           NEW to \in Guard, NEW toPeer \in PeerId, NEW nonce \in NonceId \cup {0},
           NEW received \in NonceId \cup {0}
    PROVE  /\ MessageOf(g, type, to, toPeer, nonce, received) \in Message
           /\ OfNow(MessageOf(g, type, to, toPeer, nonce, received))
<1>1. start[g] \in 1 .. MaxStarts
  BY DEF TypeOK
<1>2. 0 \in 0 .. MessageValid
  BY ConstantsAssumption
<1> QED BY <1>1, <1>2 DEF MessageOf, Message, OfNow

LEMMA SendGrows ==
    ASSUME TypeOK, NEW ms, NEW rest, rest \subseteq net, Send(ms, rest),
           \A m \in ms : m \in Message /\ OfNow(m)
    PROVE  NetGrows
<1>1. net' \subseteq rest \cup ms
  BY DEF Send
<1>2. \A m : Copy(m, m)
  BY DEF Copy
<1> QED BY <1>1, <1>2 DEF NetGrows, TypeOK

LEMMA LessGrows ==
    ASSUME TypeOK, net' \subseteq net
    PROVE  NetGrows
<1>1. \A m : Copy(m, m)
  BY DEF Copy
<1> QED BY <1>1 DEF NetGrows, TypeOK

LEMMA NoncesOwn ==
    ASSUME TypeOK, NEW g \in Guard
    PROVE  nonces[g] \in [Guard -> SUBSET Nonce] /\ Cleared(nonces[g]) \in [Guard -> SUBSET Nonce]
BY ClearedShrinks DEF TypeOK

-----------------------------------------------------------------------------
(***************************************************************************)
(* Every action is such a step                                             *)
(***************************************************************************)
LEMMA RegisterGrows ==
    ASSUME TypeOK, NEW g \in Guard, NEW lists \in [Guard -> SUBSET Nonce],
           \A h \in Guard : Ids(Clear(lists[h])) \subseteq Ids(Clear(nonces[g][h])),
           Register(g, lists, net)
    PROVE  NetGrows /\ NoncesGrow
<1>1. CASE Lost(g, lists) = {}
  <2>1. SetNonces(g, lists) /\ net' = net
    BY <1>1 DEF Register
  <2>2. NoncesGrow
    BY <2>1, SetGrows DEF Ids
  <2> QED BY <2>1, <2>2, LessGrows
<1>2. CASE Lost(g, lists) # {}
  <2>1. PICK id \in FreeIds(g) :
           /\ SetNonces(g, WithNonce(Cleared(lists), -1, id))
           /\ Send({MessageOf(g, "register", h, 0, id, 0) : h \in Guard \ {g}}, net)
    BY <1>2 DEF Register, FreeId
  <2>2. NoncesGrow
    BY <2>1, ClearedShrinks, WithNonceGrows
  <2>3. id \in NonceId /\ 0 \in PeerId
    BY FreeIdFresh, ConstantsAssumption DEF PeerId
  <2>4. \A m \in {MessageOf(g, "register", h, 0, id, 0) : h \in Guard \ {g}} :
           m \in Message /\ OfNow(m)
    BY <2>3, MessageOfType
  <2> QED BY <2>1, <2>2, <2>4, SendGrows
<1> QED BY <1>1, <1>2

LEMMA Unmoved ==
    ASSUME TypeOK
    PROVE  /\ UNCHANGED peerId => PeersFollow
           /\ UNCHANGED start => StartsGrow
           /\ UNCHANGED <<age, callbacks, updated, stable>> => OthersTyped
<1>1. \A h \in Guard : start[h] \in Int
  BY ConstantsAssumption DEF TypeOK
<1>2. \A h \in Guard : start[h] >= start[h]
  BY <1>1
<1> QED BY <1>2 DEF TypeOK, PeersFollow, StartsGrow, OthersTyped

LEMMA InitCallStep ==
    ASSUME TypeOK, NEW g \in Guard, InitCall(g)
    PROVE  Step
<1>1. NetGrows /\ NoncesGrow
  BY NoncesOwn, RegisterGrows DEF InitCall
<1> QED BY <1>1, Unmoved DEF InitCall, Step

LEMMA HeartbeatsGrow ==
    ASSUME TypeOK, NEW g \in Guard, NEW lists \in [Guard -> SUBSET Nonce],
           \A h \in Guard : Clear(lists[h]) \subseteq Clear(nonces[g][h]),
           Heartbeats(g, lists)
    PROVE  NetGrows /\ NoncesGrow
<1> DEFINE due == {h \in Guard : HeartbeatDue(g, h, lists)}
<1>1. PICK idOf \in Injection(due, FreeIds(g)) :
         /\ SetNonces(g, [k \in Guard |->
               lists[k] \cup {[id |-> idOf[h], age |-> 0] :
                                h \in {d \in due : k \in Targets(d)}}])
         /\ Send({MessageOf(g, "heartbeat", h, peerId[g][h], idOf[h], 0) : h \in due}, net)
  BY DEF Heartbeats
<1>2. \A h \in due : h \in Guard /\ idOf[h] \in FreeIds(g) /\ idOf[h] \in NonceId
  BY <1>1, FreeIdFresh DEF Injection
<1>3. PICK new : new = [k \in Guard |->
               lists[k] \cup {[id |-> idOf[h], age |-> 0] :
                                h \in {d \in due : k \in Targets(d)}}]
  OBVIOUS
<1>4. \A k \in Guard : \A n \in new[k] :
         n \in lists[k] \/ \E h \in due : n = [id |-> idOf[h], age |-> 0]
  BY <1>3
<1>5. \A k \in Guard : \A n \in new[k] : n \in Nonce
  <2>1. \A h \in due : [id |-> idOf[h], age |-> 0] \in Nonce
    BY <1>2, NewNonce
  <2> QED BY <1>4, <2>1
<1>6. new \in [Guard -> SUBSET Nonce]
  BY <1>3, <1>5
<1>7. ASSUME NEW h \in Guard, NEW n \in Clear(new[h])
      PROVE  n.id \in Ids(Clear(nonces[g][h])) \/ n.id \in FreeIds(g)
  <2>1. n \in new[h] /\ (n \in lists[h] => n \in Clear(lists[h]))
    BY <1>7 DEF Clear
  <2>2. CASE n \in lists[h]
    BY <2>1, <2>2 DEF Ids
  <2>3. CASE \E k \in due : n = [id |-> idOf[k], age |-> 0]
    BY <1>2, <2>3
  <2> QED BY <1>4, <2>1, <2>2, <2>3
<1>8. NoncesGrow
  BY <1>1, <1>3, <1>6, <1>7, SetGrows
<1>9. \A m \in {MessageOf(g, "heartbeat", h, peerId[g][h], idOf[h], 0) : h \in due} :
         m \in Message /\ OfNow(m)
  <2>1. \A h \in due : peerId[g][h] \in PeerId
    BY DEF TypeOK
  <2> QED BY <1>2, <2>1, MessageOfType
<1> QED BY <1>1, <1>8, <1>9, SendGrows

LEMMA UpdateCallStep ==
    ASSUME TypeOK, NEW g \in Guard, UpdateCall(g)
    PROVE  Step
<1>1. PICK lists : /\ lists = Cleared(nonces[g])
                   /\ Register(g, lists, net) \/ Heartbeats(g, lists)
  BY DEF UpdateCall
<1>2. /\ lists \in [Guard -> SUBSET Nonce]
      /\ \A h \in Guard : Clear(lists[h]) = Clear(nonces[g][h])
  BY <1>1, NoncesOwn, ClearedShrinks
<1>3. NetGrows /\ NoncesGrow
  BY <1>1, <1>2, RegisterGrows, HeartbeatsGrow
<1>4. OthersTyped
  BY DEF UpdateCall, TypeOK, OthersTyped
<1> QED BY <1>3, <1>4, Unmoved DEF UpdateCall, Step

LEMMA ReceiveRegisterStep ==
    ASSUME TypeOK, NEW g \in Guard, NEW m, ReceiveRegister(g, m)
    PROVE  Step
<1>1. PICK rest \in SUBSET net :
         /\ Arrives(g, m, rest)
         /\ SetNonces(g, WithNonce(Cleared(nonces[g]), m.from, FreeId(g)))
         /\ Send({MessageOf(g, "approval", m.from, m.peer, FreeId(g), m.nonce)}, rest)
  BY DEF ReceiveRegister
<1>2. PICK id \in FreeIds(g) : id = FreeId(g)
  BY DEF ReceiveRegister, FreeId
<1>3. NoncesGrow
  BY <1>1, <1>2, NoncesOwn, ClearedShrinks, WithNonceGrows
<1>4. /\ m.from \in Guard /\ m.peer \in PeerId /\ m.nonce \in NonceId \cup {0}
      /\ id \in NonceId
  BY <1>1, FreeIdFresh, ConstantsAssumption DEF Arrives, TypeOK, Message, PeerId
<1>5. NetGrows
  BY <1>1, <1>2, <1>4, MessageOfType, SendGrows
<1> QED BY <1>3, <1>5, Unmoved DEF ReceiveRegister, Step

LEMMA ReceiveHeartbeatStep ==
    ASSUME TypeOK, NEW g \in Guard, NEW m, ReceiveHeartbeat(g, m)
    PROVE  Step
<1>1. PICK rest \in SUBSET net :
         /\ Arrives(g, m, rest)
         /\ Send({MessageOf(g, "approval", m.from, m.peer, 0, m.nonce)}, rest)
  BY DEF ReceiveHeartbeat
<1>2. m.from \in Guard /\ m.peer \in PeerId /\ m.nonce \in NonceId \cup {0}
  BY <1>1, ConstantsAssumption DEF Arrives, TypeOK, Message, PeerId
<1>3. NetGrows
  <2>1. /\ MessageOf(g, "approval", m.from, m.peer, 0, m.nonce) \in Message
        /\ OfNow(MessageOf(g, "approval", m.from, m.peer, 0, m.nonce))
    BY <1>2, MessageOfType
  <2> QED BY <1>1, <2>1, SendGrows
<1>4. NoncesGrow
  BY DEF ReceiveHeartbeat, TypeOK, NoncesGrow, Ids
<1> QED BY <1>3, <1>4, Unmoved DEF ReceiveHeartbeat, Step

LEMMA ReceiveApprovalStep ==
    ASSUME TypeOK, NEW g \in Guard, NEW m, ReceiveApproval(g, m)
    PROVE  Step
<1>1. PICK rest \in SUBSET net :
         /\ Arrives(g, m, rest)
         /\ LET h == m.from
                lists == Cleared(nonces[g])
            IN  \/ /\ m.received \in Ids(lists[h])
                   /\ peerId' = [peerId EXCEPT ![g][h] = m.peer]
                   /\ age' = [age EXCEPT ![g][h] = 0]
                   /\ callbacks' = [callbacks EXCEPT ![g] = @ \ {h}]
                   /\ SetNonces(g, [lists EXCEPT ![h] = {}])
                   /\ Send({MessageOf(g, "approval", h, m.peer, 0, m.nonce) :
                              x \in {m.nonce} \ {0}}, rest)
                \/ /\ m.received \notin Ids(lists[h])
                   /\ SetNonces(g, lists)
                   /\ net' = rest
                   /\ UNCHANGED <<peerId, age, callbacks>>
  BY DEF ReceiveApproval, LeftOver
<1>2. m \in net /\ m.to = g /\ m.type = "approval"
  BY <1>1 DEF ReceiveApproval, Arrives
<1>3. PICK h \in Guard : h = m.from
  BY <1>2 DEF TypeOK, Message
<1>4. m.peer \in PeerId /\ m.nonce \in NonceId \cup {0} /\ 0 \in 0 .. ActiveTimeout + 1
  BY <1>2, ConstantsAssumption DEF TypeOK, Message, PeerId
<1>5. PICK lists \in [Guard -> SUBSET Nonce] : lists = Cleared(nonces[g])
  BY NoncesOwn
<1>6. \A k \in Guard : Clear(lists[k]) = Clear(nonces[g][k]) /\ lists[k] = Clear(nonces[g][k])
  BY <1>5, NoncesOwn, ClearedShrinks DEF Cleared
<1>7. CASE /\ m.received \in Ids(lists[h])
           /\ peerId' = [peerId EXCEPT ![g][h] = m.peer]
           /\ age' = [age EXCEPT ![g][h] = 0]
           /\ callbacks' = [callbacks EXCEPT ![g] = @ \ {h}]
           /\ SetNonces(g, [lists EXCEPT ![h] = {}])
           /\ Send({MessageOf(g, "approval", h, m.peer, 0, m.nonce) :
                      x \in {m.nonce} \ {0}}, rest)
  <2>1. PICK new \in [Guard -> SUBSET Nonce] : new = [lists EXCEPT ![h] = {}]
    OBVIOUS
  <2>2. new[h] = {} /\ \A k \in Guard : k # h => new[k] = lists[k]
    BY <2>1
  <2>3. \A k \in Guard : \A n \in Clear(new[k]) : n.id \in Ids(Clear(nonces[g][k]))
    BY <1>6, <2>2, ClearShrinks DEF Ids
  <2>4. NoncesGrow /\ nonces'[g] = new
    BY <1>7, <2>1, <2>3, SetGrows
  <2>5. NetGrows
    <3>1. /\ MessageOf(g, "approval", h, m.peer, 0, m.nonce) \in Message
          /\ OfNow(MessageOf(g, "approval", h, m.peer, 0, m.nonce))
      BY <1>3, <1>4, MessageOfType
    <3> QED BY <1>1, <1>7, <3>1, SendGrows
  <2>6. PeersFollow
    <3>1. Acceptable(m)
      BY <1>2, <1>3, <1>6, <1>7 DEF Acceptable
    <3>2. peerId'[g][h] = m.peer /\ nonces'[g][h] = {}
      BY <1>7, <2>2, <2>4 DEF TypeOK
    <3>3. \A k \in Guard : \A j \in Guard :
             <<k, j>> # <<g, h>> => peerId'[k][j] = peerId[k][j]
      BY <1>7 DEF TypeOK
    <3>4. peerId' \in [Guard -> [Guard -> PeerId]]
      BY <1>4, <1>7 DEF TypeOK
    <3> QED BY <1>2, <1>3, <3>1, <3>2, <3>3, <3>4 DEF PeersFollow
  <2>7. OthersTyped
    BY <1>4, <1>7 DEF TypeOK, ReceiveApproval, OthersTyped
  <2> QED BY <2>4, <2>5, <2>6, <2>7, Unmoved DEF ReceiveApproval, Step
<1>8. CASE /\ SetNonces(g, lists) /\ net' = rest
           /\ UNCHANGED <<peerId, age, callbacks>>
  <2>1. \A k \in Guard : \A n \in Clear(lists[k]) : n.id \in Ids(Clear(nonces[g][k]))
    BY <1>6 DEF Ids
  <2>2. NoncesGrow
    BY <1>8, <2>1, SetGrows
  <2>3. NetGrows
    BY <1>8, LessGrows
  <2> QED BY <1>8, <2>2, <2>3, Unmoved DEF ReceiveApproval, Step
<1> QED BY <1>1, <1>3, <1>5, <1>7, <1>8

LEMMA RegisterCallStep ==
    ASSUME TypeOK, NEW g \in Guard, NEW h \in Guard, NEW p \in 1 .. MaxStarts,
           RegisterCall(g, h, p)
    PROVE  Step
<1>1. PICK id \in FreeIds(g) : id = FreeId(g)
  BY DEF RegisterCall, FreeId
<1>2. PICK n : n = [id |-> id, age |-> 0]
  OBVIOUS
<1>3. n \in Nonce /\ n.id = id /\ id \in NonceId
  BY <1>2, FreeIdFresh, NewNonce
<1>4. PICK lists : lists = [nonces[g] EXCEPT ![h] = @ \cup {n}]
  OBVIOUS
<1>5. /\ lists \in [Guard -> SUBSET Nonce]
      /\ \A k \in Guard : lists[k] \subseteq nonces[g][k] \cup {n}
  BY <1>3, <1>4, NoncesOwn
<1>6. SetNonces(g, Cleared(lists))
  BY <1>1, <1>2, <1>4 DEF RegisterCall
<1>7. ASSUME NEW k \in Guard, NEW x \in Clear(Cleared(lists)[k])
      PROVE  x.id \in Ids(Clear(nonces[g][k])) \/ x.id \in FreeIds(g)
  <2>1. x \in Clear(lists[k])
    BY <1>5, <1>7, ClearedShrinks
  <2>2. x = n \/ x \in Clear(nonces[g][k])
    BY <1>5, <2>1 DEF Clear
  <2> QED BY <1>3, <2>2 DEF Ids
<1>8. NoncesGrow
  BY <1>5, <1>6, <1>7, ClearedShrinks, SetGrows
<1>9. NetGrows
  <2>1. p \in PeerId
    BY ConstantsAssumption DEF PeerId
  <2>2. /\ MessageOf(g, "register", h, p, id, 0) \in Message
        /\ OfNow(MessageOf(g, "register", h, p, id, 0))
    BY <1>3, <2>1, MessageOfType
  <2>3. Send({MessageOf(g, "register", h, p, id, 0)}, net)
    BY <1>1 DEF RegisterCall
  <2> QED BY <2>2, <2>3, SendGrows
<1>10. OthersTyped
  BY DEF RegisterCall, TypeOK, OthersTyped
<1> QED BY <1>8, <1>9, <1>10, Unmoved DEF RegisterCall, Step

\* What changePks and a restart forget.
LEMMA Forgets ==
    ASSUME TypeOK, NEW g \in Guard,
           peerId' = [peerId EXCEPT ![g] = [h \in Guard |-> 0]],
           age' = [age EXCEPT ![g] = [h \in Guard |-> ActiveTimeout + 1]],
           callbacks' = [callbacks EXCEPT ![g] = {}], UNCHANGED stable,
           updated' \in [Guard -> BOOLEAN]
    PROVE  PeersFollow /\ OthersTyped
<1>1. 0 \in PeerId /\ ActiveTimeout + 1 \in 0 .. ActiveTimeout + 1
  BY ConstantsAssumption DEF PeerId
<1>2. PeersFollow
  <2>1. peerId' \in [Guard -> [Guard -> PeerId]]
    BY <1>1 DEF TypeOK
  <2>2. \A k \in Guard : \A h \in Guard :
           peerId'[k][h] = peerId[k][h] \/ peerId'[k][h] = 0
    BY DEF TypeOK
  <2> QED BY <2>1, <2>2 DEF PeersFollow
<1> QED BY <1>1, <1>2 DEF TypeOK, OthersTyped

LEMMA ChangePksStep ==
    ASSUME TypeOK, NEW g \in Guard, ChangePks(g)
    PROVE  Step
<1>1. PeersFollow /\ OthersTyped
  <2>1. updated' \in [Guard -> BOOLEAN] /\ UNCHANGED stable
    BY DEF ChangePks, TypeOK
  <2> QED BY <2>1, Forgets DEF ChangePks
<1>2. PICK empty \in [Guard -> SUBSET Nonce] : empty = [h \in Guard |-> {}]
  OBVIOUS
<1>3. \A h \in Guard : Clear(empty[h]) = {}
  BY <1>2, ClearShrinks
<1>4. CASE SetNonces(g, empty) /\ UNCHANGED net
  <2>1. NoncesGrow
    BY <1>3, <1>4, SetGrows
  <2> QED BY <1>1, <1>4, <2>1, LessGrows, Unmoved DEF ChangePks, Step
<1>5. CASE /\ FreeIds(g) # {}
           /\ SetNonces(g, WithNonce(empty, -1, FreeId(g)))
           /\ Send({MessageOf(g, "register", h, 0, FreeId(g), 0) : h \in Guard \ {g}}, net)
  <2>1. PICK id \in FreeIds(g) : id = FreeId(g)
    BY <1>5 DEF FreeId
  <2>2. \A h \in Guard : Ids(Clear(empty[h])) \subseteq Ids(Clear(nonces[g][h]))
    BY <1>3 DEF Ids
  <2>3. NoncesGrow
    BY <1>5, <2>1, <2>2, WithNonceGrows
  <2>4. id \in NonceId /\ 0 \in PeerId
    BY FreeIdFresh, ConstantsAssumption DEF PeerId
  <2>5. \A m \in {MessageOf(g, "register", h, 0, id, 0) : h \in Guard \ {g}} :
           m \in Message /\ OfNow(m)
    BY <2>4, MessageOfType
  <2>6. NetGrows
    BY <1>5, <2>1, <2>5, SendGrows
  <2> QED BY <1>1, <2>3, <2>6, Unmoved DEF ChangePks, Step
<1> QED BY <1>2, <1>4, <1>5 DEF ChangePks

LEMMA RestartStep ==
    ASSUME TypeOK, NEW g \in Guard, Restart(g)
    PROVE  Step
<1>1. PeersFollow /\ OthersTyped
  <2>1. updated' \in [Guard -> BOOLEAN] /\ UNCHANGED stable
    BY DEF Restart, TypeOK
  <2> QED BY <2>1, Forgets DEF Restart
<1>2. StartsGrow
  BY ConstantsAssumption DEF Restart, TypeOK, StartsGrow
<1>3. NoncesGrow
  <2>1. nonces' \in [Guard -> [Guard -> SUBSET Nonce]]
    BY DEF Restart, TypeOK
  <2>2. \A k \in Guard : \A h \in Guard : nonces'[k][h] \subseteq nonces[k][h]
    BY DEF Restart, TypeOK
  <2> QED BY <2>1, <2>2, ClearShrinks DEF NoncesGrow, Ids
<1>4. NetGrows
  BY LessGrows DEF Restart
<1> QED BY <1>1, <1>2, <1>3, <1>4 DEF Step

LEMMA TickStep ==
    ASSUME TypeOK, Tick
    PROVE  Step
<1>1. {ActiveTimeout, MessageValid} \subseteq Nat
  BY ConstantsAssumption
<1>2. NoncesGrow
  <2>1. ASSUME NEW g \in Guard, NEW h \in Guard, NEW n \in nonces'[g][h]
        PROVE  /\ n \in Nonce
               /\ \E x \in nonces[g][h] : x.id = n.id /\ (n \in Clear({n}) => x \in Clear({x}))
    <3>1. PICK x \in nonces[g][h] : n = [x EXCEPT !.age = Older(x.age, MessageValid + 1)]
      BY <2>1 DEF Tick
    <3>2. x \in Nonce /\ x.age \in 0 .. MessageValid + 1
      BY <3>1 DEF TypeOK, Nonce
    <3>3. /\ Older(x.age, MessageValid + 1) \in 0 .. MessageValid + 1
          /\ Older(x.age, MessageValid + 1) >= x.age
      BY <1>1, <3>2 DEF Older
    <3>4. n \in Nonce /\ n.id = x.id /\ n.age = Older(x.age, MessageValid + 1)
      BY <3>1, <3>2, <3>3 DEF Nonce
    <3>5. n.age <= MessageValid => x.age <= MessageValid
      BY <1>1, <3>2, <3>3, <3>4
    <3> QED BY <3>4, <3>5 DEF Clear
  <2>2. nonces' \in [Guard -> [Guard -> SUBSET Nonce]]
    BY <2>1 DEF Tick
  <2>3. ASSUME NEW g \in Guard, NEW h \in Guard, NEW n \in Clear(nonces'[g][h])
        PROVE  n.id \in Ids(Clear(nonces[g][h]))
    BY <2>1 DEF Clear, Ids
  <2> QED BY <2>2, <2>3 DEF NoncesGrow
<1>3. NetGrows
  <2>1. ASSUME NEW m \in net'
        PROVE  m \in Message /\ \E x \in net : Copy(m, x)
    <3>1. PICK x \in net : m = [x EXCEPT !.age = x.age + 1] /\ x.age < MessageValid
      BY <2>1 DEF Tick
    <3>2. x \in Message /\ x.age \in 0 .. MessageValid
      BY <3>1 DEF TypeOK, Message
    <3>3. x.age + 1 \in 0 .. MessageValid
      BY <1>1, <3>1, <3>2
    <3>4. m \in Message
      BY <3>1, <3>2, <3>3 DEF Message
    <3>5. Copy(m, x)
      BY <3>1, <3>2 DEF Copy, Message
    <3> QED BY <3>4, <3>5
  <2> QED BY <2>1 DEF NetGrows
<1>4. OthersTyped
  <2>1. \A a \in 0 .. ActiveTimeout + 1 : Older(a, ActiveTimeout + 1) \in 0 .. ActiveTimeout + 1
    BY <1>1 DEF Older
  <2> QED BY <2>1 DEF Tick, TypeOK, OthersTyped
<1> QED BY <1>2, <1>3, <1>4, Unmoved DEF Tick, Step

LEMMA StillStep ==
    ASSUME TypeOK, Stabilize \/ UNCHANGED vars
    PROVE  Step
<1>1. UNCHANGED <<start, peerId, age, nonces, callbacks, net, updated>> /\ stable' \in BOOLEAN
  BY DEF Stabilize, vars, TypeOK
<1>2. NoncesGrow
  BY <1>1 DEF NoncesGrow, TypeOK, Ids
<1>3. OthersTyped
  BY <1>1 DEF TypeOK, OthersTyped
<1> QED BY <1>1, <1>2, <1>3, LessGrows, Unmoved DEF Step

LEMMA NextIsStep ==
    ASSUME TypeOK, [Next]_vars
    PROVE  Step
<1>1. CASE Tick \/ Stabilize \/ UNCHANGED vars
  BY <1>1, TickStep, StillStep
<1>2. ASSUME NEW g \in Guard, NEW m \in net, Receive(g, m)
      PROVE  Step
  BY <1>2, ReceiveRegisterStep, ReceiveApprovalStep, ReceiveHeartbeatStep DEF Receive
<1>3. ASSUME NEW g \in Guard, NEW h \in Guard, NEW p \in 1 .. MaxStarts, RegisterCall(g, h, p)
      PROVE  Step
  BY <1>3, RegisterCallStep
<1>4. ASSUME NEW g \in Guard, InitCall(g) \/ UpdateCall(g) \/ ChangePks(g) \/ Restart(g)
      PROVE  Step
  BY <1>4, InitCallStep, UpdateCallStep, ChangePksStep, RestartStep
<1> QED BY <1>1, <1>2, <1>3, <1>4 DEF Next

LEMMA LatestInvHolds == Spec => []LatestInv
<1>1. Init => LatestInv
  <2>1. 1 \in 1 .. MaxStarts /\ 0 \in PeerId /\ ActiveTimeout + 1 \in 0 .. ActiveTimeout + 1
    BY ConstantsAssumption DEF PeerId
  <2>2. ASSUME Init
        PROVE  TypeOK
    <3>1. /\ start \in [Guard -> 1 .. MaxStarts]
          /\ peerId \in [Guard -> [Guard -> PeerId]]
          /\ age \in [Guard -> [Guard -> 0 .. ActiveTimeout + 1]]
      BY <2>1, <2>2 DEF Init
    <3>2. nonces \in [Guard -> [Guard -> SUBSET Nonce]]
      BY <2>2 DEF Init
    <3>3. /\ callbacks \in [Guard -> SUBSET Guard] /\ updated \in [Guard -> BOOLEAN]
          /\ net \subseteq Message /\ stable \in BOOLEAN
      BY <2>2 DEF Init
    <3> QED BY <3>1, <3>2, <3>3 DEF TypeOK
  <2>3. Init => StartedOnly
    BY DEF Init, StartedOnly
  <2>4. Init => AcceptableIsLatest
    BY DEF Init, AcceptableIsLatest
  <2> QED BY <2>2, <2>3, <2>4 DEF LatestInv
<1>2. LatestInv /\ [Next]_vars => LatestInv'
  BY NextIsStep, StepKeepsLatestInv DEF LatestInv
<1> QED BY <1>1, <1>2, PTL DEF Spec

-----------------------------------------------------------------------------
(***************************************************************************)
(* The theorems                                                            *)
(***************************************************************************)

\* What a guard knows of the others, its nonces and the messages keep their types.
THEOREM TypeCorrect == Spec => []TypeOK
<1>1. LatestInv => TypeOK
  BY DEF LatestInv
<1> QED BY <1>1, LatestInvHolds, PTL

\* No approval that handleApproveMessage would accept, however late or often it comes, is of
\* an older process than the one whose peer id is stored.
THEOREM AcceptableCorrect == Spec => []AcceptableIsLatest
<1>1. LatestInv => AcceptableIsLatest
  BY DEF LatestInv
<1> QED BY <1>1, LatestInvHolds, PTL

\* guardsInfo never goes back to the peer id of an earlier process of a guard.
THEOREM PeerForwardCorrect == Spec => PeerNeverGoesBack
<1>1. ASSUME LatestInv, [Next]_vars
      PROVE  [\A g, h \in Guard : peerId'[g][h] # peerId[g][h] =>
                peerId'[g][h] = 0 \/ peerId'[g][h] > peerId[g][h]]_vars
  <2>1. PeersFollow
    BY <1>1, NextIsStep DEF LatestInv, Step
  <2>2. ASSUME NEW g \in Guard, NEW h \in Guard, peerId'[g][h] # peerId[g][h],
               peerId'[g][h] # 0
        PROVE  peerId'[g][h] > peerId[g][h]
    <3>1. PICK m \in net : Acceptable(m) /\ m.to = g /\ m.from = h /\ peerId'[g][h] = m.peer
      BY <2>1, <2>2 DEF PeersFollow
    <3>2. m.peer >= peerId[g][h]
      BY <1>1, <3>1 DEF LatestInv, AcceptableIsLatest, Acceptable
    <3>3. peerId[g][h] \in Int /\ peerId'[g][h] \in Int
      BY <1>1, <2>1, ConstantsAssumption DEF LatestInv, TypeOK, PeersFollow, PeerId
    <3> QED BY <2>2, <3>1, <3>2, <3>3
  <2> QED BY <2>2
<1> QED BY <1>1, LatestInvHolds, PTL DEF Spec, PeerNeverGoesBack
=============================================================================
