---------------------------- MODULE GuardDetection ----------------------------
(***************************************************************************)
(* How the guards find each other: class GuardDetection of packages/       *)
(* detection.  A guard believes in the peer id of another while that one   *)
(* answers nonces: a register broadcasts a nonce, the approval answers it  *)
(* and brings a nonce back, which is approved in turn; a heartbeat brings  *)
(* a nonce to a peer known already.                                        *)
(*                                                                         *)
(* A guard that restarts comes back under another peer id.  Time is kept   *)
(* as ages (of nonces, of messages, of lastUpdate), so behaviours have no  *)
(* last tick.  The network loses, delays and repeats messages until it is  *)
(* stable; from then on it delivers each of them once, within the tick.    *)
(* A handler is one step: it awaits only the signing and the submission of *)
(* what it sends, and a message sent later is one that is delayed.         *)
(***************************************************************************)
EXTENDS Integers, FiniteSets, Functions

CONSTANTS
    N,                 \* number of guards
    Need,              \* needGuardThreshold once the signer has set it
    ActiveTimeout,     \* activeTimeout, in ticks
    HeartbeatTimeout,  \* heartbeatTimeout, in ticks
    MessageValid,      \* messageValidDuration, in ticks
    MaxNonces,         \* bound: nonces of one guard outstanding in an unstable network
    MaxNet,            \* bound: messages under way in an unstable network
    MaxStarts,         \* bound: times a guard process is started
    Restarting,        \* bound: guards whose process may die
    Settles            \* bound: whether the network may become stable

Guard == 0 .. N - 1

ASSUME ConstantsAssumption ==
    /\ N \in Nat \ {0}
    /\ {Need, ActiveTimeout, HeartbeatTimeout, MessageValid} \subseteq Nat
    /\ {MaxNonces, MaxStarts} \subseteq Nat \ {0} /\ MaxNet \in Nat
    /\ Restarting \subseteq Guard /\ Settles \in BOOLEAN

\* The peer id of a guard process: which start of the guard it is; 0 is ''.
PeerId == 0 .. MaxStarts
NonceId == 1 .. MaxNonces + MaxNet + 2

Nonce == [id : NonceId, age : 0 .. MessageValid + 1]

\* `peer` is the sender's peer id; `toPeer` the addressed one, 0 in a broadcast.
\* The payload is `nonce` and `received` (receivedNonce), 0 where it has none.
Message == [type : {"register", "approval", "heartbeat"},
            from : Guard, peer : 1 .. MaxStarts, to : Guard, toPeer : PeerId,
            nonce : NonceId \cup {0}, received : NonceId \cup {0},
            age : 0 .. MessageValid]

VARIABLES
    start,      \* which start of its process each guard is at
    peerId,     \* guardsInfo[h].peerId at g
    age,        \* age of guardsInfo[h].lastUpdate at g
    nonces,     \* guardsInfo[h].nonce at g
    callbacks,  \* guards whose guardsInfo[h].callback at g has callbacks
    net,        \* messages that can still arrive
    updated,    \* whether update() of g ran in this tick
    stable      \* whether the network is stable

vars == <<start, peerId, age, nonces, callbacks, net, updated, stable>>

TypeOK ==
    /\ start \in [Guard -> 1 .. MaxStarts]
    /\ peerId \in [Guard -> [Guard -> PeerId]]
    /\ age \in [Guard -> [Guard -> 0 .. ActiveTimeout + 1]]
    /\ nonces \in [Guard -> [Guard -> SUBSET Nonce]]
    /\ callbacks \in [Guard -> SUBSET Guard]
    /\ net \subseteq Message
    /\ updated \in [Guard -> BOOLEAN]
    /\ stable \in BOOLEAN

Init ==
    /\ start = [g \in Guard |-> 1]
    /\ peerId = [g \in Guard |-> [h \in Guard |-> 0]]
    /\ age = [g \in Guard |-> [h \in Guard |-> ActiveTimeout + 1]]
    /\ nonces = [g \in Guard |-> [h \in Guard |-> {}]]
    /\ callbacks = [g \in Guard |-> {}]
    /\ net = {}
    /\ updated = [g \in Guard |-> FALSE]
    /\ stable = FALSE

-----------------------------------------------------------------------------
(***************************************************************************)
(* Helpers                                                                 *)
(***************************************************************************)
Active(g, h) == peerId[g][h] # 0 /\ age[g][h] < ActiveTimeout

\* clearNonce.  A nonce is dated with a fraction of a second and compared with
\* whole ones, so it is still kept at the age of MessageValid.
Clear(ns) == {n \in ns : n.age <= MessageValid}
Cleared(lists) == [h \in Guard |-> Clear(lists[h])]

Ids(ns) == {n.id : n \in ns}

\* Ids g can use for a random nonce: no message and no list of g, once cleared,
\* has them.
FreeIds(g) ==
    (IF stable THEN NonceId ELSE 1 .. MaxNonces)
    \ ((UNION {Ids(Clear(nonces[g][h])) : h \in Guard})
               \cup {m.nonce : m \in {x \in net : x.from = g}}
               \cup {m.received : m \in {x \in net : x.to = g}})

FreeId(g) == CHOOSE id \in FreeIds(g) : TRUE

\* Mutant: the index tested for undefined.
TargetsSelected(h) == IF h = -1 THEN Guard ELSE {h}

\* The guards whose list gets the nonce of addNonce(h): index 0 is falsy.
Targets(h) == IF h \in {-1, 0} THEN Guard ELSE {h}

\* addNonce(h) on lists already cleared; -1 is the call with no index.
WithNonce(lists, h, id) ==
    [k \in Guard |-> IF k \in Targets(h)
                     THEN lists[k] \cup {[id |-> id, age |-> 0]}
                     ELSE lists[k]]

\* Mutant: sent before the dialer knows its peer id.
MessageUnnamed(g, type, to, toPeer, nonce, received) ==
    [type |-> type, from |-> g, peer |-> 0, to |-> to, toPeer |-> toPeer,
     nonce |-> nonce, received |-> received, age |-> 0]

\* A message of g in its present process.
MessageOf(g, type, to, toPeer, nonce, received) ==
    [type |-> type, from |-> g, peer |-> start[g], to |-> to, toPeer |-> toPeer,
     nonce |-> nonce, received |-> received, age |-> 0]

\* needGuardThreshold: the signer has set it by the time the network is stable.
Threshold == IF stable THEN {Need} ELSE {0, Need}

\* Messages to a process that is gone do not arrive.
Reaches(m) == m.toPeer \in {0, start[m.to]}

\* What the network makes of sent messages, `rest` being the others.
Send(ms, rest) ==
    /\ net' \in {rest \cup kept : kept \in IF stable THEN {ms} ELSE SUBSET ms}
    /\ stable \/ Cardinality(net') <= MaxNet

SetNonces(g, lists) == nonces' = [nonces EXCEPT ![g] = lists]

-----------------------------------------------------------------------------
(***************************************************************************)
(* init() and update()                                                     *)
(***************************************************************************)

\* Guards of g that are to be registered: unknown or long not heard of.
Lost(g, lists) ==
    {h \in Guard : /\ peerId[g][h] = 0 \/ age[g][h] > ActiveTimeout
                   /\ lists[h] = {}}

\* init() with the lists it finds: broadcast one nonce that every guard may
\* answer, unless each lost guard still has one.
Register(g, lists, rest) ==
    IF Lost(g, lists) = {}
    THEN SetNonces(g, lists) /\ net' = rest
    ELSE /\ FreeIds(g) # {}
         /\ LET id == FreeId(g)
            IN  /\ SetNonces(g, WithNonce(Cleared(lists), -1, id))
                /\ Send({MessageOf(g, "register", h, 0, id, 0) : h \in Guard \ {g}},
                        rest)

\* Mutant: the heartbeat waits for the timeout of active guards.
HeartbeatDueLate(g, h, lists) ==
    peerId[g][h] # 0 /\ age[g][h] > ActiveTimeout /\ lists[h] = {}

HeartbeatDue(g, h, lists) ==
    peerId[g][h] # 0 /\ age[g][h] > HeartbeatTimeout /\ lists[h] = {}

\* The loop of update(): a heartbeat with a nonce of its own to every due guard.
Heartbeats(g, lists) ==
    LET due == {h \in Guard : HeartbeatDue(g, h, lists)}
        idOf == CHOOSE f \in Injection(due, FreeIds(g)) : TRUE
    IN  /\ Injection(due, FreeIds(g)) # {}
        /\ SetNonces(g, [k \in Guard |->
              lists[k] \cup {[id |-> idOf[h], age |-> 0] :
                               h \in {d \in due : k \in Targets(d)}}])
        /\ Send({MessageOf(g, "heartbeat", h, peerId[g][h], idOf[h], 0) : h \in due},
                net)

\* The application calls init() when it starts.
InitCall(g) ==
    /\ ~stable
    /\ Register(g, nonces[g], net)
    /\ UNCHANGED <<start, peerId, age, callbacks, updated, stable>>

UpdateCall(g) ==
    /\ stable => ~updated[g]
    /\ updated' = [updated EXCEPT ![g] = stable]
    /\ LET lists == Cleared(nonces[g])
       IN  \E need \in Threshold :
              IF Cardinality({h \in Guard : Active(g, h)}) + 1 < need
              THEN Register(g, lists, net)
              ELSE Heartbeats(g, lists)
    /\ UNCHANGED <<start, peerId, age, callbacks, stable>>

-----------------------------------------------------------------------------
(***************************************************************************)
(* Messages                                                                *)
(***************************************************************************)

\* m reaches the process of g.  An unstable network may deliver it again.
Arrives(g, m, rest) ==
    /\ m \in net /\ m.to = g /\ Reaches(m)
    /\ rest \in (IF stable THEN {net \ {m}} ELSE {net, net \ {m}})

\* handleRegisterMessage: approve, with a nonce for the sender to approve.
ReceiveRegister(g, m) ==
    /\ m.type = "register"
    /\ FreeIds(g) # {}
    /\ \E rest \in SUBSET net :
          /\ Arrives(g, m, rest)
          /\ LET id == FreeId(g)
             IN  /\ SetNonces(g, WithNonce(Cleared(nonces[g]), m.from, id))
                 /\ Send({MessageOf(g, "approval", m.from, m.peer, id, m.nonce)}, rest)
    /\ UNCHANGED <<start, peerId, age, callbacks, updated, stable>>

\* Mutant: only the answered nonce is used up.
LeftOverAnswered(ns, id) == {n \in ns : n.id # id}

\* What guard.nonce.splice leaves of the list.
LeftOver(ns, id) == {}

\* handleApproveMessage: the answer to an outstanding nonce makes the sender
\* known under its peer id, and uses up every nonce outstanding for it.
ReceiveApproval(g, m) ==
    /\ m.type = "approval"
    /\ \E rest \in SUBSET net :
          /\ Arrives(g, m, rest)
          /\ LET h == m.from
                 lists == Cleared(nonces[g])
             IN  \/ /\ m.received \in Ids(lists[h])
                    /\ peerId' = [peerId EXCEPT ![g][h] = m.peer]
                    /\ age' = [age EXCEPT ![g][h] = 0]
                    /\ callbacks' = [callbacks EXCEPT ![g] = @ \ {h}]
                    /\ SetNonces(g, [lists EXCEPT ![h] = LeftOver(@, m.received)])
                    /\ Send({MessageOf(g, "approval", h, m.peer, 0, m.nonce) :
                               x \in {m.nonce} \ {0}}, rest)
                 \/ /\ m.received \notin Ids(lists[h])
                    /\ SetNonces(g, lists)
                    /\ net' = rest
                    /\ UNCHANGED <<peerId, age, callbacks>>
    /\ UNCHANGED <<start, updated, stable>>

\* handleHeartbeatMessage
ReceiveHeartbeat(g, m) ==
    /\ m.type = "heartbeat"
    /\ \E rest \in SUBSET net :
          /\ Arrives(g, m, rest)
          /\ Send({MessageOf(g, "approval", m.from, m.peer, 0, m.nonce)}, rest)
    /\ UNCHANGED <<start, peerId, age, nonces, callbacks, updated, stable>>

Receive(g, m) ==
    ReceiveRegister(g, m) \/ ReceiveApproval(g, m) \/ ReceiveHeartbeat(g, m)

-----------------------------------------------------------------------------
(***************************************************************************)
(* Calls of the application, time and failures                             *)
(***************************************************************************)

\* register(): the signer saw h under the peer id p in a request.  An active h
\* answers the callback at once and changes nothing.
RegisterCall(g, h, p) ==
    /\ ~stable /\ g # h /\ p \in 1 .. start[h] /\ ~Active(g, h)
    /\ FreeIds(g) # {}
    /\ callbacks' = [callbacks EXCEPT ![g] = @ \cup {h}]
    /\ LET id == FreeId(g)
           n == [id |-> id, age |-> 0]
       IN  /\ SetNonces(g, Cleared([nonces[g] EXCEPT ![h] = @ \cup {n}]))
           /\ Send({MessageOf(g, "register", h, p, id, 0)}, net)
    /\ UNCHANGED <<start, peerId, age, updated, stable>>

\* changePks() with the same keys: everything known is forgotten, and update()
\* registers again when a threshold is set.
ChangePks(g) ==
    /\ ~stable
    /\ peerId' = [peerId EXCEPT ![g] = [h \in Guard |-> 0]]
    /\ age' = [age EXCEPT ![g] = [h \in Guard |-> ActiveTimeout + 1]]
    /\ callbacks' = [callbacks EXCEPT ![g] = {}]
    /\ LET empty == [h \in Guard |-> {}]
       IN  \E need \in Threshold :
           IF 1 < need
           THEN /\ FreeIds(g) # {}
                /\ SetNonces(g, WithNonce(empty, -1, FreeId(g)))
                /\ Send({MessageOf(g, "register", h, 0, FreeId(g), 0) :
                           h \in Guard \ {g}}, net)
           ELSE SetNonces(g, empty) /\ UNCHANGED net
    /\ UNCHANGED <<start, updated, stable>>

\* The process of g dies and starts again under a new peer id.
Restart(g) ==
    /\ ~stable /\ g \in Restarting /\ start[g] < MaxStarts
    /\ start' = [start EXCEPT ![g] = @ + 1]
    /\ peerId' = [peerId EXCEPT ![g] = [h \in Guard |-> 0]]
    /\ age' = [age EXCEPT ![g] = [h \in Guard |-> ActiveTimeout + 1]]
    /\ callbacks' = [callbacks EXCEPT ![g] = {}]
    /\ nonces' = [nonces EXCEPT ![g] = [h \in Guard |-> {}]]
    /\ updated' = [updated EXCEPT ![g] = FALSE]
    /\ UNCHANGED <<net, stable>>

Older(a, cap) == IF a < cap THEN a + 1 ELSE cap

\* A tick passes; handleMessage rejects what is then too old.  In a stable
\* network nothing stays under way and update() runs in every tick.
Tick ==
    /\ stable => /\ \A m \in net : ~Reaches(m)
                 /\ \A g \in Guard : updated[g]
    /\ age' = [g \in Guard |-> [h \in Guard |-> Older(age[g][h], ActiveTimeout + 1)]]
    /\ nonces' = [g \in Guard |-> [h \in Guard |->
                    {[n EXCEPT !.age = Older(@, MessageValid + 1)] : n \in nonces[g][h]}]]
    /\ net' = {[m EXCEPT !.age = @ + 1] : m \in {x \in net : x.age < MessageValid}}
    /\ updated' = [g \in Guard |-> FALSE]
    /\ UNCHANGED <<start, peerId, callbacks, stable>>

Stabilize ==
    /\ Settles /\ ~stable
    /\ stable' = TRUE
    /\ UNCHANGED <<start, peerId, age, nonces, callbacks, net, updated>>

Next ==
    \/ Tick
    \/ Stabilize
    \/ \E g \in Guard :
          \/ InitCall(g)
          \/ UpdateCall(g)
          \/ ChangePks(g)
          \/ Restart(g)
          \/ \E m \in net : Receive(g, m)
          \/ \E h \in Guard, p \in 1 .. MaxStarts : RegisterCall(g, h, p)

Spec == Init /\ [][Next]_vars

\* The network becomes stable for ever; from then on update() is called and
\* messages are delivered in every tick.
Fairness ==
    /\ WF_vars(Stabilize)
    /\ WF_vars(Tick)
    /\ \A g \in Guard :
          /\ WF_vars(stable /\ UpdateCall(g))
          /\ WF_vars(stable /\ \E m \in net : Receive(g, m))

FairSpec == Spec /\ Fairness

-----------------------------------------------------------------------------
(***************************************************************************)
(* Properties                                                              *)
(***************************************************************************)

\* An approval of an earlier process of a guard that arrives late or twice
\* (handleApproveMessage) never replaces the peer id of a later one: a guard
\* moves on to newer processes only, or forgets (changePks, its own restart).
PeerNeverGoesBack ==
    [][\A g, h \in Guard : peerId'[g][h] # peerId[g][h] =>
          peerId'[g][h] = 0 \/ peerId'[g][h] > peerId[g][h]]_vars

\* However many nonces are outstanding, no approval under way that g would accept
\* comes from an older process than the one g knows: handleApproveMessage uses up
\* all of them, not only the one answered.
AcceptableIsLatest ==
    \A m \in net : m.type = "approval"
        /\ m.received \in Ids(Clear(nonces[m.to][m.from]))
            => m.peer >= peerId[m.to][m.from]

\* The doc of addNonce: a nonce added for a selected guard is added to that guard
\* only (elsewhere it would hold up the heartbeats and registers of others).
NonceOfSelected ==
    \A m \in net, k \in Guard :
        m.type = "heartbeat" /\ m.nonce \in Ids(nonces[m.from][k]) => k = m.to

\* Once the network is stable every guard comes to know as many active guards as
\* it needs, under the peer ids of their present processes, and the heartbeats of
\* update() keep it so for ever.
EnoughActive(g) ==
    Cardinality({h \in Guard : Active(g, h) /\ peerId[g][h] = start[h]}) + 1 >= Need

Converge == \A g \in Guard : <>[]EnoughActive(g)
=============================================================================
