---------------------------- MODULE MultiSig_proofs ----------------------------
(***************************************************************************)
(* Proofs about MultiSig, for any number of guards and any bounds: the     *)
(* type invariant, the callers and the queue, the signed transactions, the *)
(* commitments an entry holds and the ones a round is initiated with.      *)
(***************************************************************************)
EXTENDS MultiSig, TLAPS, FiniteSetTheorems

-----------------------------------------------------------------------------
(***************************************************************************)
(* Lemmas about the data                                                   *)
(***************************************************************************)

LEMMA Bags == {} \in Bag /\ \A s \in SUBSET Commitment : {s} \in Bag
<1>1. Cardinality({}) = 0 /\ \A s : Cardinality({s}) = 1
  BY FS_EmptySet, FS_Singleton
<1> QED BY <1>1 DEF Bag

LEMMA NewEntryType == NewEntry \in Entry
BY ConstantsAssumption, Bags DEF NewEntry, Entry, Guard

\* What a guard keeps is of its type.
LEMMA KeptType ==
    ASSUME TypeOK
    PROVE  /\ entry \in [Guard -> Entry] /\ sem \in [Guard -> Task]
           /\ \A g \in Guard : entry[g] \in Entry /\ sem[g] \in Task
BY DEF TypeOK

LEMMA EmptyBag == {{}} \in Bag
BY Bags

LEMMA CoordinatedType ==
    ASSUME NEW e \in Entry, NEW c \in Guard
    PROVE  Coordinated(e, c) \in Entry /\ Clean(e) \in Entry
<1>1. c \in -1 .. N - 1
  BY ConstantsAssumption DEF Guard
<1>2. \A f \in Entry : [f EXCEPT !.coord = c] \in Entry
  BY <1>1 DEF Entry
<1>3. Clean(e) \in Entry
  BY EmptyBag DEF Clean, Entry
<1> QED BY <1>2, <1>3 DEF Coordinated

LEMMA FreshType ==
    ASSUME TypeOK, NEW g \in Guard, made[g] < MaxSecrets
    PROVE  Fresh(g) \in Commitment
BY ConstantsAssumption DEF Fresh, Commitment, TypeOK

LEMMA CommittedType ==
    ASSUME TypeOK, NEW g \in Guard, made[g] < MaxSecrets,
           NEW e \in Entry, NEW c \in Guard
    PROVE  Committed(g, e, c) \in Entry
<1> DEFINE f == Coordinated(e, c)
<1>1. f \in Entry
  BY CoordinatedType
<1>2. Put(f.cmts, Fresh(g)) \in SUBSET Commitment
  BY <1>1, FreshType DEF Put, Entry
<1>3. made[g] + 1 \in 0 .. MaxSecrets
  BY ConstantsAssumption DEF TypeOK
<1> HIDE DEF f
<1>4. [f EXCEPT !.secret = made[g] + 1, !.cmts = Put(@, Fresh(g))] \in Entry
  BY <1>1, <1>2, <1>3 DEF Entry
<1> QED BY <1>4 DEF Committed, f

LEMMA MessageType ==
    ASSUME NEW g \in Guard, NEW to \in (SUBSET Guard) \ {{}}, NEW p \in 1 .. MaxStarts
    PROVE  /\ Message(g, "generate", to, p, {}) \in AnyMessage
           /\ \A c \in Commitment : Message(g, "commitment", to, p, c) \in AnyMessage
           /\ \A b \in [cmts : SUBSET Commitment, sim : Bag] :
                 Message(g, "initiate", to, p, b) \in AnyMessage
           /\ \A r \in Proof : Message(g, "sign", to, p, r) \in AnyMessage
           /\ \A tx \in SignedTx : Message(g, "signedTx", to, p, tx) \in AnyMessage
BY ConstantsAssumption DEF Message, AnyMessage, InitiateMessage, Messages

\* What is known of a message from its type.
LEMMA BodyType ==
    ASSUME NEW m \in AnyMessage
    PROVE  /\ m.from \in Guard /\ m.to \in (SUBSET Guard) \ {{}}
           /\ m.peer \in 1 .. MaxStarts
           /\ m.type = "commitment" => m.body \in Commitment
           /\ m.type = "initiate" => m.body \in [cmts : SUBSET Commitment, sim : Bag]
           /\ m.type = "sign" => m.body \in Proof
           /\ m.type = "signedTx" => m.body \in SignedTx
BY DEF AnyMessage, InitiateMessage, Messages

LEMMA ReaddressedType ==
    ASSUME NEW m \in AnyMessage, NEW to \in (SUBSET Guard) \ {{}}
    PROVE  [m EXCEPT !.to = to] \in AnyMessage
BY DEF AnyMessage, InitiateMessage, Messages

LEMMA AgedType ==
    ASSUME NEW m \in AnyMessage, m.age < MessageValid
    PROVE  [m EXCEPT !.age = @ + 1] \in AnyMessage
BY ConstantsAssumption DEF AnyMessage, InitiateMessage, Messages

LEMMA AfterType ==
    ASSUME net \subseteq AnyMessage, NEW g \in Guard, NEW m \in net,
           NEW rest \in After(g, m)
    PROVE  rest \subseteq AnyMessage
<1>1. m \in AnyMessage
  OBVIOUS
<1>2. m.to # {g} => m.to \ {g} \in (SUBSET Guard) \ {{}}
  BY <1>1, BodyType
<1>3. m.to # {g} => [m EXCEPT !.to = @ \ {g}] \in AnyMessage
  <2> SUFFICES ASSUME m.to # {g} PROVE [m EXCEPT !.to = m.to \ {g}] \in AnyMessage
    OBVIOUS
  <2> QED BY <1>1, <1>2, ReaddressedType
<1> QED BY <1>3 DEF After, Without

LEMMA SendType ==
    ASSUME NEW rest, rest \subseteq AnyMessage,
           NEW m, m.to = {} \/ m \in AnyMessage, SendTo(rest, m)
    PROVE  net' \subseteq AnyMessage
BY DEF SendTo

-----------------------------------------------------------------------------
(***************************************************************************)
(* The type invariant                                                      *)
(***************************************************************************)

LEMMA TypeInit == Init => TypeOK
<1> SUFFICES ASSUME Init PROVE TypeOK
  OBVIOUS
<1>1. Free \in Task
  BY DEF Task
<1> QED BY <1>1, ConstantsAssumption, NewEntryType DEF Init, TypeOK, Guard

LEMMA DeleteType ==
    ASSUME TypeOK, NEW g \in Guard, Delete(g)
    PROVE  /\ queued' \in [Guard -> BOOLEAN]
           /\ entry' \in [Guard -> Entry]
           /\ promise' \in [Guard -> {"none", "pending", "over"}]
           /\ starting' \in [Guard -> [Caller -> {"no", "held", "stale"}]]
<1>1. [c \in Caller |-> IF starting[g][c] = "held" THEN "stale" ELSE starting[g][c]]
        \in [Caller -> {"no", "held", "stale"}]
  BY DEF TypeOK
<1>2. starting' \in [Guard -> [Caller -> {"no", "held", "stale"}]]
  BY <1>1 DEF TypeOK, Delete
<1>3. promise' \in [Guard -> {"none", "pending", "over"}]
  BY DEF TypeOK, Delete, Settle
<1> QED BY <1>2, <1>3, NewEntryType DEF TypeOK, Delete

LEMMA StartsTurnType ==
    ASSUME TypeOK, NEW g \in Guard, StartsTurn(g)
    PROVE  starting' \in [Guard -> [Caller -> {"no", "held", "stale"}]]
BY DEF TypeOK, StartsTurn

LEMMA InitiateType ==
    ASSUME TypeOK, NEW g \in Guard, NEW c \in Caller, Initiate(g, c)
    PROVE  TypeOK'
<1> DEFINE e == IF starting[g][c] = "held"
                THEN [Clean(entry[g]) EXCEPT !.coord = g] ELSE entry[g]
<1>1. e \in Entry
  <2>1. entry[g] \in Entry /\ Clean(entry[g]) \in Entry
    BY CoordinatedType DEF TypeOK
  <2>2. g \in -1 .. N - 1
    BY ConstantsAssumption DEF Guard
  <2>3. \A f \in Entry : [f EXCEPT !.coord = g] \in Entry
    BY <2>2 DEF Entry
  <2> QED BY <2>1, <2>3
<1>2. \/ made' = made /\ entry' = [entry EXCEPT ![g] = e]
      \/ /\ made[g] < MaxSecrets /\ made' = [made EXCEPT ![g] = @ + 1]
         /\ entry' = [entry EXCEPT ![g] = Committed(g, e, turn)]
  BY DEF Initiate
<1> HIDE DEF e
<1>3. made' \in [Guard -> 0 .. MaxSecrets] /\ entry' \in [Guard -> Entry]
  <2>1. CASE made' = made /\ entry' = [entry EXCEPT ![g] = e]
    BY <1>1, <2>1 DEF TypeOK
  <2>2. CASE /\ made[g] < MaxSecrets /\ made' = [made EXCEPT ![g] = @ + 1]
             /\ entry' = [entry EXCEPT ![g] = Committed(g, e, turn)]
    <3>1. turn \in Guard
      BY DEF TypeOK
    <3>2. Committed(g, e, turn) \in Entry
      BY <1>1, <2>2, <3>1, CommittedType
    <3>3. made[g] + 1 \in 0 .. MaxSecrets
      BY <2>2, ConstantsAssumption DEF TypeOK
    <3> QED BY <2>2, <3>2, <3>3 DEF TypeOK
  <2> QED BY <1>2, <2>1, <2>2
<1>4. net' \subseteq AnyMessage
  <2> DEFINE m == Message(g, "generate", Others(g), start[g], {})
  <2>1. start[g] \in 1 .. MaxStarts
    BY DEF TypeOK
  <2>2. Others(g) # {} => m \in AnyMessage
    <3> SUFFICES ASSUME Others(g) # {} PROVE m \in AnyMessage
      OBVIOUS
    <3>1. Others(g) \in (SUBSET Guard) \ {{}}
      BY DEF Others
    <3> QED BY <2>1, <3>1, MessageType
  <2>3. m.to = Others(g)
    BY DEF Message
  <2> QED BY <2>2, <2>3, SendType DEF Initiate, Send, TypeOK
<1>5. starting' \in [Guard -> [Caller -> {"no", "held", "stale"}]]
  BY DEF TypeOK, Initiate
<1> QED BY <1>3, <1>4, <1>5 DEF TypeOK, Initiate

LEMMA ReceiveGenerateType ==
    ASSUME TypeOK, NEW g \in Guard, ReceiveGenerate(g)
    PROVE  TypeOK'
<1>1. PICK m \in net :
        /\ made[g] < MaxSecrets
        /\ entry' = [entry EXCEPT ![g] = Committed(g, entry[g], m.from)]
        /\ made' = [made EXCEPT ![g] = @ + 1]
        /\ \E rest \in After(g, m) :
              SendTo(rest, Message(g, "commitment", {m.from}, start[g], Fresh(g)))
  BY DEF ReceiveGenerate, Arriving
<1>2. m.from \in Guard
  BY BodyType DEF TypeOK
<1>3. entry' \in [Guard -> Entry]
  <2>1. Committed(g, entry[g], m.from) \in Entry
    BY <1>1, <1>2, CommittedType DEF TypeOK
  <2> QED BY <1>1, <2>1 DEF TypeOK
<1>4. made' \in [Guard -> 0 .. MaxSecrets]
  BY <1>1, ConstantsAssumption DEF TypeOK
<1>5. net' \subseteq AnyMessage
  <2>1. PICK rest \in After(g, m) :
          SendTo(rest, Message(g, "commitment", {m.from}, start[g], Fresh(g)))
    BY <1>1
  <2>2. rest \subseteq AnyMessage
    BY AfterType DEF TypeOK
  <2>3. Fresh(g) \in Commitment
    BY <1>1, FreshType
  <2>4. start[g] \in 1 .. MaxStarts
    BY DEF TypeOK
  <2>5. {m.from} \in (SUBSET Guard) \ {{}}
    BY <1>2
  <2>6. Message(g, "commitment", {m.from}, start[g], Fresh(g)) \in AnyMessage
    BY <2>3, <2>4, <2>5, MessageType
  <2> QED BY <2>1, <2>2, <2>6, SendType
<1> QED BY <1>3, <1>4, <1>5 DEF TypeOK, ReceiveGenerate

\* What an arriving message brings and what is then under way.
LEMMA ArrivingType ==
    ASSUME TypeOK, NEW g \in Guard, NEW type, NEW m \in Arriving(g, type)
    PROVE  m \in AnyMessage /\ m.type = type
           /\ (net' \in After(g, m) => net' \subseteq AnyMessage)
<1>1. m \in net /\ m.type = type
  BY DEF Arriving
<1> QED BY <1>1, AfterType DEF TypeOK

LEMMA AcquireType ==
    ASSUME TypeOK, NEW g \in Guard, Acquire(g)
    PROVE  queued' \in [Guard -> BOOLEAN]
BY DEF TypeOK, Acquire

LEMMA ReceiveCommitmentType ==
    ASSUME TypeOK, NEW g \in Guard, ReceiveCommitment(g)
    PROVE  TypeOK'
<1> DEFINE cmts(m) == Put(entry[g].cmts, m.body)
<1>1. PICK m \in Arriving(g, "commitment") :
        /\ Acquire(g)
        /\ \/ UNCHANGED <<entry, sem>>
           \/ /\ entry' = [entry EXCEPT ![g].cmts = cmts(m)]
              /\ \/ sem' = [sem EXCEPT ![g] = [at |-> "simulate", cmts |-> cmts(m)]]
                 \/ sem' = sem
        /\ net' \in After(g, m)
  BY DEF ReceiveCommitment
<1>2. m \in AnyMessage /\ m.type = "commitment" /\ net' \subseteq AnyMessage
  BY <1>1, ArrivingType
<1>3. cmts(m) \in SUBSET Commitment
  BY <1>2, BodyType DEF Put, TypeOK, Entry
<1> HIDE DEF cmts
<1>4. [at |-> "simulate", cmts |-> cmts(m)] \in Task
  BY <1>3 DEF Task
<1>5. [entry[g] EXCEPT !.cmts = cmts(m)] \in Entry
  BY <1>3, KeptType DEF Entry
<1>6. entry' \in [Guard -> Entry] /\ sem' \in [Guard -> Task]
  BY <1>1, <1>4, <1>5, KeptType
<1> QED BY <1>1, <1>2, <1>6, AcquireType DEF TypeOK, ReceiveCommitment

LEMMA SimulatedType ==
    ASSUME TypeOK, NEW g \in Guard, Simulated(g)
    PROVE  TypeOK'
<1> DEFINE p == [by |-> g, secret |-> entry[g].secret,
                 cmts |-> sem[g].cmts, sim |-> {sem[g].cmts}]
<1>1. sem[g].cmts \in SUBSET Commitment
  BY KeptType DEF Task, Free, Simulated
<1>2. {sem[g].cmts} \in Bag
  BY <1>1, Bags
<1>3. p \in Proof
  BY <1>1, <1>2 DEF Proof, TypeOK, Entry
<1>4. [entry[g] EXCEPT !.sim = {sem[g].cmts}] \in Entry
  BY <1>2, KeptType DEF Entry
<1>5. entry' \in [Guard -> Entry]
  BY <1>4 DEF Simulated, TypeOK
<1>6. sem' = [sem EXCEPT ![g] = [at |-> "prove", proof |-> p]]
  BY DEF Simulated
<1> HIDE DEF p
<1>7. [at |-> "prove", proof |-> p] \in Task
  BY <1>3 DEF Task
<1>8. sem' \in [Guard -> Task]
  BY <1>6, <1>7 DEF TypeOK
<1> QED BY <1>5, <1>8 DEF TypeOK, Simulated

LEMMA ReleaseType ==
    ASSUME TypeOK, NEW g \in Guard, Release(g)
    PROVE  sem' \in [Guard -> Task]
<1>1. Free \in Task
  BY DEF Task
<1> QED BY <1>1 DEF TypeOK, Release

LEMMA ProvedType ==
    ASSUME TypeOK, NEW g \in Guard, Proved(g)
    PROVE  TypeOK'
<1> DEFINE p == sem[g].proof
           to == By(entry[g].cmts) \ {g}
           body == [cmts |-> entry[g].cmts, sim |-> p.sim]
<1>1. p \in Proof
  BY KeptType DEF Task, Free, Proved
<1>2. Put(entry[g].signs, p) \in SUBSET Proof
  BY <1>1 DEF Put, TypeOK, Entry
<1>3. [entry[g] EXCEPT !.signs = Put(entry[g].signs, p)] \in Entry
  BY <1>2, KeptType DEF Entry
<1>4. entry' \in [Guard -> Entry]
  BY <1>3 DEF TypeOK, Proved
<1>5. to \in SUBSET Guard
  BY DEF By, TypeOK, Entry, Commitment
<1>6. body \in [cmts : SUBSET Commitment, sim : Bag]
  BY <1>1 DEF Proof, TypeOK, Entry
<1>7. SendTo(net, Message(g, "initiate", to, start[g], body))
  BY DEF Proved, Send
<1> HIDE DEF to, body
<1>8. net' \subseteq AnyMessage
  <2>1. start[g] \in 1 .. MaxStarts
    BY DEF TypeOK
  <2>2. to # {} => to \in (SUBSET Guard) \ {{}}
    BY <1>5
  <2>3. to # {} => Message(g, "initiate", to, start[g], body) \in AnyMessage
    BY <1>6, <2>1, <2>2, MessageType
  <2>4. Message(g, "initiate", to, start[g], body).to = to
    BY DEF Message
  <2> QED BY <1>7, <2>3, <2>4, SendType DEF TypeOK
<1>9. sem' \in [Guard -> Task]
  BY ReleaseType DEF Proved
<1> QED BY <1>4, <1>8, <1>9 DEF TypeOK, Proved

LEMMA WaitType ==
    ASSUME TypeOK, NEW g \in Guard, Wait(g)
    PROVE  TypeOK'
<1>1. PICK m \in Arriving(g, "initiate") :
        /\ waiting' = [waiting EXCEPT ![g] = @ \cup {m}]
        /\ net' \in After(g, m)
  BY DEF Wait
<1>2. m \in AnyMessage /\ m.type = "initiate" /\ net' \subseteq AnyMessage
  BY <1>1, ArrivingType
<1>3. m \in InitiateMessage
  BY <1>2 DEF AnyMessage, InitiateMessage, Messages
<1> QED BY <1>1, <1>2, <1>3 DEF TypeOK, Wait

LEMMA PrepareType ==
    ASSUME TypeOK, NEW g \in Guard, NEW m \in AnyMessage, m.type = "initiate",
           Prepare(g, m)
    PROVE  sem' \in [Guard -> Task]
<1> DEFINE p == [by |-> g, secret |-> entry[g].secret,
                 cmts |-> m.body.cmts, sim |-> m.body.sim]
           t == [at |-> "answer", to |-> m.from, peer |-> m.peer, proof |-> p]
<1>1. p \in Proof
  BY BodyType DEF Proof, TypeOK, Entry
<1>2. sem' = sem \/ sem' = [sem EXCEPT ![g] = t]
  BY DEF Prepare
<1> HIDE DEF p
<1>3. t \in Task
  BY <1>1, BodyType DEF Task
<1> QED BY <1>2, <1>3 DEF TypeOK

LEMMA ReceiveInitiateType ==
    ASSUME TypeOK, NEW g \in Guard, ReceiveInitiate(g)
    PROVE  TypeOK'
<1>1. CASE \E m \in Arriving(g, "initiate") :
              Prepare(g, m) /\ net' \in After(g, m) /\ UNCHANGED waiting
  <2>1. PICK m \in Arriving(g, "initiate") :
          Prepare(g, m) /\ net' \in After(g, m) /\ UNCHANGED waiting
    BY <1>1
  <2>2. m \in AnyMessage /\ m.type = "initiate" /\ net' \subseteq AnyMessage
    BY <2>1, ArrivingType
  <2>3. sem' \in [Guard -> Task]
    BY <2>1, <2>2, PrepareType
  <2> QED BY <2>1, <2>2, <2>3, AcquireType DEF TypeOK, Prepare
<1>2. CASE \E m \in waiting[g] :
              Prepare(g, m) /\ waiting' = [waiting EXCEPT ![g] = @ \ {m}] /\ UNCHANGED net
  <2>1. PICK m \in waiting[g] :
          Prepare(g, m) /\ waiting' = [waiting EXCEPT ![g] = @ \ {m}] /\ UNCHANGED net
    BY <1>2
  <2>2. m \in InitiateMessage
    BY DEF TypeOK
  <2>3. m \in AnyMessage /\ m.type = "initiate"
    BY <2>2 DEF AnyMessage, InitiateMessage, Messages
  <2>4. sem' \in [Guard -> Task]
    BY <2>1, <2>2, <2>3, PrepareType
  <2>5. waiting' \in [Guard -> SUBSET InitiateMessage]
    BY <2>1 DEF TypeOK
  <2> QED BY <2>1, <2>4, <2>5, AcquireType DEF TypeOK, Prepare
<1> QED BY <1>1, <1>2 DEF ReceiveInitiate

LEMMA AnsweredType ==
    ASSUME TypeOK, NEW g \in Guard, Answered(g)
    PROVE  TypeOK'
<1>1. sem[g].proof \in Proof /\ sem[g].to \in Guard
  BY DEF TypeOK, Task, Free, Answered
<1>2. start[g] \in 1 .. MaxStarts /\ {sem[g].to} \in (SUBSET Guard) \ {{}}
  BY <1>1 DEF TypeOK
<1>3. Message(g, "sign", {sem[g].to}, start[g], sem[g].proof) \in AnyMessage
  BY <1>1, <1>2, MessageType
<1>4. net' \subseteq AnyMessage
  BY <1>3, SendType DEF Answered, Send, TypeOK
<1>5. sem' \in [Guard -> Task]
  BY ReleaseType DEF Answered
<1> QED BY <1>4, <1>5 DEF TypeOK, Answered

LEMMA CombinedType ==
    ASSUME NEW e \in Entry, NEW txs \in Combined(e)
    PROVE  txs \subseteq SignedTx
<1>1. By(e.signs) \in SUBSET Guard
  BY DEF By, Entry, Proof
<1>2. \A valid \in BOOLEAN : [valid |-> valid, by |-> By(e.signs)] \in SignedTx
  BY <1>1 DEF SignedTx
<1>3. \/ txs = {}
      \/ \E valid \in BOOLEAN : txs = {[valid |-> valid, by |-> By(e.signs)]}
  BY DEF Combined
<1> QED BY <1>2, <1>3

LEMMA ReceiveSignType ==
    ASSUME TypeOK, NEW g \in Guard, ReceiveSign(g)
    PROVE  TypeOK'
<1> DEFINE e(m) == [entry[g] EXCEPT !.signs = Put(entry[g].signs, m.body)]
<1>1. PICK m \in Arriving(g, "sign") :
        /\ Acquire(g)
        /\ \/ UNCHANGED <<entry, local>>
           \/ /\ entry' = [entry EXCEPT ![g] = e(m)]
              /\ \/ local' = local
                 \/ \E txs \in Combined(e(m)) : local' = [local EXCEPT ![g] = @ \cup txs]
        /\ net' \in After(g, m)
  BY DEF ReceiveSign
<1>2. m \in AnyMessage /\ m.type = "sign" /\ net' \subseteq AnyMessage
  BY <1>1, ArrivingType
<1>3. Put(entry[g].signs, m.body) \in SUBSET Proof
  BY <1>2, BodyType DEF Put, TypeOK, Entry
<1>4. e(m) \in Entry
  BY <1>3, KeptType DEF Entry
<1> HIDE DEF e
<1>5. entry' \in [Guard -> Entry]
  BY <1>1, <1>4 DEF TypeOK
<1>6. local' \in [Guard -> SUBSET SignedTx]
  <2>1. \A txs \in Combined(e(m)) : txs \subseteq SignedTx
    BY <1>4, CombinedType
  <2> QED BY <1>1, <2>1 DEF TypeOK
<1> QED BY <1>1, <1>2, <1>5, <1>6, AcquireType DEF TypeOK, ReceiveSign

LEMMA VerifyLocalType ==
    ASSUME TypeOK, NEW g \in Guard, VerifyLocal(g)
    PROVE  TypeOK'
<1>1. PICK tx \in local[g] :
        /\ Acquire(g)
        /\ sem' = [sem EXCEPT ![g] = [at |-> "verify", tx |-> tx, own |-> TRUE]]
        /\ local' = [local EXCEPT ![g] = @ \ {tx}]
  BY DEF VerifyLocal
<1>2. tx \in SignedTx
  BY DEF TypeOK
<1>3. [at |-> "verify", tx |-> tx, own |-> TRUE] \in Task
  BY <1>2 DEF Task
<1>4. sem' \in [Guard -> Task] /\ local' \in [Guard -> SUBSET SignedTx]
  BY <1>1, <1>3 DEF TypeOK
<1> QED BY <1>1, <1>4, AcquireType DEF TypeOK, VerifyLocal

LEMMA ReceiveSignedType ==
    ASSUME TypeOK, NEW g \in Guard, ReceiveSigned(g)
    PROVE  TypeOK'
<1>1. PICK m \in Arriving(g, "signedTx") :
        /\ Acquire(g)
        /\ sem' = [sem EXCEPT ![g] = [at |-> "verify", tx |-> m.body, own |-> FALSE]]
        /\ net' \in After(g, m)
  BY DEF ReceiveSigned
<1>2. m \in AnyMessage /\ m.type = "signedTx" /\ net' \subseteq AnyMessage
  BY <1>1, ArrivingType
<1>3. m.body \in SignedTx
  BY <1>2, BodyType
<1>4. [at |-> "verify", tx |-> m.body, own |-> FALSE] \in Task
  BY <1>3 DEF Task
<1>5. sem' \in [Guard -> Task]
  BY <1>1, <1>4 DEF TypeOK
<1> QED BY <1>1, <1>2, <1>5, AcquireType DEF TypeOK, ReceiveSigned

LEMMA BroadcastType ==
    ASSUME TypeOK, NEW g \in Guard, sem[g].at = "verify", Broadcast(g)
    PROVE  net' \subseteq AnyMessage
<1> DEFINE m == Message(g, "signedTx", Others(g), start[g], sem[g].tx)
<1>1. sem[g].tx \in SignedTx
  BY DEF TypeOK, Task, Free
<1>2. start[g] \in 1 .. MaxStarts
  BY DEF TypeOK
<1>3. Others(g) # {} => m \in AnyMessage
  <2> SUFFICES ASSUME Others(g) # {} PROVE m \in AnyMessage
    OBVIOUS
  <2>1. Others(g) \in (SUBSET Guard) \ {{}}
    BY DEF Others
  <2> QED BY <1>1, <1>2, <2>1, MessageType
<1>4. m.to = Others(g)
  BY DEF Message
<1> QED BY <1>3, <1>4, SendType DEF Broadcast, Send, TypeOK

LEMMA VerifiedType ==
    ASSUME TypeOK, NEW g \in Guard, Verified(g)
    PROVE  TypeOK'
<1>1. net' \subseteq AnyMessage
  BY BroadcastType DEF Verified
<1>2. sem' \in [Guard -> Task]
  BY ReleaseType DEF Verified
<1>3. Delete(g)
  BY DEF Verified
<1> QED BY <1>1, <1>2, <1>3, DeleteType DEF TypeOK, Verified

LEMMA FailType ==
    ASSUME TypeOK, NEW g \in Guard, Fail(g)
    PROVE  TypeOK'
<1>1. net' \subseteq AnyMessage
  BY BroadcastType DEF Fail, TypeOK
<1>2. sem' \in [Guard -> Task]
  BY ReleaseType DEF Fail, ReleaseAfterError
<1> QED BY <1>1, <1>2 DEF TypeOK, Fail

LEMMA CleanupType ==
    ASSUME TypeOK, NEW g \in Guard, Cleanup(g)
    PROVE  TypeOK'
<1>1. Delete(g)
  BY DEF Cleanup
<1> QED BY <1>1, DeleteType DEF TypeOK, Cleanup

LEMMA SignCallType ==
    ASSUME TypeOK, NEW g \in Guard, SignCall(g)
    PROVE  TypeOK'
<1>1. [entry[g] EXCEPT !.asked = TRUE] \in Entry
  BY KeptType DEF Entry
<1>2. entry' \in [Guard -> Entry]
  BY <1>1 DEF TypeOK, SignCall
<1>3. promise' \in [Guard -> {"none", "pending", "over"}]
  BY DEF TypeOK, SignCall
<1>4. starting' \in [Guard -> [Caller -> {"no", "held", "stale"}]]
  BY StartsTurnType DEF SignCall, TypeOK
<1>5. Acquire(g)
  BY DEF SignCall
<1> QED BY <1>2, <1>3, <1>4, <1>5, AcquireType DEF TypeOK, SignCall

LEMMA MyTurnType ==
    ASSUME TypeOK, NEW g \in Guard, MyTurn(g)
    PROVE  TypeOK'
BY StartsTurnType DEF TypeOK, MyTurn

LEMMA TickType ==
    ASSUME TypeOK, Tick
    PROVE  TypeOK'
<1>1. turn' \in Guard
  BY ConstantsAssumption DEF TypeOK, Tick, Guard
<1>2. entry' \in [Guard -> Entry]
  <2> DEFINE a(g) == IF queued[g] /\ entry[g].age <= SignTimeout
                     THEN entry[g].age + 1 ELSE entry[g].age
  <2>1. \A g \in Guard : a(g) \in 0 .. SignTimeout + 1
    BY ConstantsAssumption DEF TypeOK, Entry
  <2>2. entry' = [g \in Guard |-> [entry[g] EXCEPT !.age = a(g)]]
    BY DEF Tick
  <2> HIDE DEF a
  <2>3. \A g \in Guard : [entry[g] EXCEPT !.age = a(g)] \in Entry
    BY <2>1, KeptType DEF Entry
  <2> QED BY <2>2, <2>3
<1>3. net' \subseteq AnyMessage
  <2> SUFFICES ASSUME NEW x \in net' PROVE x \in AnyMessage
    OBVIOUS
  <2>1. PICK m \in net :
          /\ m.age < MessageValid \/ m.type # "generate"
          /\ x = IF m.type = "generate" THEN [m EXCEPT !.age = @ + 1] ELSE m
    BY DEF Tick
  <2>2. m \in AnyMessage
    BY DEF TypeOK
  <2> QED BY <2>1, <2>2, AgedType
<1> QED BY <1>1, <1>2, <1>3 DEF TypeOK, Tick

LEMMA RestartType ==
    ASSUME TypeOK, NEW g \in Guard, Restart(g)
    PROVE  TypeOK'
<1>1. entry' \in [Guard -> Entry]
  BY NewEntryType DEF TypeOK, Restart
<1>2. Free \in Task
  BY DEF Task
<1>3. promise' \in [Guard -> {"none", "pending", "over"}]
  BY DEF TypeOK, Restart, Settle
<1>4. start' \in [Guard -> 1 .. MaxStarts]
  BY ConstantsAssumption DEF TypeOK, Restart
<1>5. net' \subseteq AnyMessage
  <2> SUFFICES ASSUME NEW x \in net' PROVE x \in AnyMessage
    OBVIOUS
  <2>1. PICK m \in net : m.to # {g} /\ x = [m EXCEPT !.to = @ \ {g}]
    BY DEF Restart
  <2>2. m \in AnyMessage
    BY DEF TypeOK
  <2>3. m.to \ {g} \in (SUBSET Guard) \ {{}}
    BY <2>1, <2>2, BodyType
  <2>4. [m EXCEPT !.to = m.to \ {g}] \in AnyMessage
    BY <2>2, <2>3, ReaddressedType
  <2> QED BY <2>1, <2>4
<1>6. starting' \in [Guard -> [Caller -> {"no", "held", "stale"}]]
  BY DEF TypeOK, Restart
<1> QED BY <1>1, <1>2, <1>3, <1>4, <1>5, <1>6 DEF TypeOK, Restart

LEMMA TypeNext == TypeOK /\ [Next]_vars => TypeOK'
<1> SUFFICES ASSUME TypeOK, [Next]_vars PROVE TypeOK'
  OBVIOUS
<1>1. CASE UNCHANGED vars
  BY <1>1 DEF vars, TypeOK
<1>2. CASE Tick \/ Lose
  BY <1>2, TickType DEF TypeOK, Lose
<1>3. ASSUME NEW g \in Guard,
             SignCall(g) \/ MyTurn(g) \/ (\E c \in Caller : Initiate(g, c))
      PROVE  TypeOK'
  BY <1>3, SignCallType, MyTurnType, InitiateType
<1>4. ASSUME NEW g \in Guard,
             \/ ReceiveGenerate(g) \/ Wait(g) \/ ReceiveCommitment(g)
             \/ ReceiveInitiate(g) \/ ReceiveSign(g)
      PROVE  TypeOK'
  BY <1>4, ReceiveGenerateType, WaitType, ReceiveCommitmentType,
     ReceiveInitiateType, ReceiveSignType
<1>5. ASSUME NEW g \in Guard,
             \/ VerifyLocal(g) \/ ReceiveSigned(g) \/ Step(g)
             \/ Cleanup(g) \/ Restart(g)
      PROVE  TypeOK'
  BY <1>5, VerifyLocalType, ReceiveSignedType, SimulatedType, ProvedType,
     AnsweredType, VerifiedType, FailType, CleanupType, RestartType DEF Step
<1> QED BY <1>1, <1>2, <1>3, <1>4, <1>5 DEF Next

\* Every variable of MultiSig keeps to its type: the semaphore is held for one
\* task that has what the rest of its handler reads, a message carries what its
\* handler reads, and what waits for a semaphore is an initiateSign.
THEOREM TypeCorrect == Spec => []TypeOK
<1>1. Init => TypeOK
  BY TypeInit
<1>2. TypeOK /\ [Next]_vars => TypeOK'
  BY TypeNext
<1> QED BY <1>1, <1>2, PTL DEF Spec

-----------------------------------------------------------------------------
(***************************************************************************)
(* The caller of sign()                                                    *)
(***************************************************************************)

LEMMA CommittedKeeps ==
    ASSUME TypeOK, NEW g \in Guard, made[g] < MaxSecrets,
           NEW e \in Entry, NEW c \in Guard
    PROVE  /\ Committed(g, e, c).asked = e.asked
           /\ Committed(g, e, c).signs \subseteq e.signs
           /\ Committed(g, e, c).coord = c
           /\ \/ Committed(g, e, c).cmts = {Fresh(g)}
              \/ e.coord = c /\ Committed(g, e, c).cmts = Put(e.cmts, Fresh(g))
<1> DEFINE f == Coordinated(e, c)
<1>1. f \in Entry
  BY CoordinatedType
<1>2. /\ f.asked = e.asked /\ f.signs \subseteq e.signs /\ f.coord = c
      /\ f.cmts = {} \/ (e.coord = c /\ f.cmts = e.cmts)
  BY DEF Coordinated, Clean, Entry
<1> HIDE DEF f
<1>3. Committed(g, e, c) =
         [f EXCEPT !.secret = made[g] + 1, !.cmts = Put(@, Fresh(g))]
  BY DEF Committed, f
<1>4. Put({}, Fresh(g)) = {Fresh(g)}
  BY DEF Put
<1> QED BY <1>1, <1>2, <1>3, <1>4 DEF Entry

\* What becomes of the entries when a guard starts its round.
LEMMA InitiateKeeps ==
    ASSUME TypeOK, NEW g \in Guard, NEW c \in Caller, Initiate(g, c)
    PROVE  \E f \in Entry :
              /\ entry' = [entry EXCEPT ![g] = f]
              /\ f.asked = entry[g].asked
              /\ f.signs \subseteq entry[g].signs
              /\ \/ f.cmts \in {{}, {Fresh(g)}}
                 \/ f.cmts = entry[g].cmts /\ f.coord = entry[g].coord
                 \/ f.cmts = Put(entry[g].cmts, Fresh(g)) /\ f.coord = entry[g].coord
<1> DEFINE e == IF starting[g][c] = "held"
                THEN [Clean(entry[g]) EXCEPT !.coord = g] ELSE entry[g]
<1>1. e \in Entry
  <2>1. entry[g] \in Entry /\ Clean(entry[g]) \in Entry
    BY CoordinatedType DEF TypeOK
  <2>2. g \in -1 .. N - 1
    BY ConstantsAssumption DEF Guard
  <2>3. \A f \in Entry : [f EXCEPT !.coord = g] \in Entry
    BY <2>2 DEF Entry
  <2> QED BY <2>1, <2>3
<1>2. /\ e.asked = entry[g].asked /\ e.signs \subseteq entry[g].signs
      /\ e.cmts = {} \/ (e.cmts = entry[g].cmts /\ e.coord = entry[g].coord)
  BY DEF TypeOK, Entry, Clean
<1>3. \/ entry' = [entry EXCEPT ![g] = e]
      \/ /\ made[g] < MaxSecrets
         /\ entry' = [entry EXCEPT ![g] = Committed(g, e, turn)]
  BY DEF Initiate
<1> HIDE DEF e
<1>4. CASE entry' = [entry EXCEPT ![g] = e]
  BY <1>1, <1>2, <1>4
<1>5. CASE /\ made[g] < MaxSecrets
           /\ entry' = [entry EXCEPT ![g] = Committed(g, e, turn)]
  <2> DEFINE f == Committed(g, e, turn)
  <2>1. turn \in Guard
    BY DEF TypeOK
  <2>2. f \in Entry
    BY <1>1, <1>5, <2>1, CommittedType
  <2>3. /\ f.asked = e.asked /\ f.signs \subseteq e.signs /\ f.coord = turn
        /\ \/ f.cmts = {Fresh(g)}
           \/ e.coord = turn /\ f.cmts = Put(e.cmts, Fresh(g))
    BY <1>1, <1>5, <2>1, CommittedKeeps
  <2>4. Put({}, Fresh(g)) = {Fresh(g)}
    BY DEF Put
  <2>5. \/ f.cmts \in {{}, {Fresh(g)}}
        \/ f.cmts = Put(entry[g].cmts, Fresh(g)) /\ f.coord = entry[g].coord
    BY <1>2, <2>3, <2>4
  <2>6. f.asked = entry[g].asked /\ f.signs \subseteq entry[g].signs
    BY <1>2, <2>3
  <2>7. entry' = [entry EXCEPT ![g] = f]
    BY <1>5
  <2> HIDE DEF f
  <2> QED BY <2>2, <2>5, <2>6, <2>7
<1> QED BY <1>3, <1>4, <1>5

LEMMA GenerateKeeps ==
    ASSUME TypeOK, NEW g \in Guard, ReceiveGenerate(g)
    PROVE  \E f \in Entry :
              /\ entry' = [entry EXCEPT ![g] = f]
              /\ f.asked = entry[g].asked
              /\ f.signs \subseteq entry[g].signs
              /\ \/ f.cmts = {Fresh(g)}
                 \/ f.cmts = Put(entry[g].cmts, Fresh(g)) /\ f.coord = entry[g].coord
<1>1. PICK m \in net :
        /\ made[g] < MaxSecrets
        /\ entry' = [entry EXCEPT ![g] = Committed(g, entry[g], m.from)]
  BY DEF ReceiveGenerate, Arriving
<1>2. m.from \in Guard /\ entry[g] \in Entry
  BY BodyType DEF TypeOK
<1> DEFINE f == Committed(g, entry[g], m.from)
<1>3. f \in Entry
  BY <1>1, <1>2, CommittedType
<1>4. /\ f.asked = entry[g].asked /\ f.signs \subseteq entry[g].signs
      /\ f.coord = m.from
      /\ \/ f.cmts = {Fresh(g)}
         \/ entry[g].coord = m.from /\ f.cmts = Put(entry[g].cmts, Fresh(g))
  BY <1>1, <1>2, CommittedKeeps
<1>5. entry' = [entry EXCEPT ![g] = f]
  BY <1>1
<1> HIDE DEF f
<1> QED BY <1>3, <1>4, <1>5

\* Handlers that set one field of the entry keep the others.
LEMMA SimKeeps ==
    ASSUME TypeOK, NEW g \in Guard, NEW x, entry' = [entry EXCEPT ![g].sim = x]
    PROVE  \E f : /\ entry' = [entry EXCEPT ![g] = f]
                  /\ f.asked = entry[g].asked /\ f.coord = entry[g].coord
                  /\ f.sim = x /\ f.signs = entry[g].signs /\ f.cmts = entry[g].cmts
<1> DEFINE f == [entry[g] EXCEPT !.sim = x]
<1>1. entry' = [entry EXCEPT ![g] = f]
  OBVIOUS
<1>2. /\ f.asked = entry[g].asked /\ f.coord = entry[g].coord
      /\ f.sim = x /\ f.signs = entry[g].signs /\ f.cmts = entry[g].cmts
  BY DEF TypeOK, Entry
<1> HIDE DEF f
<1> QED BY <1>1, <1>2

LEMMA SignsKeep ==
    ASSUME TypeOK, NEW g \in Guard, NEW x, entry' = [entry EXCEPT ![g].signs = x]
    PROVE  \E f : /\ entry' = [entry EXCEPT ![g] = f]
                  /\ f.asked = entry[g].asked /\ f.coord = entry[g].coord
                  /\ f.signs = x /\ f.sim = entry[g].sim /\ f.cmts = entry[g].cmts
<1> DEFINE f == [entry[g] EXCEPT !.signs = x]
<1>1. entry' = [entry EXCEPT ![g] = f]
  OBVIOUS
<1>2. /\ f.asked = entry[g].asked /\ f.coord = entry[g].coord
      /\ f.signs = x /\ f.sim = entry[g].sim /\ f.cmts = entry[g].cmts
  BY DEF TypeOK, Entry
<1> HIDE DEF f
<1> QED BY <1>1, <1>2

LEMMA CommitmentsKeep ==
    ASSUME TypeOK, NEW g \in Guard, NEW x, entry' = [entry EXCEPT ![g].cmts = x]
    PROVE  \E f : /\ entry' = [entry EXCEPT ![g] = f]
                  /\ f.asked = entry[g].asked /\ f.coord = entry[g].coord
                  /\ f.cmts = x /\ f.sim = entry[g].sim /\ f.signs = entry[g].signs
<1> DEFINE f == [entry[g] EXCEPT !.cmts = x]
<1>1. entry' = [entry EXCEPT ![g] = f]
  OBVIOUS
<1>2. /\ f.asked = entry[g].asked /\ f.coord = entry[g].coord
      /\ f.cmts = x /\ f.sim = entry[g].sim /\ f.signs = entry[g].signs
  BY DEF TypeOK, Entry
<1> HIDE DEF f
<1> QED BY <1>1, <1>2

LEMMA OrphanInit == Init => NoOrphanedCaller
BY DEF Init, NoOrphanedCaller

LEMMA OrphanNext == TypeOK /\ NoOrphanedCaller /\ [Next]_vars => NoOrphanedCaller'
<1> SUFFICES ASSUME TypeOK, NoOrphanedCaller, [Next]_vars PROVE NoOrphanedCaller'
  OBVIOUS
<1>1. CASE UNCHANGED vars
  BY <1>1 DEF vars, NoOrphanedCaller
<1>2. CASE Tick
  BY <1>2 DEF Tick, NoOrphanedCaller, TypeOK, Entry
<1>3. CASE Lose
  BY <1>3 DEF Lose, NoOrphanedCaller
<1>4. ASSUME NEW g \in Guard, SignCall(g) PROVE NoOrphanedCaller'
  BY <1>4 DEF SignCall, Acquire, NoOrphanedCaller, TypeOK, Entry
<1>5. ASSUME NEW g \in Guard, NEW c \in Caller, Initiate(g, c)
      PROVE  NoOrphanedCaller'
  <2>1. PICK f \in Entry : entry' = [entry EXCEPT ![g] = f] /\ f.asked = entry[g].asked
    BY <1>5, InitiateKeeps
  <2> QED BY <1>5, <2>1 DEF Initiate, NoOrphanedCaller, TypeOK
<1>6. ASSUME NEW g \in Guard, ReceiveGenerate(g) PROVE NoOrphanedCaller'
  <2>1. PICK f \in Entry : entry' = [entry EXCEPT ![g] = f] /\ f.asked = entry[g].asked
    BY <1>6, GenerateKeeps
  <2> QED BY <1>6, <2>1 DEF ReceiveGenerate, NoOrphanedCaller, TypeOK
<1>7. ASSUME NEW g \in Guard, Delete(g) PROVE NoOrphanedCaller'
  BY <1>7 DEF Delete, Settle, NoOrphanedCaller, TypeOK
<1>8. ASSUME NEW g \in Guard, Restart(g) PROVE NoOrphanedCaller'
  BY <1>8 DEF Restart, Settle, NoOrphanedCaller, TypeOK
<1>9. ASSUME NEW g \in Guard,
             \/ ReceiveCommitment(g) \/ ReceiveSign(g) \/ Simulated(g) \/ Proved(g)
      PROVE  NoOrphanedCaller'
  <2>1. \/ entry' = entry
        \/ \E x : entry' = [entry EXCEPT ![g].sim = x]
        \/ \E x : entry' = [entry EXCEPT ![g].signs = x]
        \/ \E x : entry' = [entry EXCEPT ![g].cmts = x]
    BY <1>9, Zenon DEF ReceiveCommitment, ReceiveSign, Simulated, Proved
  <2>2. \/ entry' = entry
        \/ \E f : entry' = [entry EXCEPT ![g] = f] /\ f.asked = entry[g].asked
    BY <2>1, SimKeeps, SignsKeep, CommitmentsKeep
  <2>3. \A h \in Guard : entry'[h].asked = entry[h].asked
    BY <2>2 DEF TypeOK
  <2>4. promise' = promise /\ \A h \in Guard : queued[h] => queued'[h]
    BY <1>9 DEF ReceiveCommitment, ReceiveSign, Simulated, Proved, Acquire, TypeOK
  <2> QED BY <2>3, <2>4 DEF NoOrphanedCaller
<1>10. ASSUME NEW g \in Guard, ReceiveInitiate(g) \/ VerifyLocal(g) \/ ReceiveSigned(g)
       PROVE  NoOrphanedCaller'
  BY <1>10 DEF ReceiveInitiate, Prepare, VerifyLocal, ReceiveSigned, Acquire,
               NoOrphanedCaller, TypeOK
<1>11. ASSUME NEW g \in Guard, MyTurn(g) \/ Wait(g) \/ Answered(g) \/ Fail(g)
       PROVE  NoOrphanedCaller'
  BY <1>11 DEF MyTurn, Wait, Answered, Fail, NoOrphanedCaller
<1> QED BY <1>1, <1>2, <1>3, <1>4, <1>5, <1>6, <1>7, <1>8, <1>9, <1>10, <1>11
        DEF Next, Step, Verified, Cleanup

\* Whatever handlers, time-outs, failures and restarts come between, the promise
\* of the last sign() of a guard is pending only while the guard has the
\* transaction in its queue, with the reject and resolve of a caller.
THEOREM NoOrphanedCallerCorrect == Spec => []NoOrphanedCaller
<1>1. Init => NoOrphanedCaller
  BY OrphanInit
<1>2. TypeOK /\ NoOrphanedCaller /\ [Next]_vars => NoOrphanedCaller'
  BY OrphanNext
<1> QED BY <1>1, <1>2, TypeCorrect, PTL DEF Spec

-----------------------------------------------------------------------------
(***************************************************************************)
(* The commitments of a round                                              *)
(***************************************************************************)

LEMMA CollectedInit == Init => CollectedByCoordinator
BY DEF Init, CollectedByCoordinator, NewEntry, By

LEMMA OwnOnly ==
    ASSUME NEW g \in Guard, NEW cmts
    PROVE  /\ By({}) = {} /\ By({Fresh(g)}) = {g}
           /\ By(cmts) \subseteq {g} => By(Put(cmts, Fresh(g))) \subseteq {g}
<1>1. Fresh(g).by = g
  BY DEF Fresh
<1> QED BY <1>1 DEF By, Put

\* The entry of g becomes f, with commitments as a coordinator may have them.
LEMMA CollectedStep ==
    ASSUME TypeOK, CollectedByCoordinator, NEW g \in Guard, NEW f,
           entry' = [entry EXCEPT ![g] = f],
           By(f.cmts) \subseteq {g} \/ f.coord = g
    PROVE  CollectedByCoordinator'
BY DEF CollectedByCoordinator, TypeOK

LEMMA CollectedNext ==
    TypeOK /\ CollectedByCoordinator /\ [Next]_vars => CollectedByCoordinator'
<1> SUFFICES ASSUME TypeOK, CollectedByCoordinator, [Next]_vars
             PROVE  CollectedByCoordinator'
  OBVIOUS
<1>1. CASE UNCHANGED entry
  BY <1>1 DEF CollectedByCoordinator
<1>2. CASE Tick
  <2>1. \A g \in Guard : entry'[g].cmts = entry[g].cmts /\ entry'[g].coord = entry[g].coord
    BY <1>2 DEF Tick, TypeOK, Entry
  <2> QED BY <2>1 DEF CollectedByCoordinator
<1>3. ASSUME NEW g \in Guard, SignCall(g) PROVE CollectedByCoordinator'
  <2> DEFINE f == [entry[g] EXCEPT !.asked = TRUE]
  <2>1. entry' = [entry EXCEPT ![g] = f]
    BY <1>3 DEF SignCall
  <2>2. f.cmts = entry[g].cmts /\ f.coord = entry[g].coord
    BY DEF TypeOK, Entry
  <2> HIDE DEF f
  <2>3. By(f.cmts) \subseteq {g} \/ f.coord = g
    BY <2>2 DEF CollectedByCoordinator
  <2> QED BY <2>1, <2>3, CollectedStep
<1>4. ASSUME NEW g \in Guard, NEW f \in Entry,
             entry' = [entry EXCEPT ![g] = f],
             \/ f.cmts \in {{}, {Fresh(g)}}
             \/ f.cmts = entry[g].cmts /\ f.coord = entry[g].coord
             \/ f.cmts = Put(entry[g].cmts, Fresh(g)) /\ f.coord = entry[g].coord
      PROVE  CollectedByCoordinator'
  <2>1. By(f.cmts) \subseteq {g} \/ f.coord = g
    BY <1>4, OwnOnly DEF CollectedByCoordinator
  <2> QED BY <1>4, <2>1, CollectedStep
<1>5. ASSUME NEW g \in Guard, NEW c \in Caller, Initiate(g, c)
      PROVE  CollectedByCoordinator'
  BY <1>4, <1>5, InitiateKeeps
<1>6. ASSUME NEW g \in Guard, ReceiveGenerate(g) PROVE CollectedByCoordinator'
  BY <1>4, <1>6, GenerateKeeps
<1>7. ASSUME NEW g \in Guard, entry' = [entry EXCEPT ![g] = NewEntry]
      PROVE  CollectedByCoordinator'
  <2>1. By(NewEntry.cmts) \subseteq {g}
    BY DEF NewEntry, By
  <2> QED BY <1>7, <2>1, CollectedStep
<1>8. ASSUME NEW g \in Guard, ReceiveCommitment(g) PROVE CollectedByCoordinator'
  <2>1. SUFFICES ASSUME entry' # entry PROVE CollectedByCoordinator'
    BY <1>1
  <2>2. PICK m \in Arriving(g, "commitment") :
          /\ entry[g].coord = g
          /\ entry' = [entry EXCEPT ![g].cmts = Put(entry[g].cmts, m.body)]
    BY <1>8, <2>1 DEF ReceiveCommitment, Collects
  <2> DEFINE f == [entry[g] EXCEPT !.cmts = Put(entry[g].cmts, m.body)]
  <2>3. entry' = [entry EXCEPT ![g] = f] /\ f.coord = g
    BY <2>2 DEF TypeOK, Entry
  <2> HIDE DEF f
  <2> QED BY <2>3, CollectedStep
<1>9. ASSUME NEW g \in Guard,
             \/ \E x : entry' = [entry EXCEPT ![g].sim = x]
             \/ \E x : entry' = [entry EXCEPT ![g].signs = x]
      PROVE  CollectedByCoordinator'
  <2>1. PICK f : /\ entry' = [entry EXCEPT ![g] = f]
                 /\ f.cmts = entry[g].cmts /\ f.coord = entry[g].coord
    BY <1>9, SimKeeps, SignsKeep
  <2>2. By(f.cmts) \subseteq {g} \/ f.coord = g
    BY <2>1 DEF CollectedByCoordinator
  <2> QED BY <2>1, <2>2, CollectedStep
<1>10. ASSUME NEW g \in Guard, Simulated(g) \/ Proved(g) \/ ReceiveSign(g)
       PROVE  CollectedByCoordinator'
  BY <1>1, <1>9, <1>10 DEF Simulated, Proved, ReceiveSign
<1>11. ASSUME NEW g \in Guard, Delete(g) \/ Restart(g) PROVE CollectedByCoordinator'
  BY <1>7, <1>11 DEF Delete, Restart
<1>12. ASSUME NEW g \in Guard,
              \/ MyTurn(g) \/ Wait(g) \/ ReceiveInitiate(g) \/ VerifyLocal(g)
              \/ ReceiveSigned(g) \/ Answered(g) \/ Fail(g) \/ Lose
       PROVE  UNCHANGED entry
  BY <1>12 DEF MyTurn, Wait, ReceiveInitiate, Prepare, VerifyLocal,
               ReceiveSigned, Answered, Fail, Lose
<1>13. Lose \/ UNCHANGED vars => UNCHANGED entry
  BY DEF Lose, vars
<1> QED BY <1>1, <1>2, <1>3, <1>5, <1>6, <1>8, <1>10, <1>11, <1>12, <1>13
        DEF Next, Step, Verified, Cleanup

\* No guard but the coordinator of a round holds the commitments of others, and
\* none is left from the round of another coordinator.
THEOREM CollectedByCoordinatorCorrect == Spec => []CollectedByCoordinator
<1>1. Init => CollectedByCoordinator
  BY CollectedInit
<1>2. TypeOK /\ CollectedByCoordinator /\ [Next]_vars => CollectedByCoordinator'
  BY CollectedNext
<1> QED BY <1>1, <1>2, TypeCorrect, PTL DEF Spec

-----------------------------------------------------------------------------
(***************************************************************************)
(* Whose proofs a signed transaction has.  The invariant says that what is *)
(* on its way to being one - a proof in an entry, in a task or under way,  *)
(* a transaction combined, sent or in verification - comes from guards     *)
(* whose application asked for it, and that an entry has one commitment of *)
(* a guard, so that counting commitments counts guards.                    *)
(***************************************************************************)
AskedGuards == {g \in Guard : Asked(g)}

SafeTx(asked, tx) == tx.valid => Enough(tx.by) /\ tx.by \subseteq asked

OneEach(cmts) == \A x, y \in cmts : x.by = y.by => x = y

SafeEntry(asked, g, e) ==
    /\ e.asked => g \in asked
    /\ By(e.signs) \subseteq asked
    /\ OneEach(e.cmts)

SafeTask(asked, g, t) ==
    /\ t.at = "simulate" => g \in asked
    /\ t.at \in {"prove", "answer"} => t.proof.by \in asked
    /\ t.at = "verify" => SafeTx(asked, t.tx)

SafeMessage(asked, m) ==
    /\ m.type = "sign" => m.body.by \in asked
    /\ m.type = "signedTx" => SafeTx(asked, m.body)

SafeEntries == \A g \in Guard : SafeEntry(AskedGuards, g, entry[g])
SafeTasks == \A g \in Guard : SafeTask(AskedGuards, g, sem[g])
SafeLocal == \A g \in Guard : \A tx \in local[g] : SafeTx(AskedGuards, tx)
SafeNet == \A m \in net : SafeMessage(AskedGuards, m)

SafeInv == SafeEntries /\ SafeTasks /\ SafeLocal /\ SafeNet

\* More guards that were asked make nothing unsafe.
LEMMA SafeMonotone ==
    ASSUME NEW A, NEW B, A \subseteq B
    PROVE  /\ \A tx : SafeTx(A, tx) => SafeTx(B, tx)
           /\ \A g, e : SafeEntry(A, g, e) => SafeEntry(B, g, e)
           /\ \A g, t : SafeTask(A, g, t) => SafeTask(B, g, t)
           /\ \A m : SafeMessage(A, m) => SafeMessage(B, m)
<1>1. \A tx : SafeTx(A, tx) => SafeTx(B, tx)
  BY DEF SafeTx
<1>2. \A g, e : SafeEntry(A, g, e) => SafeEntry(B, g, e)
  BY DEF SafeEntry
<1>3. \A g, t : SafeTask(A, g, t) => SafeTask(B, g, t)
  BY <1>1 DEF SafeTask
<1>4. \A m : SafeMessage(A, m) => SafeMessage(B, m)
  BY <1>1 DEF SafeMessage
<1> QED BY <1>1, <1>2, <1>3, <1>4

\* A guard that was asked stays so.
LEMMA AskedStays ==
    ASSUME TypeOK, [Next]_vars
    PROVE  AskedGuards \subseteq AskedGuards'
<1>1. ASSUME NEW g \in Guard,
             promise' = [promise EXCEPT ![g] = "pending"] \/ Settle(g)
      PROVE  AskedGuards \subseteq AskedGuards'
  BY <1>1 DEF Settle, AskedGuards, Asked, TypeOK
<1>2. UNCHANGED promise => AskedGuards \subseteq AskedGuards'
  BY DEF AskedGuards, Asked
<1>3. ASSUME NEW g \in Guard, SignCall(g) \/ Verified(g) \/ Cleanup(g) \/ Restart(g)
      PROVE  promise' = [promise EXCEPT ![g] = "pending"] \/ Settle(g)
  BY <1>3 DEF SignCall, Verified, Cleanup, Restart, Delete
<1>4. ASSUME NEW g \in Guard,
             \/ MyTurn(g) \/ (\E c \in Caller : Initiate(g, c))
             \/ ReceiveGenerate(g) \/ Wait(g) \/ ReceiveCommitment(g)
             \/ ReceiveInitiate(g) \/ ReceiveSign(g) \/ VerifyLocal(g)
             \/ ReceiveSigned(g) \/ Simulated(g) \/ Proved(g) \/ Answered(g) \/ Fail(g)
      PROVE  UNCHANGED promise
  BY <1>4 DEF MyTurn, Initiate, ReceiveGenerate, Wait, ReceiveCommitment,
              ReceiveInitiate, Prepare, ReceiveSign, VerifyLocal, ReceiveSigned,
              Simulated, Proved, Answered, Fail
<1>5. Tick \/ Lose \/ UNCHANGED vars => UNCHANGED promise
  BY DEF Tick, Lose, vars
<1> QED BY <1>1, <1>2, <1>3, <1>4, <1>5 DEF Next, Step

\* Counting the commitments of an entry counts guards.
LEMMA OneEachCounts ==
    ASSUME NEW cmts, OneEach(cmts), NEW S, IsFiniteSet(S), By(cmts) \subseteq S
    PROVE  IsFiniteSet(cmts) /\ Cardinality(cmts) <= Cardinality(S)
<1> DEFINE f == [x \in cmts |-> x.by]
<1>1. f \in Injection(cmts, S)
  BY DEF Injection, IsInjective, OneEach, By
<1> HIDE DEF f
<1> QED BY <1>1, FS_Injection

LEMMA GuardFinite == IsFiniteSet(Guard) /\ \A S \in SUBSET Guard : IsFiniteSet(S)
<1>1. IsFiniteSet(Guard)
  BY ConstantsAssumption, FS_Interval DEF Guard
<1> QED BY <1>1, FS_Subset

\* A guard puts a transaction together from proofs of as many guards as it must.
LEMMA CombinedSafe ==
    ASSUME NEW A, NEW e \in Entry, By(e.signs) \subseteq A, OneEach(e.cmts),
           NEW txs \in Combined(e), NEW tx \in txs
    PROVE  SafeTx(A, tx)
<1> SUFFICES ASSUME tx.valid PROVE Enough(tx.by) /\ tx.by \subseteq A
  BY DEF SafeTx
<1>1. /\ tx.by = By(e.signs)
      /\ Enough(e.cmts) /\ By(Matching(e)) = By(e.cmts)
  BY DEF Combined
<1>2. By(e.cmts) \subseteq By(e.signs)
  BY <1>1 DEF By, Matching
<1>3. By(e.signs) \in SUBSET Guard
  BY DEF By, Entry, Proof
<1>4. IsFiniteSet(By(e.signs))
  BY <1>3, GuardFinite
<1>5. IsFiniteSet(e.cmts) /\ Cardinality(e.cmts) <= Cardinality(By(e.signs))
  BY <1>2, <1>4, OneEachCounts
<1>6. Cardinality(e.cmts) \in Nat /\ Cardinality(By(e.signs)) \in Nat
  BY <1>4, <1>5, FS_CardinalityType
<1>7. Cardinality(e.cmts) >= Need /\ Need \in Nat
  BY <1>1, ConstantsAssumption DEF Enough
<1>8. Cardinality(By(e.signs)) >= Need
  BY <1>5, <1>6, <1>7
<1> QED BY <1>1, <1>8 DEF Enough

LEMMA PutSafe ==
    ASSUME NEW things, NEW x
    PROVE  /\ OneEach(things) => OneEach(Put(things, x))
           /\ By(Put(things, x)) \subseteq By(things) \cup {x.by}
           /\ OneEach({}) /\ OneEach({x})
BY DEF OneEach, Put, By

\* What keeps each part of the invariant over a step.
LEMMA EntriesSafe ==
    ASSUME TypeOK, SafeEntries, AskedGuards \subseteq AskedGuards'
    PROVE  /\ UNCHANGED entry => SafeEntries'
           /\ \A g \in Guard : \A f :
                 (entry' = [entry EXCEPT ![g] = f] /\ SafeEntry(AskedGuards', g, f))
                    => SafeEntries'
<1>1. \A g \in Guard : SafeEntry(AskedGuards', g, entry[g])
  BY SafeMonotone DEF SafeEntries
<1>2. ASSUME NEW g \in Guard, NEW f, entry' = [entry EXCEPT ![g] = f],
             SafeEntry(AskedGuards', g, f)
      PROVE  SafeEntries'
  <2> SUFFICES ASSUME NEW h \in Guard PROVE SafeEntry(AskedGuards', h, entry'[h])
    BY DEF SafeEntries
  <2>1. entry'[h] = IF h = g THEN f ELSE entry[h]
    BY <1>2 DEF TypeOK
  <2> QED BY <1>1, <1>2, <2>1
<1>3. UNCHANGED entry => SafeEntries'
  BY <1>1 DEF SafeEntries
<1> QED BY <1>2, <1>3

LEMMA TasksSafe ==
    ASSUME TypeOK, SafeTasks, AskedGuards \subseteq AskedGuards'
    PROVE  /\ UNCHANGED sem => SafeTasks'
           /\ \A g \in Guard : \A t :
                 (sem' = [sem EXCEPT ![g] = t] /\ SafeTask(AskedGuards', g, t))
                    => SafeTasks'
           /\ \A g \in Guard : Release(g) => SafeTasks'
<1>1. \A g \in Guard : SafeTask(AskedGuards', g, sem[g])
  BY SafeMonotone DEF SafeTasks
<1>2. ASSUME NEW g \in Guard, NEW t, sem' = [sem EXCEPT ![g] = t],
             SafeTask(AskedGuards', g, t)
      PROVE  SafeTasks'
  <2> SUFFICES ASSUME NEW h \in Guard PROVE SafeTask(AskedGuards', h, sem'[h])
    BY DEF SafeTasks
  <2>1. sem'[h] = IF h = g THEN t ELSE sem[h]
    BY <1>2 DEF TypeOK
  <2> QED BY <1>1, <1>2, <2>1
<1>3. UNCHANGED sem => SafeTasks'
  BY <1>1 DEF SafeTasks
<1>4. ASSUME NEW g \in Guard, Release(g) PROVE SafeTasks'
  <2>1. SafeTask(AskedGuards', g, Free)
    BY DEF SafeTask, Free
  <2> QED BY <1>2, <1>4, <2>1 DEF Release
<1> QED BY <1>2, <1>3, <1>4

LEMMA LocalKept ==
    ASSUME SafeLocal, AskedGuards \subseteq AskedGuards', UNCHANGED local
    PROVE  SafeLocal'
<1>1. \A g \in Guard : \A tx \in local[g] : SafeTx(AskedGuards', tx)
  BY SafeMonotone DEF SafeLocal
<1> QED BY <1>1 DEF SafeLocal

LEMMA LocalSafe ==
    ASSUME TypeOK, SafeLocal, AskedGuards \subseteq AskedGuards',
           NEW g \in Guard, NEW txs, local' = [local EXCEPT ![g] = txs],
           \A tx \in txs : tx \in local[g] \/ SafeTx(AskedGuards', tx)
    PROVE  SafeLocal'
<1>1. \A h \in Guard : \A tx \in local[h] : SafeTx(AskedGuards', tx)
  BY SafeMonotone DEF SafeLocal
<1> SUFFICES ASSUME NEW h \in Guard, NEW tx \in local'[h]
             PROVE  SafeTx(AskedGuards', tx)
  BY DEF SafeLocal
<1>2. local'[h] = IF h = g THEN txs ELSE local[h]
  BY DEF TypeOK
<1> QED BY <1>1, <1>2

LEMMA NetSafe ==
    ASSUME TypeOK, SafeNet, AskedGuards \subseteq AskedGuards'
    PROVE  /\ net' \subseteq net => SafeNet'
           /\ \A g \in Guard : \A m \in net : net' \in After(g, m) => SafeNet'
           /\ \A m : SafeMessage(AskedGuards', m) /\ Send(m) => SafeNet'
           /\ \A g \in Guard : \A m \in net : \A x : \A rest \in After(g, m) :
                 SafeMessage(AskedGuards', x) /\ SendTo(rest, x) => SafeNet'
<1>1. \A m \in net : SafeMessage(AskedGuards', m)
  BY SafeMonotone DEF SafeNet
<1>2. ASSUME NEW g \in Guard, NEW m \in net, NEW rest \in After(g, m), NEW x \in rest
      PROVE  SafeMessage(AskedGuards', x)
  <2>1. m \in AnyMessage
    BY DEF TypeOK
  <2>2. [m EXCEPT !.to = m.to \ {g}].type = m.type
        /\ [m EXCEPT !.to = m.to \ {g}].body = m.body
    BY <2>1 DEF AnyMessage, InitiateMessage, Messages
  <2>3. x \in net \/ x = [m EXCEPT !.to = m.to \ {g}]
    BY DEF After, Without
  <2>4. CASE x \in net
    BY <1>1, <2>4
  <2>5. CASE x = [m EXCEPT !.to = m.to \ {g}]
    BY <1>1, <2>2, <2>5 DEF SafeMessage
  <2> QED BY <2>3, <2>4, <2>5
<1>3. ASSUME NEW x, NEW rest, SafeMessage(AskedGuards', x), SendTo(rest, x),
             \A y \in rest : SafeMessage(AskedGuards', y)
      PROVE  SafeNet'
  BY <1>3 DEF SafeNet, SendTo
<1>4. net' \subseteq net => SafeNet'
  BY <1>1 DEF SafeNet
<1>5. ASSUME NEW g \in Guard, NEW m \in net, net' \in After(g, m) PROVE SafeNet'
  BY <1>2, <1>5 DEF SafeNet
<1>6. ASSUME NEW m, SafeMessage(AskedGuards', m), Send(m) PROVE SafeNet'
  BY <1>1, <1>3, <1>6 DEF Send
<1>7. ASSUME NEW g \in Guard, NEW m \in net, NEW x, NEW rest \in After(g, m),
             SafeMessage(AskedGuards', x), SendTo(rest, x)
      PROVE  SafeNet'
  BY <1>2, <1>3, <1>7
<1> QED BY <1>4, <1>5, <1>6, <1>7

LEMMA SafeInit == Init => SafeInv
<1> SUFFICES ASSUME Init PROVE SafeInv
  OBVIOUS
<1>1. \A g \in Guard : SafeEntry(AskedGuards, g, NewEntry)
  BY DEF SafeEntry, NewEntry, By, OneEach
<1>2. \A g \in Guard : SafeTask(AskedGuards, g, Free)
  BY DEF SafeTask, Free
<1> QED BY <1>1, <1>2 DEF Init, SafeInv, SafeEntries, SafeTasks, SafeLocal, SafeNet

\* The steps of a guard in its turn and on generateCommitment.
LEMMA SafeTurn ==
    ASSUME TypeOK, SafeInv, AskedGuards \subseteq AskedGuards', NEW g \in Guard,
           \/ SignCall(g) \/ MyTurn(g) \/ (\E c \in Caller : Initiate(g, c))
           \/ ReceiveGenerate(g)
    PROVE  SafeInv'
<1>1. SafeEntry(AskedGuards', g, entry[g])
  BY SafeMonotone DEF SafeInv, SafeEntries
<1>2. SafeTasks' /\ SafeLocal'
  <2>1. UNCHANGED sem /\ UNCHANGED local
    BY DEF SignCall, MyTurn, Initiate, ReceiveGenerate
  <2> QED BY <2>1, TasksSafe, LocalKept DEF SafeInv
<1>3. ASSUME NEW f \in Entry, entry' = [entry EXCEPT ![g] = f],
             f.asked = entry[g].asked, f.signs \subseteq entry[g].signs,
             \/ f.cmts \in {{}, {Fresh(g)}}
             \/ f.cmts \in {entry[g].cmts, Put(entry[g].cmts, Fresh(g))}
      PROVE  SafeEntries'
  <2>1. OneEach(f.cmts)
    <3>1. OneEach(entry[g].cmts)
      BY <1>1 DEF SafeEntry
    <3>2. OneEach(Put(entry[g].cmts, Fresh(g))) /\ OneEach({}) /\ OneEach({Fresh(g)})
      BY <3>1, PutSafe
    <3> QED BY <1>3, <3>1, <3>2
  <2>2. By(f.signs) \subseteq AskedGuards'
    BY <1>1, <1>3 DEF SafeEntry, By
  <2>3. f.asked => g \in AskedGuards'
    BY <1>1, <1>3 DEF SafeEntry
  <2>4. SafeEntry(AskedGuards', g, f)
    BY <2>1, <2>2, <2>3 DEF SafeEntry
  <2> QED BY <1>3, <2>4, EntriesSafe DEF SafeInv
<1>4. CASE SignCall(g)
  <2> DEFINE f == [entry[g] EXCEPT !.asked = TRUE]
  <2>1. entry' = [entry EXCEPT ![g] = f] /\ UNCHANGED net
    BY <1>4 DEF SignCall
  <2>2. f.signs = entry[g].signs /\ f.cmts = entry[g].cmts
    BY DEF TypeOK, Entry
  <2>3. g \in AskedGuards'
    BY <1>4 DEF SignCall, AskedGuards, Asked, TypeOK
  <2> HIDE DEF f
  <2>4. SafeEntry(AskedGuards', g, f)
    BY <1>1, <2>2, <2>3 DEF SafeEntry
  <2> QED BY <1>2, <2>1, <2>4, EntriesSafe, NetSafe DEF SafeInv
<1>5. CASE MyTurn(g)
  BY <1>2, <1>5, EntriesSafe, NetSafe DEF MyTurn, SafeInv
<1>6. ASSUME NEW c \in Caller, Initiate(g, c) PROVE SafeInv'
  <2>1. SafeEntries'
    BY <1>3, <1>6, InitiateKeeps
  <2>2. SafeMessage(AskedGuards', Message(g, "generate", Others(g), start[g], {}))
    BY DEF SafeMessage, Message
  <2>3. SafeNet'
    BY <1>6, <2>2, NetSafe DEF Initiate, SafeInv
  <2> QED BY <1>2, <2>1, <2>3 DEF SafeInv
<1>7. CASE ReceiveGenerate(g)
  <2>1. SafeEntries'
    BY <1>3, <1>7, GenerateKeeps
  <2>2. PICK m \in net : \E rest \in After(g, m) :
          SendTo(rest, Message(g, "commitment", {m.from}, start[g], Fresh(g)))
    BY <1>7 DEF ReceiveGenerate, Arriving
  <2> DEFINE x == Message(g, "commitment", {m.from}, start[g], Fresh(g))
  <2>3. SafeMessage(AskedGuards', x)
    BY DEF SafeMessage, Message
  <2> HIDE DEF x
  <2>4. SafeNet'
    BY <2>2, <2>3, NetSafe DEF x, SafeInv
  <2> QED BY <1>2, <2>1, <2>4 DEF SafeInv
<1> QED BY <1>4, <1>5, <1>6, <1>7

\* The steps of handleCommitment and initiateSign.
LEMMA SafeRound ==
    ASSUME TypeOK, SafeInv, AskedGuards \subseteq AskedGuards', NEW g \in Guard,
           \/ ReceiveCommitment(g) \/ Simulated(g) \/ Proved(g) \/ Wait(g)
           \/ ReceiveInitiate(g) \/ Answered(g)
    PROVE  SafeInv'
<1>1. /\ SafeEntry(AskedGuards', g, entry[g]) /\ SafeTask(AskedGuards', g, sem[g])
      /\ SafeEntry(AskedGuards, g, entry[g])
  BY SafeMonotone DEF SafeInv, SafeEntries, SafeTasks
<1>2. SafeLocal'
  <2>1. UNCHANGED local
    BY DEF ReceiveCommitment, Simulated, Proved, Wait, ReceiveInitiate, Prepare, Answered
  <2> QED BY <2>1, LocalKept DEF SafeInv
<1>3. CASE ReceiveCommitment(g)
  <2>1. PICK m \in net :
          /\ net' \in After(g, m)
          /\ \/ UNCHANGED <<entry, sem>>
             \/ /\ Known(entry[g])
                /\ entry' = [entry EXCEPT ![g].cmts = Put(entry[g].cmts, m.body)]
                /\ \/ sem' = sem
                   \/ sem' = [sem EXCEPT ![g] =
                                [at |-> "simulate", cmts |-> Put(entry[g].cmts, m.body)]]
    BY <1>3, Zenon DEF ReceiveCommitment, Arriving, Collects
  <2>2. SafeNet'
    BY <2>1, NetSafe DEF SafeInv
  <2>3. SafeEntries'
    <3>1. CASE UNCHANGED entry
      BY <3>1, EntriesSafe DEF SafeInv
    <3>2. CASE entry' = [entry EXCEPT ![g].cmts = Put(entry[g].cmts, m.body)]
      <4>1. PICK x : entry' = [entry EXCEPT ![g].cmts = x] /\ x = Put(entry[g].cmts, m.body)
        BY <3>2
      <4>2. OneEach(x)
        <5>1. OneEach(entry[g].cmts) => OneEach(Put(entry[g].cmts, m.body))
          BY PutSafe
        <5> QED BY <1>1, <4>1, <5>1 DEF SafeEntry
      <4>3. entry' = [entry EXCEPT ![g].cmts = x]
        BY <4>1
      <4>4. PICK f : /\ entry' = [entry EXCEPT ![g] = f]
                     /\ f.asked = entry[g].asked /\ f.coord = entry[g].coord
                     /\ f.cmts = x /\ f.sim = entry[g].sim /\ f.signs = entry[g].signs
        BY <4>3, CommitmentsKeep
      <4>5. SafeEntry(AskedGuards', g, f)
        BY <1>1, <4>2, <4>4 DEF SafeEntry
      <4> QED BY <4>4, <4>5, EntriesSafe DEF SafeInv
    <3> QED BY <2>1, <3>1, <3>2
  <2>4. SafeTasks'
    <3>1. CASE UNCHANGED sem
      BY <3>1, TasksSafe DEF SafeInv
    <3>2. CASE Known(entry[g]) /\ sem' = [sem EXCEPT ![g] =
                  [at |-> "simulate", cmts |-> Put(entry[g].cmts, m.body)]]
      <4>1. SafeTask(AskedGuards', g,
                     [at |-> "simulate", cmts |-> Put(entry[g].cmts, m.body)])
        BY <1>1, <3>2 DEF SafeTask, SafeEntry, Known
      <4> QED BY <3>2, <4>1, TasksSafe DEF SafeInv
    <3> QED BY <2>1, <3>1, <3>2
  <2> QED BY <1>2, <2>2, <2>3, <2>4 DEF SafeInv
<1>4. CASE Simulated(g)
  <2>1. g \in AskedGuards'
    BY <1>1, <1>4 DEF SafeTask, Simulated
  <2> DEFINE t == [at |-> "prove",
                   proof |-> [by |-> g, secret |-> entry[g].secret,
                              cmts |-> sem[g].cmts, sim |-> {sem[g].cmts}]]
  <2>2. SafeTask(AskedGuards', g, t)
    BY <2>1 DEF SafeTask
  <2>3. sem' = [sem EXCEPT ![g] = t] /\ UNCHANGED net
    BY <1>4 DEF Simulated
  <2> HIDE DEF t
  <2>4. PICK f : /\ entry' = [entry EXCEPT ![g] = f]
                 /\ f.asked = entry[g].asked /\ f.signs = entry[g].signs
                 /\ f.cmts = entry[g].cmts
    <3>1. PICK x : entry' = [entry EXCEPT ![g].sim = x]
      BY <1>4 DEF Simulated
    <3> QED BY <3>1, SimKeeps
  <2>5. SafeEntry(AskedGuards', g, f)
    BY <1>1, <2>4 DEF SafeEntry
  <2>6. SafeEntries'
    BY <2>4, <2>5, EntriesSafe DEF SafeInv
  <2>7. SafeTasks' /\ SafeNet'
    BY <2>2, <2>3, TasksSafe, NetSafe DEF SafeInv
  <2> QED BY <1>2, <2>6, <2>7 DEF SafeInv
<1>5. CASE Proved(g)
  <2>1. sem[g].proof.by \in AskedGuards'
    BY <1>1, <1>5 DEF SafeTask, Proved
  <2>2. PICK f : /\ entry' = [entry EXCEPT ![g] = f]
                 /\ f.asked = entry[g].asked /\ f.cmts = entry[g].cmts
                 /\ By(f.signs) \subseteq AskedGuards'
    <3>1. PICK x : /\ entry' = [entry EXCEPT ![g].signs = x]
                   /\ x = Put(entry[g].signs, sem[g].proof)
      BY <1>5 DEF Proved
    <3>2. By(x) \subseteq AskedGuards'
      BY <1>1, <2>1, <3>1, PutSafe DEF SafeEntry
    <3>3. entry' = [entry EXCEPT ![g].signs = x]
      BY <3>1
    <3>4. PICK f : /\ entry' = [entry EXCEPT ![g] = f]
                   /\ f.asked = entry[g].asked /\ f.coord = entry[g].coord
                   /\ f.signs = x /\ f.sim = entry[g].sim /\ f.cmts = entry[g].cmts
      BY <3>3, SignsKeep, Zenon
    <3> QED BY <3>2, <3>4
  <2>3. SafeEntry(AskedGuards', g, f)
    BY <1>1, <2>2 DEF SafeEntry
  <2>4. SafeEntries'
    BY <2>2, <2>3, EntriesSafe DEF SafeInv
  <2> DEFINE body == [cmts |-> entry[g].cmts, sim |-> sem[g].proof.sim]
             m == Message(g, "initiate", By(entry[g].cmts) \ {g}, start[g], body)
  <2>5. Send(m) /\ Release(g)
    BY <1>5 DEF Proved
  <2>6. SafeMessage(AskedGuards', m)
    BY DEF SafeMessage, Message
  <2> HIDE DEF m
  <2>7. SafeNet' /\ SafeTasks'
    BY <2>5, <2>6, NetSafe, TasksSafe DEF SafeInv
  <2> QED BY <1>2, <2>4, <2>7 DEF SafeInv
<1>6. CASE Wait(g)
  <2>1. UNCHANGED <<entry, sem>> /\ \E m \in net : net' \in After(g, m)
    BY <1>6 DEF Wait, Arriving
  <2> QED BY <1>2, <2>1, EntriesSafe, TasksSafe, NetSafe DEF SafeInv
<1>7. CASE ReceiveInitiate(g)
  <2>1. PICK m : /\ Prepare(g, m)
                 /\ UNCHANGED net \/ \E x \in net : net' \in After(g, x)
    BY <1>7 DEF ReceiveInitiate, Arriving
  <2>2. SafeEntries' /\ SafeNet'
    BY <2>1, EntriesSafe, NetSafe DEF Prepare, SafeInv
  <2> DEFINE t == [at |-> "answer", to |-> m.from, peer |-> m.peer,
                   proof |-> [by |-> g, secret |-> entry[g].secret,
                              cmts |-> m.body.cmts, sim |-> m.body.sim]]
  <2>3. UNCHANGED sem \/ (Known(entry[g]) /\ sem' = [sem EXCEPT ![g] = t])
    BY <2>1 DEF Prepare
  <2>4. Known(entry[g]) => SafeTask(AskedGuards', g, t)
    BY <1>1 DEF SafeTask, SafeEntry, Known
  <2> HIDE DEF t
  <2>5. SafeTasks'
    BY <2>3, <2>4, TasksSafe DEF SafeInv
  <2> QED BY <1>2, <2>2, <2>5 DEF SafeInv
<1>8. CASE Answered(g)
  <2>1. SafeEntries' /\ SafeTasks'
    BY <1>8, EntriesSafe, TasksSafe DEF Answered, SafeInv
  <2> DEFINE m == Message(g, "sign", {sem[g].to}, start[g], sem[g].proof)
  <2>2. SafeMessage(AskedGuards', m)
    BY <1>1, <1>8 DEF SafeMessage, Message, SafeTask, Answered
  <2>3. Send(m) \/ UNCHANGED net
    BY <1>8 DEF Answered
  <2> HIDE DEF m
  <2>4. SafeNet'
    BY <2>2, <2>3, NetSafe DEF SafeInv
  <2> QED BY <1>2, <2>1, <2>4 DEF SafeInv
<1> QED BY <1>3, <1>4, <1>5, <1>6, <1>7, <1>8

\* The steps of handleSign and handleSignedTx, and a failure.
LEMMA SafeSigning ==
    ASSUME TypeOK, SafeInv, AskedGuards \subseteq AskedGuards', NEW g \in Guard,
           \/ ReceiveSign(g) \/ VerifyLocal(g) \/ ReceiveSigned(g)
           \/ Verified(g) \/ Fail(g)
    PROVE  SafeInv'
<1>1. /\ SafeEntry(AskedGuards', g, entry[g]) /\ SafeTask(AskedGuards', g, sem[g])
      /\ \A tx \in local[g] : SafeTx(AskedGuards', tx)
      /\ \A m \in net : SafeMessage(AskedGuards', m)
  BY SafeMonotone DEF SafeInv, SafeEntries, SafeTasks, SafeLocal, SafeNet
<1>2. CASE ReceiveSign(g)
  <2> DEFINE e(m) == [entry[g] EXCEPT !.signs = Put(entry[g].signs, m.body)]
  <2>1. PICK m \in net :
          /\ m.type = "sign" /\ net' \in After(g, m) /\ UNCHANGED sem
          /\ \/ UNCHANGED <<entry, local>>
             \/ /\ entry' = [entry EXCEPT ![g] = e(m)]
                /\ \/ local' = local
                   \/ \E txs \in Combined(e(m)) :
                         local' = [local EXCEPT ![g] = local[g] \cup txs]
    BY <1>2, Zenon DEF ReceiveSign, Arriving
  <2>2. SafeNet' /\ SafeTasks'
    BY <2>1, NetSafe, TasksSafe DEF SafeInv
  <2>3. e(m) \in Entry
    <3>1. m.body \in Proof
      BY <2>1, BodyType DEF TypeOK
    <3>2. Put(entry[g].signs, m.body) \in SUBSET Proof
      BY <3>1 DEF Put, TypeOK, Entry
    <3> QED BY <3>2, KeptType DEF Entry
  <2>4. SafeEntry(AskedGuards', g, e(m))
    <3>1. /\ e(m).asked = entry[g].asked /\ e(m).cmts = entry[g].cmts
          /\ e(m).signs = Put(entry[g].signs, m.body)
      BY DEF TypeOK, Entry
    <3>2. m.body.by \in AskedGuards'
      BY <1>1, <2>1 DEF SafeMessage
    <3>3. By(e(m).signs) \subseteq AskedGuards'
      BY <1>1, <3>1, <3>2, PutSafe DEF SafeEntry
    <3> QED BY <1>1, <3>1, <3>3 DEF SafeEntry
  <2> HIDE DEF e
  <2>5. SafeEntries'
    BY <2>1, <2>4, EntriesSafe DEF SafeInv
  <2>6. \A txs \in Combined(e(m)) : \A tx \in txs : SafeTx(AskedGuards', tx)
    BY <2>3, <2>4, CombinedSafe DEF SafeEntry
  <2>7. SafeLocal'
    <3>1. ASSUME NEW txs \in Combined(e(m)), local' = [local EXCEPT ![g] = local[g] \cup txs]
          PROVE  SafeLocal'
      <4>1. \A tx \in local[g] \cup txs : tx \in local[g] \/ SafeTx(AskedGuards', tx)
        BY <2>6
      <4>2. PICK all : all = local[g] \cup txs
        OBVIOUS
      <4> QED BY <3>1, <4>1, <4>2, LocalSafe DEF SafeInv
    <3>2. UNCHANGED local => SafeLocal'
      BY LocalKept DEF SafeInv
    <3> QED BY <2>1, <3>1, <3>2
  <2> QED BY <2>2, <2>5, <2>7 DEF SafeInv
<1>3. CASE VerifyLocal(g)
  <2>1. PICK tx \in local[g] :
          /\ sem' = [sem EXCEPT ![g] = [at |-> "verify", tx |-> tx, own |-> TRUE]]
          /\ local' = [local EXCEPT ![g] = local[g] \ {tx}]
          /\ UNCHANGED <<entry, net>>
    BY <1>3 DEF VerifyLocal
  <2>2. SafeTask(AskedGuards', g, [at |-> "verify", tx |-> tx, own |-> TRUE])
    BY <1>1 DEF SafeTask
  <2>3. SafeTasks' /\ SafeEntries' /\ SafeNet'
    BY <2>1, <2>2, TasksSafe, EntriesSafe, NetSafe DEF SafeInv
  <2>4. PICK txs : txs = local[g] \ {tx}
    OBVIOUS
  <2>5. \A x \in txs : x \in local[g]
    BY <2>4
  <2>6. SafeLocal'
    BY <2>1, <2>4, <2>5, LocalSafe DEF SafeInv
  <2> QED BY <2>3, <2>6 DEF SafeInv
<1>4. CASE ReceiveSigned(g)
  <2>1. PICK m \in net :
          /\ m.type = "signedTx" /\ net' \in After(g, m)
          /\ sem' = [sem EXCEPT ![g] = [at |-> "verify", tx |-> m.body, own |-> FALSE]]
          /\ UNCHANGED <<entry, local>>
    BY <1>4 DEF ReceiveSigned, Arriving
  <2>2. SafeTask(AskedGuards', g, [at |-> "verify", tx |-> m.body, own |-> FALSE])
    BY <1>1, <2>1 DEF SafeTask, SafeMessage
  <2>3. SafeTasks' /\ SafeEntries' /\ SafeNet'
    BY <2>1, <2>2, TasksSafe, EntriesSafe, NetSafe DEF SafeInv
  <2> QED BY <2>1, <2>3, LocalKept DEF SafeInv
<1>5. ASSUME sem[g].at = "verify", Broadcast(g) PROVE SafeNet'
  <2> DEFINE m == Message(g, "signedTx", Others(g), start[g], sem[g].tx)
  <2>1. SafeMessage(AskedGuards', m)
    BY <1>1, <1>5 DEF SafeMessage, SafeTask, Message
  <2>2. Send(m) \/ UNCHANGED net
    BY <1>5 DEF Broadcast
  <2> HIDE DEF m
  <2> QED BY <2>1, <2>2, NetSafe DEF SafeInv
<1>6. CASE Verified(g)
  <2>1. SafeEntry(AskedGuards', g, NewEntry)
    BY DEF SafeEntry, NewEntry, By, OneEach
  <2>2. entry' = [entry EXCEPT ![g] = NewEntry] /\ UNCHANGED local /\ Release(g)
    BY <1>6 DEF Verified, Delete
  <2>3. SafeNet'
    BY <1>5, <1>6 DEF Verified
  <2> QED BY <2>1, <2>2, <2>3, EntriesSafe, TasksSafe, LocalKept DEF SafeInv
<1>7. CASE Fail(g)
  <2>1. UNCHANGED <<entry, local>> /\ Release(g)
    BY <1>7 DEF Fail, ReleaseAfterError
  <2>2. SafeNet'
    BY <1>5, <1>7, NetSafe DEF Fail, SafeInv
  <2> QED BY <2>1, <2>2, EntriesSafe, TasksSafe, LocalKept DEF SafeInv
<1> QED BY <1>2, <1>3, <1>4, <1>6, <1>7

\* A clean-up, a restart and the steps of the environment.
LEMMA SafeRest ==
    ASSUME TypeOK, SafeInv, AskedGuards \subseteq AskedGuards',
           Tick \/ Lose \/ (\E g \in Guard : Cleanup(g) \/ Restart(g))
    PROVE  SafeInv'
<1>1. \A g \in Guard : SafeEntry(AskedGuards', g, NewEntry)
  BY DEF SafeEntry, NewEntry, By, OneEach
<1>2. ASSUME NEW g \in Guard, Cleanup(g) PROVE SafeInv'
  <2>1. entry' = [entry EXCEPT ![g] = NewEntry] /\ UNCHANGED <<sem, local, net>>
    BY <1>2 DEF Cleanup, Delete
  <2> QED BY <1>1, <2>1, EntriesSafe, TasksSafe, LocalKept, NetSafe DEF SafeInv
<1>3. ASSUME NEW g \in Guard, Restart(g) PROVE SafeInv'
  <2>1. /\ entry' = [entry EXCEPT ![g] = NewEntry] /\ Release(g)
        /\ local' = [local EXCEPT ![g] = {}]
    BY <1>3 DEF Restart, Release
  <2>2. SafeNet'
    <3> SUFFICES ASSUME NEW x \in net' PROVE SafeMessage(AskedGuards', x)
      BY DEF SafeNet
    <3>1. PICK m \in net : x = [m EXCEPT !.to = @ \ {g}]
      BY <1>3 DEF Restart
    <3>2. m \in AnyMessage
      BY DEF TypeOK
    <3>3. x.type = m.type /\ x.body = m.body
      BY <3>1, <3>2 DEF AnyMessage, InitiateMessage, Messages
    <3>4. SafeMessage(AskedGuards', m)
      BY SafeMonotone DEF SafeInv, SafeNet
    <3> QED BY <3>3, <3>4 DEF SafeMessage
  <2>3. SafeLocal'
    <3>1. PICK txs : txs = {}
      OBVIOUS
    <3>2. \A tx \in txs : SafeTx(AskedGuards', tx)
      BY <3>1
    <3> QED BY <2>1, <3>1, <3>2, LocalSafe DEF SafeInv
  <2> QED BY <1>1, <2>1, <2>2, <2>3, EntriesSafe, TasksSafe DEF SafeInv
<1>4. CASE Lose
  <2>1. UNCHANGED <<entry, sem, local>> /\ net' \subseteq net
    BY <1>4 DEF Lose
  <2> QED BY <2>1, EntriesSafe, TasksSafe, LocalKept, NetSafe DEF SafeInv
<1>5. CASE Tick
  <2>1. SafeEntries'
    <3> SUFFICES ASSUME NEW g \in Guard PROVE SafeEntry(AskedGuards', g, entry'[g])
      BY DEF SafeEntries
    <3>1. /\ entry'[g].asked = entry[g].asked /\ entry'[g].signs = entry[g].signs
          /\ entry'[g].cmts = entry[g].cmts
      BY <1>5 DEF Tick, TypeOK, Entry
    <3>2. SafeEntry(AskedGuards', g, entry[g])
      BY SafeMonotone DEF SafeInv, SafeEntries
    <3> QED BY <3>1, <3>2 DEF SafeEntry
  <2>2. SafeNet'
    <3> SUFFICES ASSUME NEW x \in net' PROVE SafeMessage(AskedGuards', x)
      BY DEF SafeNet
    <3>1. PICK m \in net : x = IF m.type = "generate" THEN [m EXCEPT !.age = @ + 1] ELSE m
      BY <1>5 DEF Tick
    <3>2. m \in AnyMessage
      BY DEF TypeOK
    <3>3. x.type = m.type /\ x.body = m.body
      BY <3>1, <3>2 DEF AnyMessage, InitiateMessage, Messages
    <3>4. SafeMessage(AskedGuards', m)
      BY SafeMonotone DEF SafeInv, SafeNet
    <3> QED BY <3>3, <3>4 DEF SafeMessage
  <2>3. UNCHANGED <<sem, local>>
    BY <1>5 DEF Tick
  <2> QED BY <2>1, <2>2, <2>3, TasksSafe, LocalKept DEF SafeInv
<1> QED BY <1>2, <1>3, <1>4, <1>5

LEMMA SafeNext == TypeOK /\ SafeInv /\ [Next]_vars => SafeInv'
<1> SUFFICES ASSUME TypeOK, SafeInv, [Next]_vars PROVE SafeInv'
  OBVIOUS
<1>1. AskedGuards \subseteq AskedGuards'
  BY AskedStays
<1>2. CASE UNCHANGED vars
  <2>1. UNCHANGED <<entry, sem, local, net>>
    BY <1>2 DEF vars
  <2> QED BY <1>1, <2>1, EntriesSafe, TasksSafe, LocalKept, NetSafe DEF SafeInv
<1>3. CASE Tick \/ Lose \/ (\E g \in Guard : Cleanup(g) \/ Restart(g))
  BY <1>1, <1>3, SafeRest
<1>4. ASSUME NEW g \in Guard,
             \/ SignCall(g) \/ MyTurn(g) \/ (\E c \in Caller : Initiate(g, c))
             \/ ReceiveGenerate(g)
      PROVE  SafeInv'
  BY <1>1, <1>4, SafeTurn
<1>5. ASSUME NEW g \in Guard,
             \/ ReceiveCommitment(g) \/ Simulated(g) \/ Proved(g) \/ Wait(g)
             \/ ReceiveInitiate(g) \/ Answered(g)
      PROVE  SafeInv'
  BY <1>1, <1>5, SafeRound
<1>6. ASSUME NEW g \in Guard,
             \/ ReceiveSign(g) \/ VerifyLocal(g) \/ ReceiveSigned(g)
             \/ Verified(g) \/ Fail(g)
      PROVE  SafeInv'
  BY <1>1, <1>6, SafeSigning
<1> QED BY <1>2, <1>3, <1>4, <1>5, <1>6 DEF Next, Step

LEMMA SafeImpliesQuorumAsked == TypeOK /\ SafeInv => QuorumAsked
<1> SUFFICES ASSUME TypeOK, SafeInv, NEW tx \in Txs PROVE SafeTx(AskedGuards, tx)
  BY DEF QuorumAsked, SafeTx, AskedGuards
<1>1. CASE \E g \in Guard : tx \in local[g]
  BY <1>1 DEF SafeInv, SafeLocal
<1>2. CASE \E g \in Guard : sem[g].at = "verify" /\ tx = sem[g].tx
  BY <1>2 DEF SafeInv, SafeTasks, SafeTask
<1>3. CASE \E m \in net : m.type = "signedTx" /\ tx = m.body
  BY <1>3 DEF SafeInv, SafeNet, SafeMessage
<1>4. ASSUME NEW g \in Guard, NEW m \in waiting[g], m.type = "signedTx" PROVE FALSE
  <2>1. m \in InitiateMessage
    BY DEF TypeOK
  <2> QED BY <1>4, <2>1 DEF InitiateMessage, Messages
<1> DEFINE kept == UNION {local[g] : g \in Guard}
           verified == {sem[g].tx : g \in {h \in Guard : sem[h].at = "verify"}}
           messages == {x \in net \cup (UNION {waiting[g] : g \in Guard}) :
                           x.type = "signedTx"}
           sent == {m.body : m \in messages}
<1>5. tx \in kept \cup verified \cup sent
  BY DEF Txs
<1>6. tx \in kept => \E g \in Guard : tx \in local[g]
  OBVIOUS
<1>7. tx \in verified => \E g \in Guard : sem[g].at = "verify" /\ tx = sem[g].tx
  OBVIOUS
<1>8. \A m \in messages : m.type = "signedTx" /\ m \in net
  BY <1>4
<1>9. tx \in sent => \E m \in messages : tx = m.body
  <2> HIDE DEF messages
  <2> QED OBVIOUS
<1> HIDE DEF kept, verified, messages, sent
<1> QED BY <1>1, <1>2, <1>3, <1>5, <1>6, <1>7, <1>8, <1>9

\* A valid transaction, wherever it is, has proofs of the required number of
\* guards, and the application of each of them has called sign() for it.
THEOREM QuorumAskedCorrect == Spec => []QuorumAsked
<1>1. Init => SafeInv
  BY SafeInit
<1>2. TypeOK /\ SafeInv /\ [Next]_vars => SafeInv'
  BY SafeNext
<1>3. TypeOK /\ SafeInv => QuorumAsked
  BY SafeImpliesQuorumAsked
<1> QED BY <1>1, <1>2, <1>3, TypeCorrect, PTL DEF Spec

-----------------------------------------------------------------------------
(***************************************************************************)
(* One round.  While the coordinator waits for its simulation and its      *)
(* proof, its entry loses the commitments of the others or keeps them all; *)
(* its own can be replaced only by a run of handleMyTurnForTx that goes on *)
(* after the entry it had read was deleted and another made.               *)
(***************************************************************************)
SameRound(g, cmts, sim) ==
    \/ Foreign(g, cmts) = {}
    \/ /\ Foreign(g, cmts) = Foreign(g, sim)
       /\ MaxCallers = 1 => cmts = sim

RoundTask(g, cmts, t) ==
    /\ t.at = "simulate" => SameRound(g, cmts, t.cmts)
    /\ t.at = "prove" => \E sim \in t.proof.sim : SameRound(g, cmts, sim)

RoundTasks == \A g \in Guard : RoundTask(g, entry[g].cmts, sem[g])

\* A guard whose handleMyTurnForTx goes on is not the coordinator yet.
RunsApart ==
    MaxCallers = 1 =>
        \A g \in Guard : \A c \in Caller : starting[g][c] # "no" => entry[g].coord # g

NotToItself == \A m \in net : m.type = "generate" => m.from \notin m.to

RoundInv == NotToItself /\ RunsApart /\ RoundTasks /\ InitiatesOneRound

LEMMA ForeignPut ==
    ASSUME NEW g \in Guard, NEW cmts
    PROVE  /\ Foreign(g, Put(cmts, Fresh(g))) = Foreign(g, cmts)
           /\ Foreign(g, {Fresh(g)}) = {} /\ Foreign(g, {}) = {}
<1>1. Fresh(g).by = g
  BY DEF Fresh
<1> QED BY <1>1 DEF Foreign, Put

LEMMA ForeignBy ==
    ASSUME NEW g \in Guard, NEW cmts
    PROVE  /\ By(cmts) \subseteq {g} <=> Foreign(g, cmts) = {}
           /\ By(cmts) \ {g} = {} <=> Foreign(g, cmts) = {}
BY DEF Foreign, By

LEMMA RoundInit == Init => RoundInv
<1>1. Init => NotToItself /\ InitiatesOneRound
  BY DEF Init, NotToItself, InitiatesOneRound
<1>2. Init => RunsApart /\ RoundTasks
  BY DEF Init, RunsApart, RoundTasks, RoundTask, Free
<1> QED BY <1>1, <1>2 DEF RoundInv

\* x is y, perhaps older and to fewer guards.
Copy(x, y) ==
    x.type = y.type /\ x.from = y.from /\ x.body = y.body /\ x.to \subseteq y.to

Copies(S) == \A x \in S : \E y \in net : Copy(x, y)

\* Nothing new is under way but m.
OnlyNew(m) == Copies(net' \ {m})

RoundMessage(m) ==
    /\ m.type = "generate" => m.from \notin m.to
    /\ m.type = "initiate" =>
           \E sim \in m.body.sim :
               /\ Foreign(m.from, m.body.cmts) = Foreign(m.from, sim)
               /\ MaxCallers = 1 => m.body.cmts = sim

LEMMA RoundNet ==
    ASSUME NotToItself, InitiatesOneRound,
           Copies(net') \/ \E m : OnlyNew(m) /\ RoundMessage(m)
    PROVE  NotToItself' /\ InitiatesOneRound'
<1>1. \A x \in net : RoundMessage(x)
  BY DEF NotToItself, InitiatesOneRound, RoundMessage
<1>2. ASSUME NEW x, NEW y, RoundMessage(y), Copy(x, y)
      PROVE  RoundMessage(x)
  BY <1>2 DEF RoundMessage, Copy
<1>3. \A x \in net' : RoundMessage(x)
  BY <1>1, <1>2 DEF Copies, OnlyNew
<1> QED BY <1>3 DEF NotToItself, InitiatesOneRound, RoundMessage, Foreign

LEMMA RoundAfter ==
    ASSUME TypeOK, NEW g \in Guard, NEW m \in net, NEW rest \in After(g, m)
    PROVE  Copies(rest)
<1>1. \A x \in net : Copy(x, x)
  BY DEF Copy
<1>2. Copy([m EXCEPT !.to = @ \ {g}], m)
  BY DEF Copy, TypeOK, AnyMessage, Messages, InitiateMessage
<1> QED BY <1>1, <1>2 DEF After, Without, Copies

LEMMA RoundSend ==
    ASSUME NEW rest, Copies(rest), NEW m, SendTo(rest, m)
    PROVE  Copies(net') \/ (m.to # {} /\ OnlyNew(m))
BY DEF SendTo, Copies, OnlyNew

LEMMA CopiesNet == Copies(net)
BY DEF Copies, Copy

\* The entry of g becomes f while its task waits.
LEMMA RoundEntry ==
    ASSUME TypeOK, RoundTasks, NEW g \in Guard, NEW f,
           entry' = [entry EXCEPT ![g] = f], UNCHANGED sem,
           \/ f.cmts = entry[g].cmts
           \/ Foreign(g, f.cmts) = {}
           \/ MaxCallers # 1 /\ Foreign(g, f.cmts) = Foreign(g, entry[g].cmts)
    PROVE  RoundTasks'
<1>1. \A sim : SameRound(g, entry[g].cmts, sim) => SameRound(g, f.cmts, sim)
  BY DEF SameRound
<1>2. ASSUME NEW h \in Guard
      PROVE  RoundTask(h, entry'[h].cmts, sem[h])
  <2>1. CASE h = g
    <3>1. entry'[h] = f
      BY <2>1 DEF TypeOK
    <3> HIDE DEF SameRound
    <3> QED BY <1>1, <2>1, <3>1 DEF RoundTasks, RoundTask
  <2>2. CASE h # g
    <3>1. entry'[h] = entry[h]
      BY <2>2 DEF TypeOK
    <3> QED BY <3>1 DEF RoundTasks
  <2> QED BY <2>1, <2>2
<1> QED BY <1>2 DEF RoundTasks, RoundTask, SameRound, Foreign

\* g gets another task, entries keep their commitments.
LEMMA RoundSem ==
    ASSUME TypeOK, RoundTasks, NEW g \in Guard, NEW t,
           \A h \in Guard : entry'[h].cmts = entry[h].cmts,
           sem' = [sem EXCEPT ![g] = t], RoundTask(g, entry[g].cmts, t)
    PROVE  RoundTasks'
<1>1. ASSUME NEW h \in Guard
      PROVE  RoundTask(h, entry[h].cmts, sem'[h])
  BY DEF TypeOK, RoundTasks
<1> QED BY <1>1 DEF RoundTasks, RoundTask, SameRound, Foreign

\* The task of g ends, or there was none, and its entry becomes any f.
LEMMA RoundFree ==
    ASSUME TypeOK, RoundTasks, NEW g \in Guard,
           \A h \in Guard : h # g => entry'[h].cmts = entry[h].cmts,
           sem' = [sem EXCEPT ![g] = Free]
    PROVE  RoundTasks'
<1>1. ASSUME NEW h \in Guard
      PROVE  RoundTask(h, entry'[h].cmts, sem'[h])
  <2>1. CASE h = g
    BY <2>1 DEF TypeOK, Free, RoundTask
  <2>2. CASE h # g
    BY <2>2 DEF TypeOK, RoundTasks
  <2> QED BY <2>1, <2>2
<1> QED BY <1>1 DEF RoundTasks, RoundTask, SameRound, Foreign

\* No run of handleMyTurnForTx begins, and no guard with one becomes coordinator.
LEMMA RunsKept ==
    ASSUME RunsApart,
           \A g \in Guard :
               /\ entry'[g].coord \in {entry[g].coord, -1} \/ entry'[g].coord # g
               /\ \A c \in Caller : starting'[g][c] # "no" => starting[g][c] # "no"
    PROVE  RunsApart'
BY ConstantsAssumption DEF RunsApart, Caller, Guard

\* A step that brings no message and whose entries and tasks change as the lemmas say.
LEMMA RoundTogether ==
    ASSUME RoundInv, RunsApart', RoundTasks',
           Copies(net') \/ \E m : OnlyNew(m) /\ RoundMessage(m)
    PROVE  RoundInv'
BY RoundNet DEF RoundInv

\* Entries, tasks and runs keep what the invariant reads.
LEMMA RoundQuiet ==
    ASSUME TypeOK, RoundInv,
           \A g \in Guard : /\ entry'[g].cmts = entry[g].cmts
                            /\ entry'[g].coord = entry[g].coord,
           UNCHANGED <<sem, starting>>
    PROVE  RunsApart' /\ RoundTasks'
<1>1. RunsApart'
  BY RunsKept DEF RoundInv
<1>2. ASSUME NEW g \in Guard PROVE RoundTask(g, entry'[g].cmts, sem'[g])
  BY DEF RoundInv, RoundTasks
<1> QED BY <1>1, <1>2 DEF RoundTasks, RoundTask, SameRound, Foreign

LEMMA RoundEnvironment ==
    ASSUME TypeOK, RoundInv, Tick \/ Lose \/ UNCHANGED vars
    PROVE  RoundInv'
<1>1. \A g \in Guard : entry'[g].cmts = entry[g].cmts /\ entry'[g].coord = entry[g].coord
  BY DEF Tick, Lose, vars, TypeOK, Entry
<1>2. UNCHANGED <<sem, starting>>
  BY DEF Tick, Lose, vars
<1>3. Copies(net')
  <2>1. CASE Tick
    <3>1. \A x \in net : Copy([x EXCEPT !.age = @ + 1], x) /\ Copy(x, x)
      BY DEF Copy, TypeOK, AnyMessage, Messages, InitiateMessage
    <3> QED BY <2>1, <3>1 DEF Tick, Copies
  <2>2. CASE Lose \/ UNCHANGED vars
    BY <2>2, CopiesNet DEF Lose, vars, Copies
  <2> QED BY <2>1, <2>2
<1> QED BY <1>1, <1>2, <1>3, RoundQuiet, RoundTogether

LEMMA RoundSignCall ==
    ASSUME TypeOK, RoundInv, NEW g \in Guard, SignCall(g) \/ MyTurn(g)
    PROVE  RoundInv'
<1>1. /\ \A h \in Guard : entry'[h].cmts = entry[h].cmts /\ entry'[h].coord = entry[h].coord
      /\ UNCHANGED <<sem, net>>
  <2>1. UNCHANGED <<sem, net>>
    BY DEF SignCall, MyTurn
  <2>2. CASE UNCHANGED entry
    BY <2>1, <2>2
  <2>3. CASE entry' = [entry EXCEPT ![g].asked = TRUE]
    <3>1. entry[g] \in Entry
      BY DEF TypeOK
    <3> DEFINE f == [entry[g] EXCEPT !.asked = TRUE]
    <3>2. f.cmts = entry[g].cmts /\ f.coord = entry[g].coord
      BY <3>1 DEF Entry
    <3>3. entry' = [entry EXCEPT ![g] = f]
      BY <2>3
    <3> HIDE DEF f
    <3>4. \A h \in Guard : h # g => entry'[h] = entry[h]
      BY <3>3 DEF TypeOK
    <3>5. entry'[g] = f
      BY <3>3 DEF TypeOK
    <3> QED BY <2>1, <3>2, <3>4, <3>5
  <2> QED BY <2>2, <2>3 DEF SignCall, MyTurn
<1>2. RunsApart'
  <2>1. CASE UNCHANGED starting
    BY <1>1, <2>1, RunsKept DEF RoundInv
  <2>2. CASE entry[g].coord # g /\ StartsTurn(g)
    <3>1. \A h \in Guard : h # g => starting'[h] = starting[h]
      BY <2>2 DEF StartsTurn, TypeOK
    <3> QED BY <1>1, <2>2, <3>1 DEF RoundInv, RunsApart
  <2> QED BY <2>1, <2>2 DEF SignCall, MyTurn
<1>3. RoundTasks'
  <2>1. ASSUME NEW h \in Guard PROVE RoundTask(h, entry'[h].cmts, sem'[h])
    BY <1>1 DEF RoundInv, RoundTasks
  <2> QED BY <2>1 DEF RoundTasks, RoundTask, SameRound, Foreign
<1> QED BY <1>1, <1>2, <1>3, CopiesNet, RoundTogether

LEMMA RoundInitiate ==
    ASSUME TypeOK, RoundInv, CollectedByCoordinator,
           NEW g \in Guard, NEW c \in Caller, Initiate(g, c)
    PROVE  RoundInv'
<1>1. PICK f \in Entry :
         /\ entry' = [entry EXCEPT ![g] = f]
         /\ \/ f.cmts \in {{}, {Fresh(g)}}
            \/ f.cmts = entry[g].cmts
            \/ f.cmts = Put(entry[g].cmts, Fresh(g))
  BY InitiateKeeps
<1>2. /\ starting[g][c] # "no" /\ UNCHANGED sem
      /\ starting' = [starting EXCEPT ![g][c] = "no"]
      /\ Send(Message(g, "generate", Others(g), start[g], {}))
  BY DEF Initiate
<1>3. MaxCallers = 1 => Foreign(g, entry[g].cmts) = {}
  <2>1. ASSUME MaxCallers = 1 PROVE Foreign(g, entry[g].cmts) = {}
    <3>1. entry[g].coord # g
      BY <1>2, <2>1 DEF RoundInv, RunsApart
    <3>2. By(entry[g].cmts) \subseteq {g}
      BY <3>1 DEF CollectedByCoordinator
    <3> QED BY <3>2, ForeignBy
  <2> QED BY <2>1
<1>4. RoundTasks'
  <2>1. \/ f.cmts = entry[g].cmts
        \/ Foreign(g, f.cmts) = {}
        \/ MaxCallers # 1 /\ Foreign(g, f.cmts) = Foreign(g, entry[g].cmts)
    <3>1. /\ Foreign(g, {}) = {} /\ Foreign(g, {Fresh(g)}) = {}
          /\ Foreign(g, Put(entry[g].cmts, Fresh(g))) = Foreign(g, entry[g].cmts)
      BY ForeignPut
    <3>2. CASE f.cmts = {}
      BY <3>1, <3>2
    <3>3. CASE f.cmts = {Fresh(g)}
      BY <3>1, <3>3
    <3>4. CASE f.cmts = Put(entry[g].cmts, Fresh(g))
      BY <1>3, <3>1, <3>4
    <3> QED BY <1>1, <3>2, <3>3, <3>4
  <2> QED BY <1>1, <1>2, <2>1, RoundEntry DEF RoundInv
<1>5. RunsApart'
  <2>1. ASSUME MaxCallers = 1 PROVE Caller = {c}
    BY <2>1 DEF Caller
  <2>2. /\ starting'[g][c] = "no"
        /\ \A h \in Guard : h # g => starting'[h] = starting[h] /\ entry'[h] = entry[h]
    BY <1>1, <1>2 DEF TypeOK
  <2> QED BY <2>1, <2>2 DEF RoundInv, RunsApart
<1>6. Copies(net') \/ \E m : OnlyNew(m) /\ RoundMessage(m)
  <2>1. RoundMessage(Message(g, "generate", Others(g), start[g], {}))
    BY DEF RoundMessage, Message, Others
  <2> QED BY <1>2, <2>1, RoundSend, CopiesNet DEF Send
<1> QED BY <1>4, <1>5, <1>6, RoundTogether

LEMMA RoundGenerate ==
    ASSUME TypeOK, RoundInv, CollectedByCoordinator, NEW g \in Guard, ReceiveGenerate(g)
    PROVE  RoundInv'
<1>1. PICK m \in Arriving(g, "generate") :
        /\ made[g] < MaxSecrets
        /\ entry' = [entry EXCEPT ![g] = Committed(g, entry[g], m.from)]
        /\ \E rest \in After(g, m) :
              SendTo(rest, Message(g, "commitment", {m.from}, start[g], Fresh(g)))
  BY DEF ReceiveGenerate
<1>2. m \in net /\ m.from \in Guard /\ m.from # g /\ entry[g] \in Entry
  BY BodyType DEF TypeOK, Arriving, RoundInv, NotToItself
<1> DEFINE f == Committed(g, entry[g], m.from)
<1>3. /\ f.coord = m.from
      /\ \/ f.cmts = {Fresh(g)}
         \/ entry[g].coord = m.from /\ f.cmts = Put(entry[g].cmts, Fresh(g))
  BY <1>1, <1>2, CommittedKeeps
<1>4. entry' = [entry EXCEPT ![g] = f] /\ UNCHANGED <<sem, starting>>
  BY <1>1 DEF ReceiveGenerate
<1> HIDE DEF f
<1>5. Foreign(g, f.cmts) = {}
  <2>1. CASE f.cmts = {Fresh(g)}
    BY <2>1, ForeignPut
  <2>2. CASE entry[g].coord = m.from /\ f.cmts = Put(entry[g].cmts, Fresh(g))
    <3>1. By(entry[g].cmts) \subseteq {g}
      BY <1>2, <2>2 DEF CollectedByCoordinator
    <3>2. Foreign(g, entry[g].cmts) = {}
      BY <3>1, ForeignBy
    <3> QED BY <2>2, <3>2, ForeignPut
  <2> QED BY <1>3, <2>1, <2>2
<1>6. RoundTasks'
  BY <1>4, <1>5, RoundEntry DEF RoundInv
<1>7. RunsApart'
  <2>1. ASSUME NEW h \in Guard
        PROVE  entry'[h].coord \in {entry[h].coord, -1} \/ entry'[h].coord # h
    BY <1>2, <1>3, <1>4 DEF TypeOK
  <2> QED BY <1>4, <2>1, RunsKept DEF RoundInv
<1>8. Copies(net') \/ \E x : OnlyNew(x) /\ RoundMessage(x)
  <2>1. RoundMessage(Message(g, "commitment", {m.from}, start[g], Fresh(g)))
    BY DEF RoundMessage, Message
  <2> QED BY <1>1, <1>2, <2>1, RoundSend, RoundAfter
<1> QED BY <1>6, <1>7, <1>8, RoundTogether

\* The entries keep their coordinators, and no run of handleMyTurnForTx begins.
LEMMA RunsStay ==
    ASSUME RunsApart, UNCHANGED starting,
           \A g \in Guard : entry'[g].coord = entry[g].coord
    PROVE  RunsApart'
BY RunsKept

LEMMA RoundCommitment ==
    ASSUME TypeOK, RoundInv, NEW g \in Guard, ReceiveCommitment(g)
    PROVE  RoundInv'
<1>1. UNCHANGED starting /\ sem[g] = Free /\ \E m \in net : net' \in After(g, m)
  BY DEF ReceiveCommitment, Acquire, Arriving
<1>2. Copies(net')
  BY <1>1, RoundAfter
<1>3. CASE UNCHANGED <<entry, sem>>
  BY <1>1, <1>2, <1>3, RoundQuiet, RoundTogether
<1>4. ASSUME NEW cmts, entry' = [entry EXCEPT ![g].cmts = cmts],
             \/ UNCHANGED sem
             \/ sem' = [sem EXCEPT ![g] = [at |-> "simulate", cmts |-> cmts]]
      PROVE  RoundInv'
  <2>1. PICK f : /\ entry' = [entry EXCEPT ![g] = f]
                 /\ f.coord = entry[g].coord /\ f.cmts = cmts
    <3>1. entry' = [entry EXCEPT ![g].cmts = cmts]
      BY <1>4
    <3>2. \E f : /\ entry' = [entry EXCEPT ![g] = f]
                 /\ f.asked = entry[g].asked /\ f.coord = entry[g].coord
                 /\ f.cmts = cmts /\ f.sim = entry[g].sim /\ f.signs = entry[g].signs
      BY ONLY <3>1, CommitmentsKeep, TypeOK
    <3> QED BY <3>2
  <2>2. /\ entry'[g] = f /\ sem'[g] \in {Free, [at |-> "simulate", cmts |-> cmts]}
        /\ \A h \in Guard : h # g => entry'[h] = entry[h] /\ sem'[h] = sem[h]
    BY <1>1, <1>4, <2>1 DEF TypeOK
  <2>3. ASSUME NEW h \in Guard PROVE RoundTask(h, entry'[h].cmts, sem'[h])
    BY <2>1, <2>2 DEF RoundInv, RoundTasks, RoundTask, SameRound, Free
  <2>4. RoundTasks'
    BY <2>3 DEF RoundTasks, RoundTask, SameRound, Foreign
  <2>5. RunsApart'
    BY <1>1, <2>1, <2>2, RunsStay DEF RoundInv
  <2> QED BY <1>2, <2>4, <2>5, RoundTogether
<1> QED BY <1>3, <1>4 DEF ReceiveCommitment

LEMMA RoundSimulated ==
    ASSUME TypeOK, RoundInv, NEW g \in Guard, Simulated(g)
    PROVE  RoundInv'
<1>1. /\ sem[g].at = "simulate" /\ UNCHANGED <<starting, net>>
      /\ entry' = [entry EXCEPT ![g].sim = {sem[g].cmts}]
  BY DEF Simulated
<1>2. PICK t : /\ sem' = [sem EXCEPT ![g] = t]
               /\ t.at = "prove" /\ t.proof.sim = {sem[g].cmts}
  <2> DEFINE t == [at |-> "prove",
                   proof |-> [by |-> g, secret |-> entry[g].secret,
                              cmts |-> sem[g].cmts, sim |-> {sem[g].cmts}]]
  <2>1. sem' = [sem EXCEPT ![g] = t]
    BY DEF Simulated
  <2>2. t.at = "prove" /\ t.proof.sim = {sem[g].cmts}
    OBVIOUS
  <2> HIDE DEF t
  <2> QED BY <2>1, <2>2
<1>3. \A h \in Guard : entry'[h].cmts = entry[h].cmts /\ entry'[h].coord = entry[h].coord
  BY <1>1 DEF TypeOK, Entry
<1>4. RoundTask(g, entry[g].cmts, t)
  BY <1>1, <1>2 DEF RoundInv, RoundTasks, RoundTask
<1>5. RoundTasks'
  BY <1>2, <1>3, <1>4, RoundSem DEF RoundInv
<1>6. RunsApart'
  BY <1>1, <1>3, RunsStay DEF RoundInv
<1> QED BY <1>1, <1>5, <1>6, CopiesNet, RoundTogether

LEMMA RoundProved ==
    ASSUME TypeOK, RoundInv, NEW g \in Guard, Proved(g)
    PROVE  RoundInv'
<1>1. /\ sem[g].at = "prove" /\ UNCHANGED starting
      /\ sem' = [sem EXCEPT ![g] = Free]
      /\ entry' = [entry EXCEPT ![g].signs = Put(@, sem[g].proof)]
  BY DEF Proved, Release
<1>2. PICK m : /\ SendTo(net, m) /\ m.type = "initiate" /\ m.from = g
               /\ m.to = By(entry[g].cmts) \ {g}
               /\ m.body.cmts = entry[g].cmts /\ m.body.sim = sem[g].proof.sim
  BY DEF Proved, Send, Message
<1>3. \A h \in Guard : entry'[h].cmts = entry[h].cmts /\ entry'[h].coord = entry[h].coord
  BY <1>1 DEF TypeOK, Entry
<1>4. RoundTasks'
  BY <1>1, <1>3, RoundFree DEF RoundInv
<1>5. RunsApart'
  BY <1>1, <1>3, RunsStay DEF RoundInv
<1>6. ASSUME m.to # {} PROVE RoundMessage(m)
  <2>1. Foreign(g, entry[g].cmts) # {}
    BY <1>2, <1>6, ForeignBy
  <2>2. PICK sim \in m.body.sim : SameRound(g, entry[g].cmts, sim)
    BY <1>1, <1>2 DEF RoundInv, RoundTasks, RoundTask
  <2> QED BY <1>2, <2>1, <2>2 DEF RoundMessage, SameRound
<1>7. Copies(net') \/ \E x : OnlyNew(x) /\ RoundMessage(x)
  BY <1>2, <1>6, RoundSend, CopiesNet
<1> QED BY <1>4, <1>5, <1>7, RoundTogether

\* What is sent is neither a request for commitments nor one for proofs.
LEMMA OtherMessage ==
    ASSUME NEW g, NEW type \in {"sign", "signedTx"}, NEW to, NEW p, NEW body
    PROVE  RoundMessage(Message(g, type, to, p, body))
BY DEF RoundMessage, Message

LEMMA RoundBroadcast ==
    ASSUME NEW g \in Guard, Broadcast(g)
    PROVE  Copies(net') \/ \E m : OnlyNew(m) /\ RoundMessage(m)
<1>1. RoundMessage(Message(g, "signedTx", Others(g), start[g], sem[g].tx))
  BY OtherMessage
<1>2. CASE net' = net
  BY <1>2, CopiesNet
<1>3. CASE Send(Message(g, "signedTx", Others(g), start[g], sem[g].tx))
  BY <1>1, <1>3, RoundSend, CopiesNet DEF Send
<1> QED BY <1>2, <1>3 DEF Broadcast

\* An entry is deleted: it has no coordinator then.
LEMMA RoundDelete ==
    ASSUME TypeOK, RoundInv, NEW g \in Guard, Delete(g), sem' = [sem EXCEPT ![g] = Free]
    PROVE  RunsApart' /\ RoundTasks'
<1>1. entry' = [entry EXCEPT ![g] = NewEntry]
  BY DEF Delete
<1>2. entry'[g].coord = -1 /\ \A h \in Guard : h # g => entry'[h] = entry[h]
  BY <1>1 DEF TypeOK, NewEntry
<1>3. \A h \in Guard : \A c \in Caller : starting'[h][c] # "no" => starting[h][c] # "no"
  BY DEF Delete, TypeOK
<1>4. RunsApart'
  <2>1. \A h \in Guard : entry'[h].coord \in {entry[h].coord, -1}
    BY <1>2
  <2> QED BY <1>3, <2>1, RunsKept DEF RoundInv
<1> QED BY <1>2, <1>4, RoundFree DEF RoundInv

LEMMA RoundEnds ==
    ASSUME TypeOK, RoundInv, NEW g \in Guard,
           Verified(g) \/ Cleanup(g) \/ Restart(g) \/ Fail(g) \/ Answered(g)
    PROVE  RoundInv'
<1>1. CASE Verified(g)
  <2>1. Delete(g) /\ Broadcast(g) /\ sem' = [sem EXCEPT ![g] = Free]
    BY <1>1 DEF Verified, Release
  <2> QED BY <2>1, RoundDelete, RoundBroadcast, RoundTogether
<1>2. CASE Cleanup(g)
  <2>1. Delete(g) /\ sem' = [sem EXCEPT ![g] = Free] /\ net' = net
    BY <1>2 DEF Cleanup, TypeOK
  <2> QED BY <2>1, RoundDelete, CopiesNet, RoundTogether
<1>3. CASE Restart(g)
  <2>1. /\ entry' = [entry EXCEPT ![g] = NewEntry] /\ sem' = [sem EXCEPT ![g] = Free]
        /\ starting' = [starting EXCEPT ![g] = [c \in Caller |-> "no"]]
        /\ net' = {[m EXCEPT !.to = @ \ {g}] : m \in {x \in net : x.to # {g}}}
    BY <1>3 DEF Restart
  <2>2. \A h \in Guard : h # g => entry'[h] = entry[h]
    BY <2>1 DEF TypeOK
  <2>3. RoundTasks'
    BY <2>1, <2>2, RoundFree DEF RoundInv
  <2>4. RunsApart'
    <3>1. \A h \in Guard : entry'[h].coord \in {entry[h].coord, -1}
      BY <2>1 DEF TypeOK, NewEntry
    <3>2. \A h \in Guard : \A c \in Caller : starting'[h][c] # "no" => starting[h][c] # "no"
      BY <2>1 DEF TypeOK
    <3> QED BY <3>1, <3>2, RunsKept DEF RoundInv
  <2>5. Copies(net')
    <3>1. \A m \in net : Copy([m EXCEPT !.to = @ \ {g}], m)
      BY DEF Copy, TypeOK, AnyMessage, Messages, InitiateMessage
    <3> QED BY <2>1, <3>1 DEF Copies
  <2> QED BY <2>3, <2>4, <2>5, RoundTogether
<1>4. CASE Fail(g) \/ Answered(g)
  <2>1. /\ sem' = [sem EXCEPT ![g] = Free] /\ UNCHANGED <<entry, starting>>
    BY <1>4 DEF Fail, Answered, ReleaseAfterError, Release
  <2>2. RoundTasks' /\ RunsApart'
    BY <2>1, RoundFree, RunsStay DEF RoundInv
  <2>3. Copies(net') \/ \E m : OnlyNew(m) /\ RoundMessage(m)
    <3>1. CASE Broadcast(g) \/ net' = net
      BY <3>1, RoundBroadcast, CopiesNet
    <3>2. ASSUME NEW to, NEW body, Send(Message(g, "sign", to, start[g], body))
          PROVE  Copies(net') \/ \E m : OnlyNew(m) /\ RoundMessage(m)
      <4>1. RoundMessage(Message(g, "sign", to, start[g], body))
        BY OtherMessage
      <4> QED BY <3>2, <4>1, RoundSend, CopiesNet DEF Send
    <3> QED BY <1>4, <3>1, <3>2 DEF Fail, Answered
  <2> QED BY <2>2, <2>3, RoundTogether
<1> QED BY <1>1, <1>2, <1>3, <1>4

LEMMA RoundHandlers ==
    ASSUME TypeOK, RoundInv, NEW g \in Guard,
           \/ Wait(g) \/ ReceiveInitiate(g) \/ ReceiveSign(g)
           \/ VerifyLocal(g) \/ ReceiveSigned(g)
    PROVE  RoundInv'
<1>1. /\ net' = net \/ \E m \in net : net' \in After(g, m)
      /\ UNCHANGED starting
  BY DEF Wait, ReceiveInitiate, Prepare, ReceiveSign, VerifyLocal, ReceiveSigned, Arriving
<1>2. Copies(net')
  BY <1>1, RoundAfter, CopiesNet
<1>3. \A h \in Guard : entry'[h].cmts = entry[h].cmts /\ entry'[h].coord = entry[h].coord
  <2>1. CASE UNCHANGED entry
    BY <2>1
  <2>2. ASSUME NEW x, entry' = [entry EXCEPT ![g].signs = x]
        PROVE  \A h \in Guard : entry'[h].cmts = entry[h].cmts /\ entry'[h].coord = entry[h].coord
    BY <2>2 DEF TypeOK, Entry
  <2>3. CASE ReceiveSign(g)
    BY <2>1, <2>2, <2>3 DEF ReceiveSign
  <2>4. CASE Wait(g) \/ ReceiveInitiate(g) \/ VerifyLocal(g) \/ ReceiveSigned(g)
    BY <2>1, <2>4 DEF Wait, ReceiveInitiate, Prepare, VerifyLocal, ReceiveSigned
  <2> QED BY <2>3, <2>4
<1>4. RunsApart'
  BY <1>1, <1>3, RunsStay DEF RoundInv
<1>5. CASE UNCHANGED sem
  BY <1>1, <1>2, <1>3, <1>5, RoundQuiet, RoundTogether
<1>6. ASSUME NEW t, t.at \in {"answer", "verify"}, sem' = [sem EXCEPT ![g] = t]
      PROVE  RoundInv'
  <2>1. RoundTask(g, entry[g].cmts, t)
    BY <1>6 DEF RoundTask
  <2> QED BY <1>2, <1>3, <1>4, <1>6, <2>1, RoundSem, RoundTogether DEF RoundInv
<1>7. CASE Wait(g) \/ ReceiveSign(g)
  BY <1>5, <1>7 DEF Wait, ReceiveSign
<1>8. CASE ReceiveInitiate(g)
  <2>1. ASSUME NEW m, Prepare(g, m) PROVE RoundInv'
    <3> DEFINE t == [at |-> "answer", to |-> m.from, peer |-> m.peer,
                     proof |-> [by |-> g, secret |-> entry[g].secret,
                                cmts |-> m.body.cmts, sim |-> m.body.sim]]
    <3>1. UNCHANGED sem \/ sem' = [sem EXCEPT ![g] = t]
      BY <2>1 DEF Prepare
    <3>2. t.at = "answer"
      OBVIOUS
    <3> HIDE DEF t
    <3> QED BY <1>5, <1>6, <3>1, <3>2
  <2> QED BY <1>8, <2>1 DEF ReceiveInitiate
<1>9. CASE VerifyLocal(g) \/ ReceiveSigned(g)
  <2>1. ASSUME NEW tx, NEW own,
               sem' = [sem EXCEPT ![g] = [at |-> "verify", tx |-> tx, own |-> own]]
        PROVE  RoundInv'
    <3>1. PICK t : t = [at |-> "verify", tx |-> tx, own |-> own]
      OBVIOUS
    <3>2. sem' = [sem EXCEPT ![g] = t]
      BY <2>1, <3>1
    <3>3. t.at \in {"answer", "verify"}
      BY <3>1
    <3>4. RoundTask(g, entry[g].cmts, t)
      BY <3>1 DEF RoundTask
    <3>5. RoundTasks'
      BY <1>3, <3>2, <3>4, RoundSem DEF RoundInv
    <3> QED BY <1>2, <1>4, <3>5, RoundTogether
  <2> QED BY <1>9, <2>1 DEF VerifyLocal, ReceiveSigned
<1> QED BY <1>7, <1>8, <1>9

LEMMA RoundNext ==
    TypeOK /\ CollectedByCoordinator /\ RoundInv /\ [Next]_vars => RoundInv'
BY RoundEnvironment, RoundSignCall, RoundInitiate, RoundGenerate, RoundCommitment,
   RoundSimulated, RoundProved, RoundEnds, RoundHandlers DEF Next, Step

\* The signers of a round get the commitments of the others that the coordinator has
\* simulated the missing guards for, although it waits twice in between and other
\* handlers change its entry; and its own, unless runs of handleMyTurnForTx overlap.
THEOREM InitiatesOneRoundCorrect == Spec => []InitiatesOneRound
<1>1. Init => RoundInv
  BY RoundInit
<1>2. RoundInv => InitiatesOneRound
  BY DEF RoundInv
<1> QED BY <1>1, <1>2, RoundNext, TypeCorrect, CollectedByCoordinatorCorrect, PTL DEF Spec
=============================================================================
