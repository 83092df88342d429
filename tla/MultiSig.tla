------------------------------- MODULE MultiSig -------------------------------
(***************************************************************************)
(* How the guards sign one Ergo transaction: class MultiSigHandler of      *)
(* packages/ergo-multi-sig.  In its turn a guard asks the others for       *)
(* commitments, sends those it got back to the guards that made them, and  *)
(* combines the proofs they answer with into a signed transaction.         *)
(*                                                                         *)
(* A handler that takes the semaphore of its guard ends at its first long  *)
(* await (getStateContext, a request to a node); what it still has to do   *)
(* is the task the semaphore is held for.  generateCommitment and the two  *)
(* callers of handleMyTurnForTx do not take it.  Time goes by turns, and   *)
(* what is kept is whose turn it is and ages, so behaviours have no end.   *)
(* The network delays, loses, reorders and repeats messages; a handler may *)
(* also wait for its semaphore for any time, so only messages whose        *)
(* handlers do not take it are dropped for their age.                      *)
(***************************************************************************)
EXTENDS Integers, FiniteSets

CONSTANTS
    N,             \* number of guards
    Need,          \* requiredSign of every sign()
    SignTimeout,   \* txSignTimeout, in turns
    MessageValid,  \* messageValidDuration, in turns that may begin
    MaxSecrets,    \* bound: commitments a guard generates
    MaxCallers,    \* bound: runs of handleMyTurnForTx at a time at a guard
    MaxNet,        \* bound: messages under way
    MaxStarts,     \* bound: times a guard process is started
    Restarting     \* bound: guards whose process may die

Guard == 0 .. N - 1

ASSUME ConstantsAssumption ==
    /\ N \in Nat \ {0} /\ Need \in 1 .. N
    /\ {SignTimeout, MessageValid, MaxSecrets, MaxCallers, MaxNet} \subseteq Nat
    /\ MaxStarts \in Nat \ {0} /\ Restarting \subseteq Guard

\* A publishable commitment: that of secret `secret` of guard `by`.
Commitment == [by : Guard, secret : 1 .. MaxSecrets]

\* simulatedBag: {} when undefined, {{}} when empty, otherwise the commitments
\* the others were simulated for.
Bag == {b \in SUBSET SUBSET Commitment : Cardinality(b) <= 1}

\* A proof is made of a secret, for the commitments and the simulation the
\* prover was given.
Proof == [by : Guard, secret : 0 .. MaxSecrets,
          cmts : SUBSET Commitment, sim : Bag]

\* A signed transaction and whose proofs are in it.
SignedTx == [valid : BOOLEAN, by : SUBSET Guard]

\* TxQueued.  `asked` is whether it has tx, and with it boxes, dataBoxes,
\* requiredSigner, resolve and reject.
NewEntry == [asked |-> FALSE, secret |-> 0, sim |-> {}, signs |-> {},
             cmts |-> {}, coord |-> -1, age |-> 0]

\* `peer` is the process of the sender, which an answer is addressed to.
Message(g, type, to, peer, body) ==
    [type |-> type, from |-> g, to |-> to, peer |-> peer, body |-> body, age |-> 0]

Free == [at |-> "free"]

VARIABLES
    turn,      \* getCurrentTurnInd
    queued,    \* whether transactions of g has the transaction
    entry,     \* its TxQueued, NewEntry when there is none
    sem,       \* what the semaphore of g is held for
    starting,  \* what the runs of handleMyTurnForTx past their test hold
    local,     \* transactions g combined and has yet to pass to handleSignedTx
    waiting,   \* initiateSign messages that wait for the semaphore of g
    promise,   \* of the last call of sign()
    made,      \* number of secrets g has generated
    start,     \* which start of its process g is at
    net        \* messages that can still arrive

vars == <<turn, queued, entry, sem, starting, local, waiting, promise, made, start, net>>

-----------------------------------------------------------------------------
(***************************************************************************)
(* Helpers                                                                 *)
(***************************************************************************)
Caller == 1 .. MaxCallers

Init ==
    /\ turn = 0
    /\ queued = [g \in Guard |-> FALSE]
    /\ entry = [g \in Guard |-> NewEntry]
    /\ sem = [g \in Guard |-> Free]
    /\ starting = [g \in Guard |-> [c \in Caller |-> "no"]]
    /\ local = [g \in Guard |-> {}]
    /\ waiting = [g \in Guard |-> {}]
    /\ promise = [g \in Guard |-> "none"]
    /\ made = [g \in Guard |-> 0]
    /\ start = [g \in Guard |-> 1]
    /\ net = {}

By(things) == {x.by : x \in things}
Enough(things) == Cardinality(things) >= Need

\* A Record keyed by public keys, with x under the key of its maker.
Put(things, x) == {y \in things : y.by # x.by} \cup {x}

Clean(e) == [e EXCEPT !.sim = {{}}, !.cmts = {}, !.signs = {}]

\* Mutant: the state of the former coordinator is kept.
CoordinatedKept(e, c) == [e EXCEPT !.coord = c]

\* The entry once c is its coordinator.
Coordinated(e, c) ==
    [(IF e.coord # c THEN Clean(e) ELSE e) EXCEPT !.coord = c]

\* Mutant: the commitment of the secret before.
FreshBefore(g) == [by |-> g, secret |-> made[g]]

\* The commitment generated next, and the entry with it.
Fresh(g) == [by |-> g, secret |-> made[g] + 1]
Committed(g, e, c) ==
    [Coordinated(e, c) EXCEPT !.secret = made[g] + 1, !.cmts = Put(@, Fresh(g))]

\* Mutant: transactions the application never asked for count too.
KnownAlways(e) == TRUE

\* transaction.tx !== undefined
Known(e) == e.asked

\* m is sent, `rest` being the others under way; one too many is lost.
SendTo(rest, m) ==
    net' = IF m.to # {} /\ Cardinality(rest) < MaxNet THEN rest \cup {m} ELSE rest

Send(m) == SendTo(net, m)

\* What is under way once g has m: it may arrive again.
Without(g, m) ==
    (net \ {m}) \cup (IF m.to = {g} THEN {} ELSE {[m EXCEPT !.to = @ \ {g}]})

After(g, m) == {net, Without(g, m)}

Others(g) == Guard \ {g}

Arriving(g, type) == {m \in net : m.type = type /\ g \in m.to}

\* g takes the semaphore and gets the transaction, a new one if there is none.
Acquire(g) ==
    /\ sem[g] = Free
    /\ queued' = [queued EXCEPT ![g] = TRUE]

Release(g) == sem' = [sem EXCEPT ![g] = Free]

\* Mutant: a transaction is deleted and its caller not told.
SettleNone(g) == promise' = promise

\* What resolve and reject of the entry do.
Settle(g) ==
    promise' = IF entry[g].asked THEN [promise EXCEPT ![g] = "over"] ELSE promise

\* transactions.delete, once the promise of the entry, if any, is settled.
Delete(g) ==
    /\ queued' = [queued EXCEPT ![g] = FALSE]
    /\ entry' = [entry EXCEPT ![g] = NewEntry]
    /\ Settle(g)
    /\ starting' = [starting EXCEPT ![g] =
                       [c \in Caller |-> IF @[c] = "held" THEN "stale" ELSE @[c]]]

-----------------------------------------------------------------------------
(***************************************************************************)
(* sign() and the turn of a guard                                          *)
(***************************************************************************)

\* handleMyTurnForTx finds that it is the turn of g and g not the coordinator.
StartsTurn(g) ==
    \E c \in Caller : /\ starting[g][c] = "no"
                       /\ starting' = [starting EXCEPT ![g][c] = "held"]

\* sign(): the entry, perhaps one a message made, gets the transaction and
\* the promise of this call; handleMyTurnForTx comes next.
SignCall(g) ==
    /\ Acquire(g)
    /\ entry' = [entry EXCEPT ![g].asked = TRUE]
    /\ promise' = [promise EXCEPT ![g] = "pending"]
    /\ IF turn = g /\ entry[g].coord # g THEN StartsTurn(g) ELSE starting' = starting
    /\ UNCHANGED <<turn, sem, local, waiting, made, start, net>>

\* handleMyTurn up to the test of handleMyTurnForTx.
MyTurn(g) ==
    /\ turn = g /\ queued[g] /\ entry[g].coord # g
    /\ StartsTurn(g)
    /\ UNCHANGED <<turn, queued, entry, sem, local, waiting, promise, made, start, net>>

\* The rest of handleMyTurnForTx, on the object it has read, which may be out of
\* the map by now; the turn may be another's, and generateCommitment sets its
\* guard as the coordinator.
Initiate(g, c) ==
    /\ starting[g][c] # "no"
    /\ starting' = [starting EXCEPT ![g][c] = "no"]
    /\ LET e == IF starting[g][c] = "held"
                THEN [Clean(entry[g]) EXCEPT !.coord = g] ELSE entry[g]
       IN \/ /\ ~ Known(e)
             /\ entry' = [entry EXCEPT ![g] = e]
             /\ made' = made
          \/ /\ Known(e) /\ made[g] < MaxSecrets
             /\ entry' = [entry EXCEPT ![g] = Committed(g, e, turn)]
             /\ made' = [made EXCEPT ![g] = @ + 1]
    /\ Send(Message(g, "generate", Others(g), start[g], {}))
    /\ UNCHANGED <<turn, queued, sem, local, waiting, promise, start>>

\* generateCommitment for a coordinator: no semaphore, and any guard is
\* accepted, whoever's turn it is.
ReceiveGenerate(g) ==
    \E m \in Arriving(g, "generate") :
        /\ Known(entry[g]) /\ made[g] < MaxSecrets
        /\ entry' = [entry EXCEPT ![g] = Committed(g, @, m.from)]
        /\ made' = [made EXCEPT ![g] = @ + 1]
        /\ \E rest \in After(g, m) :
              SendTo(rest, Message(g, "commitment", {m.from}, start[g], Fresh(g)))
        /\ UNCHANGED <<turn, queued, sem, starting, local, waiting, promise, start>>

-----------------------------------------------------------------------------
(***************************************************************************)
(* Handlers under the semaphore                                            *)
(***************************************************************************)

\* handleCommitment to its first await.
Collects(g) ==
    /\ Known(entry[g]) /\ entry[g].secret # 0
    /\ entry[g].coord = g /\ ~ Enough(entry[g].cmts)

ReceiveCommitment(g) ==
    \E m \in Arriving(g, "commitment") :
        /\ Acquire(g)
        /\ \/ ~ Collects(g) /\ UNCHANGED <<entry, sem>>
           \/ LET cmts == Put(entry[g].cmts, m.body) IN
              /\ Collects(g)
              /\ entry' = [entry EXCEPT ![g].cmts = cmts]
              /\ sem' = IF Enough(cmts)
                        THEN [sem EXCEPT ![g] = [at |-> "simulate", cmts |-> cmts]]
                        ELSE sem
        /\ net' \in After(g, m)
        /\ UNCHANGED <<turn, starting, local, waiting, promise, made, start>>

\* After extract_hints of the simulation: the guard signs with the secret it
\* has now, which generateCommitment may have replaced meanwhile.
Simulated(g) ==
    /\ sem[g].at = "simulate"
    /\ entry' = [entry EXCEPT ![g].sim = {sem[g].cmts}]
    /\ sem' = [sem EXCEPT ![g] =
                  [at |-> "prove",
                   proof |-> [by |-> g, secret |-> entry[g].secret,
                              cmts |-> sem[g].cmts, sim |-> {sem[g].cmts}]]]
    /\ UNCHANGED <<turn, queued, starting, local, waiting, promise, made, start, net>>

\* After extract_hints of its own proof: the commitments sent are those of now.
Proved(g) ==
    /\ sem[g].at = "prove"
    /\ entry' = [entry EXCEPT ![g].signs = Put(@, sem[g].proof)]
    /\ Send(Message(g, "initiate", By(entry[g].cmts) \ {g}, start[g],
                     [cmts |-> entry[g].cmts, sim |-> sem[g].proof.sim]))
    /\ Release(g)
    /\ UNCHANGED <<turn, queued, starting, local, waiting, promise, made, start>>

\* initiateSign, in the turn of the sender, to its wait for the semaphore.
Wait(g) ==
    \E m \in Arriving(g, "initiate") :
        /\ m.from = turn /\ sem[g] # Free
        /\ waiting' = [waiting EXCEPT ![g] = @ \cup {m}]
        /\ net' \in After(g, m)
        /\ UNCHANGED <<turn, queued, entry, sem, starting, local, promise, made, start>>

\* initiateSign from there to its await.
Prepare(g, m) ==
    /\ Acquire(g)
    /\ \/ ~ (Known(entry[g]) /\ entry[g].secret # 0) /\ UNCHANGED sem
       \/ /\ Known(entry[g]) /\ entry[g].secret # 0
          /\ sem' = [sem EXCEPT ![g] =
                [at |-> "answer", to |-> m.from, peer |-> m.peer,
                 proof |-> [by |-> g, secret |-> entry[g].secret,
                            cmts |-> m.body.cmts, sim |-> m.body.sim]]]
    /\ UNCHANGED <<turn, entry, starting, local, promise, made, start>>

ReceiveInitiate(g) ==
    \/ \E m \in Arriving(g, "initiate") :
          m.from = turn /\ Prepare(g, m) /\ net' \in After(g, m) /\ UNCHANGED waiting
    \/ \E m \in waiting[g] :
          Prepare(g, m) /\ waiting' = [waiting EXCEPT ![g] = @ \ {m}] /\ UNCHANGED net

\* The rest of initiateSign; the process that asked may be gone.
Answered(g) ==
    /\ sem[g].at = "answer"
    /\ IF sem[g].peer = start[sem[g].to]
       THEN Send(Message(g, "sign", {sem[g].to}, start[g], sem[g].proof))
       ELSE net' = net
    /\ Release(g)
    /\ UNCHANGED <<turn, queued, entry, starting, local, waiting, promise, made, start>>

\* The proofs made for what the entry holds, with the secrets committed to.
Matching(e) ==
    {p \in e.signs : /\ p.cmts = e.cmts /\ p.sim = e.sim
                     /\ [by |-> p.by, secret |-> p.secret] \in e.cmts}

\* What sign_reduced_transaction_multi can make of the proofs of e; nothing when
\* it throws.  A script is satisfied by the proofs of all that committed; one
\* beside them may spoil the transaction.
Combined(e) ==
    LET tx(valid) == {[valid |-> valid, by |-> By(e.signs)]}
    IN IF Enough(e.cmts) /\ By(Matching(e)) = By(e.cmts)
       THEN IF e.signs = Matching(e) THEN {tx(TRUE)} ELSE {tx(TRUE), tx(FALSE), {}}
       ELSE {tx(FALSE), {}}

\* handleSign up to the call of handleSignedTx.
ReceiveSign(g) ==
    \E m \in Arriving(g, "sign") :
        /\ Acquire(g)
        /\ LET e == [entry[g] EXCEPT !.signs = Put(@, m.body)]
               takes == Known(entry[g]) /\ entry[g].sim # {}
           IN \/ ~ takes /\ UNCHANGED <<entry, local>>
              \/ /\ takes /\ entry' = [entry EXCEPT ![g] = e]
                 /\ \/ ~ Enough(e.signs) /\ local' = local
                    \/ /\ Enough(e.signs)
                       /\ \E txs \in Combined(e) :
                             local' = [local EXCEPT ![g] = @ \cup txs]
        /\ net' \in After(g, m)
        /\ UNCHANGED <<turn, sem, starting, waiting, promise, made, start>>

\* handleSignedTx to its await, for a transaction of g itself or a message.
VerifyLocal(g) ==
    \E tx \in local[g] :
        /\ Acquire(g)
        /\ sem' = [sem EXCEPT ![g] = [at |-> "verify", tx |-> tx, own |-> TRUE]]
        /\ local' = [local EXCEPT ![g] = @ \ {tx}]
        /\ UNCHANGED <<turn, entry, starting, waiting, promise, made, start, net>>

ReceiveSigned(g) ==
    \E m \in Arriving(g, "signedTx") :
        /\ Acquire(g)
        /\ sem' = [sem EXCEPT ![g] = [at |-> "verify", tx |-> m.body, own |-> FALSE]]
        /\ net' \in After(g, m)
        /\ UNCHANGED <<turn, entry, starting, local, waiting, promise, made, start>>

\* handleSign sends what it combined, whatever handleSignedTx made of it.
Broadcast(g) ==
    IF sem[g].own
    THEN Send(Message(g, "signedTx", Others(g), start[g], sem[g].tx))
    ELSE net' = net

\* The rest of handleSignedTx; without the boxes of sign() nothing is valid.
Verified(g) ==
    /\ sem[g].at = "verify"
    /\ Delete(g)
    /\ Broadcast(g)
    /\ Release(g)
    /\ UNCHANGED <<turn, local, waiting, made, start>>

\* Mutant: the semaphore is kept when something throws.
ReleaseNone(g) == UNCHANGED sem

ReleaseAfterError(g) == Release(g)

\* getStateContext or the wasm library throws: the handler ends there.
Fail(g) ==
    /\ sem[g] # Free
    /\ IF sem[g].at = "verify" THEN Broadcast(g) ELSE net' = net
    /\ ReleaseAfterError(g)
    /\ UNCHANGED <<turn, queued, entry, starting, local, waiting, promise, made, start>>

\* cleanup, of an entry created before the time-out and, if it has a
\* coordinator, coordinated by g.
Expired(e) == e.age > SignTimeout

Cleanup(g) ==
    /\ sem[g] = Free /\ queued[g]
    /\ entry[g].coord \in {-1, g} /\ Expired(entry[g])
    /\ Delete(g)
    /\ UNCHANGED <<turn, sem, local, waiting, made, start, net>>

-----------------------------------------------------------------------------
(***************************************************************************)
(* Environment                                                             *)
(***************************************************************************)

\* The next turn begins.
Tick ==
    /\ turn' = (turn + 1) % N
    /\ entry' = [g \in Guard |->
                    [entry[g] EXCEPT !.age = IF queued[g] /\ @ <= SignTimeout
                                             THEN @ + 1 ELSE @]]
    /\ net' = {IF m.type = "generate" THEN [m EXCEPT !.age = @ + 1] ELSE m :
                  m \in {x \in net : x.age < MessageValid \/ x.type # "generate"}}
    /\ UNCHANGED <<queued, sem, starting, local, waiting, promise, made, start>>

\* A message is lost.
Lose ==
    \E m \in net :
        /\ net' = net \ {m}
        /\ UNCHANGED <<turn, queued, entry, sem, starting, local, waiting, promise, made, start>>

\* The process of g dies and starts again; messages to the old one are lost.
Restart(g) ==
    /\ g \in Restarting /\ start[g] < MaxStarts
    /\ start' = [start EXCEPT ![g] = @ + 1]
    /\ queued' = [queued EXCEPT ![g] = FALSE]
    /\ entry' = [entry EXCEPT ![g] = NewEntry]
    /\ sem' = [sem EXCEPT ![g] = Free]
    /\ starting' = [starting EXCEPT ![g] = [c \in Caller |-> "no"]]
    /\ local' = [local EXCEPT ![g] = {}]
    /\ waiting' = [waiting EXCEPT ![g] = {}]
    /\ Settle(g)
    /\ net' = {[m EXCEPT !.to = @ \ {g}] : m \in {x \in net : x.to # {g}}}
    /\ UNCHANGED <<turn, made>>

Step(g) == Simulated(g) \/ Proved(g) \/ Answered(g) \/ Verified(g) \/ Fail(g)

Next ==
    \/ Tick \/ Lose
    \/ \E g \in Guard :
          \/ SignCall(g) \/ MyTurn(g) \/ (\E c \in Caller : Initiate(g, c))
          \/ ReceiveGenerate(g) \/ Wait(g)
          \/ ReceiveCommitment(g) \/ ReceiveInitiate(g) \/ ReceiveSign(g)
          \/ VerifyLocal(g) \/ ReceiveSigned(g)
          \/ Step(g) \/ Cleanup(g) \/ Restart(g)

Spec == Init /\ [][Next]_vars

\* Requests to a node return or fail, the application goes on calling cleanup(),
\* which is served in turn by the semaphore, and time goes on.
FairSpec ==
    /\ Spec
    /\ WF_vars(Tick)
    /\ \A g \in Guard : WF_vars(Step(g)) /\ SF_vars(Cleanup(g))

-----------------------------------------------------------------------------
(***************************************************************************)
(* Properties                                                              *)
(***************************************************************************)

\* What the variables hold, and that a task and a message carry what their
\* handlers read.
Entry ==
    [asked : BOOLEAN, secret : 0 .. MaxSecrets, sim : Bag,
     signs : SUBSET Proof, cmts : SUBSET Commitment, coord : -1 .. N - 1,
     age : 0 .. SignTimeout + 1]

Task ==
    {Free}
        \cup [at : {"simulate"}, cmts : SUBSET Commitment]
        \cup [at : {"prove"}, proof : Proof]
        \cup [at : {"answer"}, to : Guard, peer : 1 .. MaxStarts, proof : Proof]
        \cup [at : {"verify"}, tx : SignedTx, own : BOOLEAN]

Messages(type, body) ==
    [type : {type}, from : Guard, to : (SUBSET Guard) \ {{}}, peer : 1 .. MaxStarts,
     body : body, age : 0 .. MessageValid]

InitiateMessage == Messages("initiate", [cmts : SUBSET Commitment, sim : Bag])

AnyMessage ==
    Messages("generate", {{}}) \cup Messages("commitment", Commitment)
        \cup InitiateMessage
        \cup Messages("sign", Proof) \cup Messages("signedTx", SignedTx)

TypeOK ==
    /\ turn \in Guard
    /\ queued \in [Guard -> BOOLEAN]
    /\ entry \in [Guard -> Entry]
    /\ sem \in [Guard -> Task]
    /\ starting \in [Guard -> [Caller -> {"no", "held", "stale"}]]
    /\ local \in [Guard -> SUBSET SignedTx]
    /\ waiting \in [Guard -> SUBSET InitiateMessage]
    /\ promise \in [Guard -> {"none", "pending", "over"}]
    /\ made \in [Guard -> 0 .. MaxSecrets]
    /\ start \in [Guard -> 1 .. MaxStarts]
    /\ net \subseteq AnyMessage

Asked(g) == promise[g] # "none"

\* Transactions anywhere in the system.
Txs ==
    (UNION {local[g] : g \in Guard})
        \cup {sem[g].tx : g \in {h \in Guard : sem[h].at = "verify"}}
        \cup {m.body : m \in {x \in net \cup (UNION {waiting[g] : g \in Guard}) :
                              x.type = "signedTx"}}

\* A transaction is validly signed only with proofs of the required number of
\* guards, each of which was asked to sign it by its own application: requests
\* of a coordinator (generateCommitment, initiateSign) do not suffice.
QuorumAsked ==
    \A tx \in Txs : tx.valid => Enough(tx.by) /\ \A g \in tx.by : Asked(g)

\* The commitments in `cmts` that g got from others.
Foreign(g, cmts) == {x \in cmts : x.by # g}

\* The signers are given the very commitments the others were simulated for,
\* whatever generateCommitment does to the entry during the awaits of
\* handleCommitment.  Only that of the coordinator itself can be another, when runs
\* of handleMyTurnForTx overlap: one that outlived its entry replaces it.
InitiatesOneRound ==
    \A m \in net : m.type = "initiate" =>
        \E sim \in m.body.sim :
            /\ Foreign(m.from, m.body.cmts) = Foreign(m.from, sim)
            /\ MaxCallers = 1 => m.body.cmts = sim

\* Commitments of others are kept by their coordinator alone (handleCommitment
\* with generateCommitment): none survives the change of coordinator.
CollectedByCoordinator ==
    \A g \in Guard : By(entry[g].cmts) \subseteq {g} \/ entry[g].coord = g

\* The promise of the last call of sign() hangs on a transaction in the queue
\* until it is settled: what deletes a transaction answers its caller.
NoOrphanedCaller ==
    \A g \in Guard : promise[g] = "pending" => queued[g] /\ entry[g].asked

\* A transaction past its time-out that has no coordinator, or this guard, does
\* not stay (cleanup): whatever awaits fail, the semaphore comes free.
QueueDrains ==
    \A g \in Guard :
        queued[g] /\ Expired(entry[g])
            ~> \/ ~ queued[g] \/ ~ Expired(entry[g])
               \/ entry[g].coord \notin {-1, g}
=============================================================================
