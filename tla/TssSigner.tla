------------------------------ MODULE TssSigner ------------------------------
(***************************************************************************)
(* The turn based agreement protocol of packages/tss (class TssSigner):    *)
(* the guard whose turn it is asks the others to approve a message, starts *)
(* the threshold signing once enough of them approved, and every starter   *)
(* hands the list of approving peers to its local tss-api.                 *)
(*                                                                         *)
(* The code is single threaded JavaScript: it interleaves only at awaits.  *)
(* The awaits that can last (the mutex signAccessMutex, the HTTP calls to  *)
(* tss-api, the network) are separate steps here; an await that only       *)
(* yields to already resolved local promises is not.                       *)
(***************************************************************************)
EXTENDS Integers, Sequences, FiniteSets

CONSTANTS
    N,             \* number of guards (guardPks.length)
    Msgs,          \* messages the guards are asked to sign
    Threshold,     \* parties a signing needs: tss-api's threshold + 1
    Version,       \* protocolVersion of each guard, a pair <<major, minor>>
    TurnDuration,  \* turnDuration, in ticks
    TurnNoWork,    \* turnNoWork, in ticks
    Timeout,       \* timeout of a sign in the queue, in ticks
    MessageValid,  \* messageValidDuration, in ticks
    SignPerRound,  \* signPerRoundLimit
    CacheTTL,      \* signCacheTTLSeconds, in ticks
    MinActive,     \* bound: active guards detection knows at least, with itself
    HttpFails,     \* bound: whether HTTP calls to tss-api can fail
    Results,       \* bound: kinds of results tss-api reports
    MaxTime,       \* bound: last tick of a behaviour
    LastCall,      \* bound: last tick at which sign() is called
    MaxCalls,      \* bound: calls of sign() per guard and message
    MaxQueue,      \* bound: tasks waiting for one signAccessMutex
    MaxRestarts    \* bound: restarts of guard processes

Guard == 0 .. N - 1

ASSUME ConstantsAssumption ==
    /\ N \in Nat \ {0}
    /\ Threshold \in Nat
    /\ Version \in [Guard -> Nat \X Nat]
    /\ TurnDuration \in Nat \ {0}
    /\ {TurnNoWork, Timeout, MessageValid, SignPerRound, CacheTTL, MinActive,
        MaxTime, LastCall, MaxCalls, MaxQueue, MaxRestarts} \subseteq Nat
    /\ HttpFails \in BOOLEAN
    /\ Results \subseteq {"signed", "bad", "failed"}

(***************************************************************************)
(* Data.  A request is identified by the message, the guard that issued it *)
(* (initGuardIndex), the active guards it names and its timestamp.  An     *)
(* approval stands for a signature by a guard over such a request.         *)
(***************************************************************************)
Request == [msg : Msgs, init : Guard, guards : SUBSET Guard, ts : Nat]
Approval == [by : Guard, req : Request]

\* A message of the communicator; its timestamp is always the request's.
Message == [type : {"request", "approve", "start", "cached"}, from : Guard,
            to : SUBSET Guard, req : Request, sigs : SUBSET Approval]

\* An element of `signs`.  `request` is empty until update() sets it; `answer`
\* is how the promise of the caller was settled.
Entry == [msg : Msgs, addedTime : Nat, posted : BOOLEAN,
          request : SUBSET Request, sigs : SUBSET Approval,
          answer : {"none", "ok", "failed"}]

\* What waits for, or (first in the queue) holds, the mutex signAccessMutex.
\* "posting": the holder awaits the answer of tss-api to the sign request.
Task == [kind : {"add"}, msg : Msgs]
   \cup [kind : {"remove"}, msg : Msgs]
   \cup [kind : {"fail"}, id : Nat \ {0}]
   \cup [kind : {"posting"}, id : Nat \ {0}]
   \cup [kind : {"request"}, id : Nat \ {0}, guards : SUBSET Guard, ts : Nat]
   \cup [kind : {"approve"}, id : Nat \ {0}, sig : Approval]
   \cup [kind : {"start"}, req : Request, peers : SUBSET Guard]
   \cup [kind : {"cleanup"}, limit : Int, turn : Guard]

\* The progress of one call of update().
Update == [pc : {"idle", "cleanup", "turn", "start", "loop", "wait"},
           todo : SUBSET (Nat \ {0}), guards : SUBSET Guard, ts : Nat]

VARIABLES
    now,        \* the clock (getDate), shared by the guards
    entries,    \* every Sign object a guard created, in creation order
    signs,      \* indices of the entries in `signs`, the queue of a guard
    lock,       \* signAccessMutex: its holder, then the waiting tasks
    pending,    \* pendingSigns
    cache,      \* messages with a signature in signCache
    verifying,  \* results being verified with tss-api's public key
    threshold,  \* threshold.value, -1 when never fetched
    lastRound,  \* lastUpdateRound
    upd,        \* the running update() of a guard
    net,        \* messages sent: any of them can arrive, late, twice or never
    awaiting,   \* signings posted to the guard's tss-api, result outstanding
    approvals,  \* history: every approval a guard ever signed
    posts,      \* history: every signing a guard posted to its tss-api
    asked,      \* history: how often the application called sign()
    restarts

vars == <<now, entries, signs, lock, pending, cache,
          verifying, threshold, lastRound, upd, net, awaiting, approvals,
          posts, asked, restarts>>

Post == [by : Guard, req : Request, peers : SUBSET Guard]
Idle == [pc |-> "idle", todo |-> {}, guards |-> {}, ts |-> 0]
NoneYet == -1

TypeOK ==
    /\ now \in Nat
    /\ entries \in [Guard -> Seq(Entry)]
    /\ signs \in [Guard -> SUBSET (Nat \ {0})]
    /\ \A g \in Guard : signs[g] \subseteq DOMAIN entries[g]
    /\ lock \in [Guard -> Seq(Task)]
    /\ pending \in [Guard -> SUBSET Request]
    /\ cache \in [Guard -> SUBSET Msgs]
    /\ verifying \in [Guard -> SUBSET [id : Nat \ {0}, good : BOOLEAN]]
    /\ threshold \in [Guard -> {NoneYet, Threshold}]
    /\ lastRound \in [Guard -> Nat]
    /\ upd \in [Guard -> Update]
    /\ net \subseteq Message
    /\ awaiting \in [Guard -> SUBSET Post]
    /\ approvals \subseteq Approval
    /\ posts \subseteq Post
    /\ asked \in [Guard -> [Msgs -> Nat]]
    /\ restarts \in Nat

Init ==
    /\ now = TurnDuration
    /\ entries = [g \in Guard |-> <<>>]
    /\ signs = [g \in Guard |-> {}]
    /\ lock = [g \in Guard |-> <<>>]
    /\ pending = [g \in Guard |-> {}]
    /\ cache = [g \in Guard |-> {}]
    /\ verifying = [g \in Guard |-> {}]
    /\ threshold = [g \in Guard |-> NoneYet]
    /\ lastRound = [g \in Guard |-> 0]
    /\ upd = [g \in Guard |-> Idle]
    /\ net = {}
    /\ awaiting = [g \in Guard |-> {}]
    /\ approvals = {}
    /\ posts = {}
    /\ asked = [g \in Guard |-> [m \in Msgs |-> 0]]
    /\ restarts = 0

-----------------------------------------------------------------------------
(***************************************************************************)
(* Helpers                                                                 *)
(***************************************************************************)
Round(t) == t \div TurnDuration

\* Mutant: guards counted from 1.
GuardTurnFromOne(t) == (Round(t) % N) + 1

GuardTurn(t) == Round(t) % N
NoWorkTime(t) == (Round(t) + 1) * TurnDuration - t <= TurnNoWork

IsFirst(i, S) == \A j \in S : i <= j

\* The least k elements of S: signs.slice(0, k).
Firsts(S, k) == {i \in S : Cardinality({j \in S : j < i}) < k}

\* Mutant: entries already handed to tss-api are found too.
SignInPosted(es, ids, m, searchPosted) ==
    LET same == {i \in ids : es[i].msg = m}
    IN  {i \in same : IsFirst(i, same)}

\* Mutant: the posted entries are filtered out before the first is taken.
SignInUnposted(es, ids, m, searchPosted) ==
    LET same == {i \in ids : es[i].msg = m /\ (searchPosted \/ ~es[i].posted)}
    IN  {i \in same : IsFirst(i, same)}

\* getSign on a queue `ids` of entries `es`: the first entry of the message,
\* hidden when it is posted unless searchPosted; as a set of at most one.
SignIn(es, ids, m, searchPosted) ==
    LET same == {i \in ids : es[i].msg = m}
    IN  {i \in same : IsFirst(i, same) /\ (searchPosted \/ ~es[i].posted)}

\* Mutant: the first entry, whatever its message.
GetSignFirst(g, m, searchPosted) == {i \in signs[g] : IsFirst(i, signs[g])}

GetSign(g, m, searchPosted) == SignIn(entries[g], signs[g], m, searchPosted)

\* Mutant: a signature counts without being verified against the request.
ApprovedUnverified(g, req, sigs) == {h \in req.guards : \E a \in sigs : a.by = h}

\* Mutant: the guard itself is left out.
ApprovedOthers(g, req, sigs) ==
    {h \in req.guards \ {g} : [by |-> h, req |-> req] \in sigs}

\* The guards of a request whose approval is among sigs and verifies, which
\* includes the verifier's own protocolVersion (generatePayloadToSign).
ApprovedGuards(g, req, sigs) ==
    {h \in req.guards : /\ [by |-> h, req |-> req] \in sigs
                        /\ Version[h] = Version[g]}

\* signs[guardIndex] = signature
StoreSig(sigs, sig) == {a \in sigs : a.by # sig.by} \cup {sig}

\* The promise of signPromised settles once; later callbacks are ignored.
Settle(e, status) == IF e.answer = "none" THEN [e EXCEPT !.answer = status] ELSE e

Holds(g, kind) == lock[g] # <<>> /\ Head(lock[g]).kind = kind
Acquire(g, task) == lock' = [lock EXCEPT ![g] = Append(@, task)]
Release(g) == lock' = [lock EXCEPT ![g] = Tail(@)]
RoomInQueue(g) == Len(lock[g]) < MaxQueue

\* No local step of g is ready: its mutex is free or held over an HTTP call.
Quiet(g) == /\ lock[g] = <<>> \/ Holds(g, "posting")
            /\ upd[g].pc \notin {"turn", "loop"}
AllQuiet == \A g \in Guard : Quiet(g)

Send(m) == net' = net \cup {m}

\* m is addressed to g and of the major version g accepts.
Addressed(g, m) ==
    m \in net /\ g \in m.to /\ Version[m.from][1] = Version[g][1]

\* handleMessage lets m through to processMessage at guard g.
Receivable(g, m) == Addressed(g, m) /\ now - MessageValid <= m.req.ts

\* A signature exists: a sufficient set of peers all run the same signing.
Signed(m) ==
    \E p \in posts :
        /\ p.req.msg = m
        /\ Cardinality(p.peers) >= Threshold
        /\ \A h \in p.peers :
               \E q \in posts : q.by = h /\ q.req.msg = m /\ q.peers = p.peers

-----------------------------------------------------------------------------
(***************************************************************************)
(* Queueing a message and answering requests                               *)
(***************************************************************************)

\* getPendingSign: the pending requests of the message, at most one.
PendingOf(g, m) == {p \in pending[g] : p.msg = m}

SendCached(g, req) ==
    Send([type |-> "cached", from |-> g, to |-> {req.init}, req |-> req, sigs |-> {}])

Approve(g, req) ==
    LET a == [by |-> g, req |-> req]
    IN  /\ approvals' = approvals \cup {a}
        /\ Send([type |-> "approve", from |-> g, to |-> {req.init}, req |-> req,
                 sigs |-> {a}])

\* One pending request per message: a later one replaces it.
KeepPending(g, req) ==
    pending' = [pending EXCEPT ![g] = (@ \ PendingOf(g, req.msg)) \cup {req}]

\* Mutant: a request is approved although the application never asked for it.
AnswerRequestEagerly(g, req, queued) ==
    \/ req.msg \in cache[g] /\ SendCached(g, req) /\ UNCHANGED <<approvals, pending>>
    \/ req.msg \notin cache[g] /\ Approve(g, req) /\ UNCHANGED pending

\* handleRequestMessage after its turn check.  `queued`: getSign finds the
\* message.  What detection knows of the guards in the request is left open: one
\* with another peer id there ends the handler, an unknown one is registered and
\* the handler runs again when that is answered.
AnswerRequest(g, req, queued) ==
    \/ req.msg \in cache[g] /\ SendCached(g, req) /\ UNCHANGED <<approvals, pending>>
    \/ req.msg \notin cache[g] /\ queued /\ Approve(g, req) /\ UNCHANGED pending
    \/ req.msg \notin cache[g] /\ ~queued /\ KeepPending(g, req)
       /\ UNCHANGED <<net, approvals>>

\* sign(): the application asks for a signature.  A cached result answers at
\* once, a queued message makes the call throw: neither changes the queue.
Sign(g, m) ==
    /\ asked[g][m] < MaxCalls /\ now <= LastCall
    /\ \A h \in Guard \ {g} : Quiet(h)
    /\ GetSign(g, m, TRUE) = {}
    /\ asked' = [asked EXCEPT ![g][m] = @ + 1]
    /\ \/ m \in cache[g] /\ UNCHANGED lock
       \/ m \notin cache[g] /\ Acquire(g, [kind |-> "add", msg |-> m])
    /\ UNCHANGED <<now, entries, signs, pending, cache,
                   verifying, threshold, lastRound, upd, net, awaiting,
                   approvals, posts, restarts>>

\* The rest of sign(), under the mutex: push the entry, release, and process a
\* request for it that arrived before, unless its guards end the handler.
AddSign(g) ==
    /\ Holds(g, "add")
    /\ LET m == Head(lock[g]).msg
           e == [msg |-> m, addedTime |-> now, posted |-> FALSE,
                 request |-> {}, sigs |-> {}, answer |-> "none"]
           es == Append(entries[g], e)
           ids == signs[g] \cup {Len(es)}
       IN  /\ entries' = [entries EXCEPT ![g] = es]
           /\ signs' = [signs EXCEPT ![g] = ids]
           /\ LET P == {p \in PendingOf(g, m) : p.init = GuardTurn(now)}
              IN  \/ UNCHANGED <<net, approvals, pending>>
                  \/ \E p \in P :
                        AnswerRequest(g, p, SignIn(es, ids, m, FALSE) # {})
    /\ Release(g)
    /\ UNCHANGED <<now, cache, verifying, threshold, lastRound, upd, awaiting,
                   posts, asked, restarts>>

\* A request arrives from the guard whose turn it is.
ReceiveRequest(g, m) ==
    /\ Receivable(g, m) /\ m.type = "request"
    /\ GuardTurn(now) = m.from
    /\ AnswerRequest(g, m.req, GetSign(g, m.req.msg, FALSE) # {})
    /\ UNCHANGED <<now, entries, signs, lock, cache, verifying,
                   threshold, lastRound, upd, awaiting, posts, asked, restarts>>

\* detection.register called back: the request is handled again, however old
\* the message that brought it.
RegisterAnswered(g, m) ==
    /\ Addressed(g, m) /\ m.type = "request"
    /\ GuardTurn(now) = m.from
    /\ AnswerRequest(g, m.req, GetSign(g, m.req.msg, FALSE) # {})
    /\ UNCHANGED <<now, entries, signs, lock, cache, verifying,
                   threshold, lastRound, upd, awaiting, posts, asked, restarts>>

-----------------------------------------------------------------------------
(***************************************************************************)
(* update(): clean up, and in my turn ask the others to approve            *)
(***************************************************************************)

UpdateBegin(g) ==
    /\ upd[g].pc = "idle"
    /\ upd' = [upd EXCEPT ![g].pc = "cleanup"]
    /\ Acquire(g, [kind |-> "cleanup", limit |-> now - Timeout,
                   turn |-> GuardTurn(now)])
    /\ UNCHANGED <<now, entries, signs, pending, cache,
                   verifying, threshold, lastRound, net, awaiting, approvals,
                   posts, asked, restarts>>

\* Mutant: the timeout subtracted twice.
FreshLonger(e, limit) == e.addedTime > limit - Timeout

\* What the filter of cleanup() keeps.
Fresh(e, limit) == e.addedTime > limit

\* cleanup(), under the mutexes, with the time and the turn read before them.
Cleanup(g) ==
    /\ Holds(g, "cleanup")
    /\ LET task == Head(lock[g])
       IN  /\ signs' = [signs EXCEPT ![g] =
                          {i \in @ : Fresh(entries[g][i], task.limit)}]
           /\ pending' = [pending EXCEPT ![g] = {p \in @ : p.init = task.turn}]
    /\ upd' = [upd EXCEPT ![g].pc = "turn"]
    /\ Release(g)
    /\ UNCHANGED <<now, entries, cache, verifying, threshold,
                   lastRound, net, awaiting, approvals, posts, asked, restarts>>

\* Not my turn or nothing to sign: done.  Else updateThreshold, which fails
\* silently when tss-api does not answer.
UpdateTurn(g) ==
    /\ upd[g].pc = "turn"
    /\ \/ /\ GuardTurn(now) # g \/ signs[g] = {}
          /\ upd' = [upd EXCEPT ![g] = Idle]
          /\ UNCHANGED threshold
       \/ /\ GuardTurn(now) = g /\ signs[g] # {}
          /\ upd' = [upd EXCEPT ![g].pc = "start"]
          /\ \/ threshold' = [threshold EXCEPT ![g] = Threshold]
             \/ HttpFails /\ UNCHANGED threshold
    /\ UNCHANGED <<now, entries, signs, lock, pending, cache,
                   verifying, lastRound, net, awaiting, approvals, posts, asked,
                   restarts>>

\* Mutant: update() does not remember the round it processed.
NewRoundAlways(g) == TRUE

NewRound(g) == Round(now) # lastRound[g]

\* Read the active guards and, once per round, take the first signs to process.
UpdateStart(g) ==
    /\ upd[g].pc = "start"
    /\ \E active \in SUBSET Guard :
          /\ g \in active /\ Cardinality(active) >= MinActive
          /\ \/ /\ Cardinality(active) < threshold[g] \/ ~NewRound(g)
                /\ upd' = [upd EXCEPT ![g] = Idle]
                /\ UNCHANGED lastRound
             \/ /\ Cardinality(active) >= threshold[g] /\ NewRound(g)
                /\ lastRound' = [lastRound EXCEPT ![g] = Round(now)]
                /\ upd' = [upd EXCEPT ![g] =
                             [pc |-> "loop", guards |-> active, ts |-> now,
                              todo |-> Firsts(signs[g], SignPerRound)]]
    /\ UNCHANGED <<now, entries, signs, lock, pending, cache,
                   verifying, threshold, net, awaiting, approvals, posts, asked,
                   restarts>>

RequestOf(g, i, guards, ts) ==
    [msg |-> entries[g][i].msg, init |-> g, guards |-> guards, ts |-> ts]

\* The loop over the signs: skip a posted one, else broadcast the request and
\* wait for the mutex.
UpdateLoop(g) ==
    /\ upd[g].pc = "loop"
    /\ \/ /\ upd[g].todo = {}
          /\ upd' = [upd EXCEPT ![g] = Idle]
          /\ UNCHANGED <<lock, net>>
       \/ \E i \in upd[g].todo :
             /\ IsFirst(i, upd[g].todo)
             /\ entries[g][i].posted
             /\ upd' = [upd EXCEPT ![g].todo = @ \ {i}]
             /\ UNCHANGED <<lock, net>>
       \/ \E i \in upd[g].todo :
             /\ IsFirst(i, upd[g].todo)
             /\ ~entries[g][i].posted
             /\ Send([type |-> "request", from |-> g, to |-> Guard \ {g},
                      req |-> RequestOf(g, i, upd[g].guards, upd[g].ts),
                      sigs |-> {}])
             /\ Acquire(g, [kind |-> "request", id |-> i,
                            guards |-> upd[g].guards, ts |-> upd[g].ts])
             /\ upd' = [upd EXCEPT ![g].pc = "wait", ![g].todo = @ \ {i}]
    /\ UNCHANGED <<now, entries, signs, pending, cache,
                   verifying, threshold, lastRound, awaiting, approvals, posts,
                   asked, restarts>>

\* Under the mutex: the entry gets the request, forgets earlier approvals and
\* receives this guard's own.
SetRequest(g) ==
    /\ Holds(g, "request")
    /\ LET task == Head(lock[g])
           req == RequestOf(g, task.id, task.guards, task.ts)
           own == [by |-> g, req |-> req]
       IN  /\ entries' = [entries EXCEPT ![g][task.id].request = {req},
                                         ![g][task.id].sigs = {own}]
           /\ approvals' = approvals \cup {own}
    /\ upd' = [upd EXCEPT ![g].pc = "loop"]
    /\ Release(g)
    /\ UNCHANGED <<now, signs, pending, cache, verifying,
                   threshold, lastRound, net, awaiting, posts, asked, restarts>>

-----------------------------------------------------------------------------
(***************************************************************************)
(* Collecting approvals and starting                                       *)
(***************************************************************************)

\* handleApproveMessage up to the mutex.
ReceiveApprove(g, m) ==
    /\ Receivable(g, m) /\ m.type = "approve"
    /\ RoomInQueue(g) /\ ~NoWorkTime(now)
    /\ \E i \in GetSign(g, m.req.msg, FALSE), a \in m.sigs :
          /\ entries[g][i].request # {}
          /\ Acquire(g, [kind |-> "approve", id |-> i, sig |-> a])
    /\ UNCHANGED <<now, entries, signs, pending, cache,
                   verifying, threshold, lastRound, upd, net, awaiting,
                   approvals, posts, asked, restarts>>

\* startSign posts the entry i: it is marked, and the mutex stays held until
\* tss-api answers the HTTP request.
Posting(g, i, req, peers) ==
    LET p == [by |-> g, req |-> req, peers |-> peers]
    IN  /\ posts' = posts \cup {p}
        /\ awaiting' = [awaiting EXCEPT ![g] = @ \cup {p}]
        /\ lock' = [lock EXCEPT ![g] = <<[kind |-> "posting", id |-> i]>> \o Tail(@)]

\* handleApproveMessage under the mutex: store the signature and, when enough
\* guards approved, tell them to start and start.
HandleApprove(g) ==
    /\ Holds(g, "approve")
    /\ LET task == Head(lock[g])
           e == entries[g][task.id]
           sigs == StoreSig(e.sigs, task.sig)
           stored == [entries EXCEPT ![g][task.id].sigs = sigs]
       IN  \E req \in e.request :
             LET approved == ApprovedGuards(g, req, sigs)
                 target == GetSign(g, e.msg, FALSE)
             IN  \/ /\ Cardinality(approved) < threshold[g] \/ target = {}
                    /\ entries' = stored
                    /\ Release(g)
                    /\ UNCHANGED <<net, awaiting, posts>>
                 \/ /\ Cardinality(approved) >= threshold[g]
                    /\ \E i \in target :
                          /\ entries' = [stored EXCEPT ![g][i].posted = TRUE]
                          /\ Posting(g, i, req, approved)
                    /\ Send([type |-> "start", from |-> g, to |-> approved \ {g},
                             req |-> req, sigs |-> sigs])
    /\ UNCHANGED <<now, signs, pending, cache, verifying,
                   threshold, lastRound, upd, approvals, asked, restarts>>

\* handleStartMessage up to the mutex: the approvals are counted before it.
ReceiveStart(g, m) ==
    /\ Receivable(g, m) /\ m.type = "start"
    /\ RoomInQueue(g)
    /\ GetSign(g, m.req.msg, FALSE) # {}
    /\ GuardTurn(now) = m.from
    /\ g \in m.req.guards
    /\ LET req == [m.req EXCEPT !.init = m.from]
           approved == ApprovedGuards(g, req, m.sigs)
       IN  /\ Cardinality(approved) >= threshold[g]
           /\ Acquire(g, [kind |-> "start", req |-> req, peers |-> approved])
    /\ UNCHANGED <<now, entries, signs, pending, cache,
                   verifying, threshold, lastRound, upd, net, awaiting,
                   approvals, posts, asked, restarts>>

\* handleStartMessage under the mutex: startSign looks the entry up again.
HandleStart(g) ==
    /\ Holds(g, "start")
    /\ LET task == Head(lock[g])
           target == GetSign(g, task.req.msg, FALSE)
       IN  \/ /\ target = {}
              /\ Release(g)
              /\ UNCHANGED <<entries, awaiting, posts>>
           \/ \E i \in target :
                 /\ entries' = [entries EXCEPT ![g][i].posted = TRUE]
                 /\ Posting(g, i, task.req, task.peers)
    /\ UNCHANGED <<now, signs, pending, cache, verifying,
                   threshold, lastRound, upd, net, approvals, asked, restarts>>

\* tss-api accepted the request, or the HTTP call failed: its catch waits for
\* the mutex in turn.  Either way the holder releases.
PostAnswered(g) ==
    /\ Holds(g, "posting")
    /\ \/ Release(g)
       \/ /\ HttpFails
          /\ lock' = [lock EXCEPT ![g] =
                        Append(Tail(@), [kind |-> "fail", id |-> Head(@).id])]
    /\ UNCHANGED <<now, entries, signs, pending, cache,
                   verifying, threshold, lastRound, upd, net, awaiting,
                   approvals, posts, asked, restarts>>

\* Mutant: the catch does not release.
PostFailedUnreleased(g) ==
    /\ Holds(g, "fail")
    /\ LET i == Head(lock[g]).id
           m == entries[g][i].msg
       IN  /\ entries' = [entries EXCEPT ![g][i] = Settle(@, "failed")]
           /\ signs' = [signs EXCEPT ![g] = {j \in @ : entries[g][j].msg # m}]
    /\ UNCHANGED <<now, lock, pending, cache, verifying, threshold,
                   lastRound, upd, net, awaiting, approvals, posts, asked,
                   restarts>>

\* The catch of startSign: the caller is told, the message leaves the queue.
PostFailed(g) ==
    /\ Holds(g, "fail")
    /\ LET i == Head(lock[g]).id
           m == entries[g][i].msg
       IN  /\ entries' = [entries EXCEPT ![g][i] = Settle(@, "failed")]
           /\ signs' = [signs EXCEPT ![g] = {j \in @ : entries[g][j].msg # m}]
    /\ Release(g)
    /\ UNCHANGED <<now, pending, cache, verifying, threshold,
                   lastRound, upd, net, awaiting, approvals, posts, asked,
                   restarts>>

-----------------------------------------------------------------------------
(***************************************************************************)
(* Results                                                                 *)
(***************************************************************************)

\* handleSignData: the callback of tss-api.  A failure settles the caller and
\* queues the removal; a signature is verified first.  tss-api reports a good
\* signature only when one exists.
ReceiveResult(g, p) ==
    /\ p \in awaiting[g] /\ Results # {}
    /\ awaiting' = [awaiting EXCEPT ![g] = @ \ {p}]
    /\ LET m == p.req.msg
           posted == {i \in GetSign(g, m, TRUE) : entries[g][i].posted}
       IN  \/ /\ posted = {}
              /\ UNCHANGED <<entries, lock, verifying>>
           \/ \E i \in posted :
                 /\ "failed" \in Results
                 /\ entries' = [entries EXCEPT ![g][i] = Settle(@, "failed")]
                 /\ Acquire(g, [kind |-> "remove", msg |-> m])
                 /\ UNCHANGED verifying
           \/ \E i \in posted, kind \in Results \ {"failed"} :
                 /\ kind = "signed" => Signed(m)
                 /\ verifying' = [verifying EXCEPT ![g] =
                                    @ \cup {[id |-> i, good |-> kind = "signed"]}]
                 /\ UNCHANGED <<entries, lock>>
    /\ UNCHANGED <<now, signs, pending, cache, threshold,
                   lastRound, upd, net, approvals, posts, asked, restarts>>

\* handleSignCachedMessage up to the verification.
ReceiveCached(g, m) ==
    /\ Receivable(g, m) /\ m.type = "cached"
    /\ \E i \in GetSign(g, m.req.msg, FALSE) :
          verifying' = [verifying EXCEPT ![g] = @ \cup {[id |-> i, good |-> TRUE]}]
    /\ UNCHANGED <<now, entries, signs, lock, pending, cache,
                   threshold, lastRound, upd, net, awaiting, approvals, posts,
                   asked, restarts>>

\* Mutant: a signature from the own tss-api is trusted.
SignTrusted(v) == TRUE

\* verify() of the signature with the public key of tss-api.
SignVerified(v) == v.good

\* The result verified: answer the caller, cache it, queue the removal.  It did
\* not, or tss-api gave no public key: nothing happens.
Verified(g, v) ==
    /\ v \in verifying[g]
    /\ verifying' = [verifying EXCEPT ![g] = @ \ {v}]
    /\ \/ /\ SignVerified(v) /\ RoomInQueue(g)
          /\ entries' = [entries EXCEPT ![g][v.id] = Settle(@, "ok")]
          /\ cache' = [cache EXCEPT ![g] = @ \cup {entries[g][v.id].msg}]
          /\ Acquire(g, [kind |-> "remove", msg |-> entries[g][v.id].msg])
       \/ UNCHANGED <<entries, cache, lock>>
    /\ UNCHANGED <<now, signs, pending, threshold, lastRound,
                   upd, net, awaiting, approvals, posts, asked, restarts>>

\* removeSign, under the mutex: every entry of the message goes.
RemoveSign(g) ==
    /\ Holds(g, "remove")
    /\ LET m == Head(lock[g]).msg
       IN  signs' = [signs EXCEPT ![g] = {j \in @ : entries[g][j].msg # m}]
    /\ Release(g)
    /\ UNCHANGED <<now, entries, pending, cache, verifying,
                   threshold, lastRound, upd, net, awaiting, approvals, posts,
                   asked, restarts>>

\* The timer of addSignToCache.  The age of a cached result is not recorded: no
\* result can be older than the behaviour.
ExpireCache(g, m) ==
    /\ m \in cache[g] /\ now >= TurnDuration + CacheTTL
    /\ cache' = [cache EXCEPT ![g] = @ \ {m}]
    /\ UNCHANGED <<now, entries, signs, lock, pending,
                   verifying, threshold, lastRound, upd, net, awaiting,
                   approvals, posts, asked, restarts>>

-----------------------------------------------------------------------------

Tick ==
    /\ now < MaxTime
    /\ now' = now + 1
    /\ UNCHANGED <<entries, signs, lock, pending, cache,
                   verifying, threshold, lastRound, upd, net, awaiting,
                   approvals, posts, asked, restarts>>

\* The process of g is killed and started again, which takes at least a tick:
\* all its state is in memory.  Its tss-api may still report old results.
Restart(g) ==
    /\ restarts < MaxRestarts /\ now < MaxTime
    /\ restarts' = restarts + 1
    /\ now' = now + 1
    /\ entries' = [entries EXCEPT ![g] = <<>>]
    /\ signs' = [signs EXCEPT ![g] = {}]
    /\ lock' = [lock EXCEPT ![g] = <<>>]
    /\ pending' = [pending EXCEPT ![g] = {}]
    /\ cache' = [cache EXCEPT ![g] = {}]
    /\ verifying' = [verifying EXCEPT ![g] = {}]
    /\ threshold' = [threshold EXCEPT ![g] = NoneYet]
    /\ lastRound' = [lastRound EXCEPT ![g] = 0]
    /\ upd' = [upd EXCEPT ![g] = Idle]
    /\ UNCHANGED <<net, awaiting, approvals, posts, asked>>

\* Steps a guard takes without waiting for anything outside its process.
LocalStep(g) ==
    \/ AddSign(g)
    \/ Cleanup(g)
    \/ UpdateTurn(g)
    \/ UpdateLoop(g)
    \/ SetRequest(g)
    \/ HandleApprove(g)
    \/ HandleStart(g)
    \/ PostFailed(g)
    \/ RemoveSign(g)

\* Events no other guard is needed for: the timer of update(), answers of the
\* tss-api to HTTP calls.
OwnEvent(g) == UpdateBegin(g) \/ UpdateStart(g) \/ PostAnswered(g)

\* All events: these, messages, results, and other timers.
Event(g) ==
    \/ OwnEvent(g)
    \/ \E m \in Msgs : ExpireCache(g, m)
    \/ \E m \in net :
          \/ ReceiveRequest(g, m)
          \/ RegisterAnswered(g, m)
          \/ ReceiveApprove(g, m)
          \/ ReceiveStart(g, m)
          \/ ReceiveCached(g, m)
    \/ \E p \in awaiting[g] : ReceiveResult(g, p)
    \/ \E v \in verifying[g] : Verified(g, v)

\* The JavaScript event loop runs every ready local step before the next event;
\* the application may call sign() and the process may die at any point.
Next ==
    \/ AllQuiet /\ Tick
    \/ \E g \in Guard :
          \/ LocalStep(g)
          \/ AllQuiet /\ Event(g)
          \/ \E m \in Msgs : Sign(g, m)
          \/ Restart(g)

Spec == Init /\ [][Next]_vars

\* The process runs its ready steps, update() is called for ever, tss-api
\* answers HTTP calls and time passes.  Nothing is assumed of the network, of
\* the other guards or of the results of signings.  Fairness of events is strong
\* because AllQuiet, which the processes do not share, holds on and off.
Fairness ==
    /\ SF_vars(AllQuiet /\ Tick)
    /\ \A g \in Guard :
          /\ WF_vars(LocalStep(g))
          /\ SF_vars(AllQuiet /\ OwnEvent(g))

FairSpec == Spec /\ Fairness

-----------------------------------------------------------------------------
(***************************************************************************)
(* Safety                                                                  *)
(***************************************************************************)

\* Every peer a guard names to its tss-api (startSign) signed an approval of
\* exactly the request being started: same message, issuer, guards, timestamp.
PostedPeersApproved ==
    \A p \in posts : \A h \in p.peers : [by |-> h, req |-> p.req] \in approvals

\* A guard approves a message (handleRequestMessage, update), and starts signing
\* it (startSign), only after its own application called sign() for it.
OnlyAskedIsSigned ==
    /\ \A a \in approvals : asked[a.by][a.req.msg] > 0
    /\ \A p \in posts : asked[p.by][p.req.msg] > 0

\* Every two tss-api instances started for one request get the same list of
\* peers, whatever approvals each guard saw: the parties of a threshold signing
\* must agree on who they are.  It rests on OneEntryPerMessage: of two entries of a
\* message in one round, one can be posted and the other, once cleanup() has
\* dropped the first, with the same request and other peers.
StartAgreement ==
    \A p, q \in posts : p.req = q.req => p.peers = q.peers

\* A guard that starts a signing is one of its parties.
StarterIsPeer == \A p \in posts : p.by \in p.peers

\* Entries hidden behind another of the same message are never posted with it:
\* at most one signing per message is under way in the queue of a guard.
OnePostedEntry ==
    \A g \in Guard : \A i, j \in signs[g] :
        entries[g][i].msg = entries[g][j].msg
            /\ entries[g][i].posted /\ entries[g][j].posted => i = j

\* A result reaches a caller or the cache only when the parties of a sufficient
\* signing all ran it: handleSignData and handleSignCachedMessage verify first.
ResultsAreSignatures ==
    \A g \in Guard :
        /\ \A m \in cache[g] : Signed(m)
        /\ \A i \in DOMAIN entries[g] :
               entries[g][i].answer = "ok" => Signed(entries[g][i].msg)

\* A guard that is not restarted asks for approvals of a message at most once
\* per round (lastUpdateRound), however often update() runs and duplicate
\* entries included: all its requests of a round are the same request.
OneRequestPerRound ==
    \A m, n \in net :
        /\ m.type = "request" /\ n.type = "request"
        /\ m.from = n.from /\ m.req.msg = n.req.msg
        /\ Round(m.req.ts) = Round(n.req.ts)
        => m.req = n.req

\* sign() refuses a message that is already queued ("already signing this
\* message"): no two entries of the queue have the same message.
OneEntryPerMessage ==
    \A g \in Guard : \A i, j \in signs[g] :
        entries[g][i].msg = entries[g][j].msg => i = j

(***************************************************************************)
(* The abstract specification                                              *)
(***************************************************************************)

\* The messages an application asked for.
Wanted == [g \in Guard |-> {m \in Msgs : asked[g][m] > 0}]

\* The messages a guard has given its callers a signature of, or keeps one of.
Held ==
    [g \in Guard |->
        cache[g] \cup {m \in Msgs : \E i \in DOMAIN entries[g] :
                           entries[g][i].msg = m /\ entries[g][i].answer = "ok"}]

Service == INSTANCE SigningService WITH wanted <- Wanted, held <- Held

\* Every step of the signers, whatever they wait for, lose or repeat, is a step of the
\* service: an approval of something asked for, a start with guards that approved that
\* request, a signature that was really made, or nothing that anybody sees.
ImplementsService == Service!Spec

(***************************************************************************)
(* Liveness                                                                *)
(***************************************************************************)

\* No sign stays in the queue for ever: whoever holds the mutex releases it, so
\* cleanup() comes to drop every sign that times out before the end of time.
QueueDrains ==
    <>[](\A g \in Guard : \A i \in signs[g] :
            entries[g][i].addedTime + Timeout > MaxTime)

\* signAccessMutex never stays taken: it comes free again and again, although
\* startSign holds it over an HTTP call whose catch waits for it in turn.
MutexReleased == \A g \in Guard : []<>(lock[g] = <<>>)
=============================================================================
