--------------------------- MODULE TssSafety_proofs ---------------------------
(***************************************************************************)
(* Proofs of safety properties of TssSigner: whose approvals a signing     *)
(* rests on, for which messages a guard approves and starts signings, that *)
(* one signing of a message is posted, by one of its peers, and that a     *)
(* round has one request per message.                                      *)
(***************************************************************************)
EXTENDS TssSigner_proofs

-----------------------------------------------------------------------------
(***************************************************************************)
(* Which tasks a step can add to the queues                                *)
(***************************************************************************)

\* After the step, every waiting task was there before or is t, at guard g.
OnlyNewTask(g, t) ==
    \A h \in Guard : \A k \in 1 .. Len(lock'[h]) :
        \/ h = g /\ lock'[h][k] = t
        \/ \E j \in 1 .. Len(lock[h]) : lock'[h][k] = lock[h][j]

\* The same, without a new task.
NoNewTask ==
    \A h \in Guard : \A k \in 1 .. Len(lock'[h]) :
        \E j \in 1 .. Len(lock[h]) : lock'[h][k] = lock[h][j]

LEMMA AcquireTasks ==
    ASSUME TypeOK, NEW g \in Guard, NEW t \in Task, Acquire(g, t)
    PROVE  OnlyNewTask(g, t)
<1>1. lock[g] \in Seq(Task) /\ lock' = [lock EXCEPT ![g] = Append(lock[g], t)]
  BY DEF TypeOK, Acquire
<1>2. lock'[g] = Append(lock[g], t) /\ \A h \in Guard : h # g => lock'[h] = lock[h]
  BY <1>1 DEF TypeOK
<1> QED BY <1>1, <1>2, AppendTask DEF OnlyNewTask

LEMMA ReleaseTasks ==
    ASSUME TypeOK, NEW g \in Guard, lock[g] # <<>>, Release(g)
    PROVE  NoNewTask
<1>1. lock[g] \in Seq(Task)
  BY DEF TypeOK
<1>2. lock'[g] = Tail(lock[g]) /\ \A h \in Guard : h # g => lock'[h] = lock[h]
  BY DEF TypeOK, Release
<1>3. \A k \in 1 .. Len(lock'[g]) : \E j \in 1 .. Len(lock[g]) : lock'[g][k] = lock[g][j]
  BY <1>1, <1>2, TailTask
<1> QED BY <1>2, <1>3 DEF NoNewTask

LEMMA PostingTasks ==
    ASSUME TypeOK, NEW g \in Guard, lock[g] # <<>>, NEW i \in Nat \ {0}, NEW req,
           NEW peers, Posting(g, i, req, peers)
    PROVE  \E t \in Task : t.kind = "posting" /\ OnlyNewTask(g, t)
<1>1. PICK t \in Task : t.kind = "posting"
                        /\ lock' = [lock EXCEPT ![g] = <<t>> \o Tail(lock[g])]
  BY DEF Posting, Task
<1>2. lock[g] \in Seq(Task)
  BY DEF TypeOK
<1>3. lock'[g] = <<t>> \o Tail(lock[g]) /\ \A h \in Guard : h # g => lock'[h] = lock[h]
  BY <1>1 DEF TypeOK
<1>4. OnlyNewTask(g, t)
  BY <1>2, <1>3, ReplaceHead DEF OnlyNewTask
<1> QED BY <1>1, <1>4

LEMMA AnsweredTasks ==
    ASSUME TypeInv, NEW g \in Guard, PostAnswered(g)
    PROVE  NoNewTask \/ \E t \in Task : t.kind = "fail" /\ OnlyNewTask(g, t)
<1>1. LockOK /\ lock[g] # <<>> /\ Head(lock[g]).kind = "posting"
      /\ lock[g] \in Seq(Task)
  BY DEF TypeInv, TypeOK, RefsOK, LockOK, PostAnswered, Holds
<1>2. CASE Release(g)
  BY <1>1, <1>2, ReleaseTasks DEF TypeInv
<1>3. CASE lock' = [lock EXCEPT ![g] =
                      Append(Tail(@), [kind |-> "fail", id |-> Head(@).id])]
  <2>1. Head(lock[g]).id \in Nat \ {0}
    BY <1>1, HeadRefs DEF Task
  <2>2. PICK t \in Task : t.kind = "fail"
                          /\ lock' = [lock EXCEPT ![g] = Append(Tail(lock[g]), t)]
    BY <1>1, <1>3, <2>1 DEF Task
  <2>3. lock'[g] = Append(Tail(lock[g]), t)
        /\ \A h \in Guard : h # g => lock'[h] = lock[h]
    BY <2>2 DEF TypeInv, TypeOK
  <2>4. Tail(lock[g]) \in Seq(Task)
        /\ \A k \in 1 .. Len(Tail(lock[g])) :
              \E j \in 1 .. Len(lock[g]) : Tail(lock[g])[k] = lock[g][j]
    BY <1>1, TailTask
  <2>5. \A k \in 1 .. Len(lock'[g]) :
           \/ lock'[g][k] = t
           \/ \E j \in 1 .. Len(Tail(lock[g])) : lock'[g][k] = Tail(lock[g])[j]
    BY <2>3, <2>4, AppendTask
  <2>6. OnlyNewTask(g, t)
    BY <2>3, <2>4, <2>5 DEF OnlyNewTask
  <2> QED BY <2>2, <2>6
<1> QED BY <1>2, <1>3 DEF PostAnswered

\* Settling the promise of an entry changes nothing else of any entry.
LEMMA SettledEntries ==
    ASSUME TypeOK, NEW g \in Guard, NEW i \in DOMAIN entries[g],
           NEW status \in {"ok", "failed"},
           entries' = [entries EXCEPT ![g][i] = Settle(@, status)]
    PROVE  \A h \in Guard :
              /\ DOMAIN entries'[h] = DOMAIN entries[h]
              /\ \A j \in DOMAIN entries[h] :
                    /\ entries'[h][j].sigs = entries[h][j].sigs
                    /\ entries'[h][j].msg = entries[h][j].msg
                    /\ entries'[h][j].request = entries[h][j].request
                    /\ entries'[h][j].posted = entries[h][j].posted
<1>1. entries[g][i] \in Entry
  BY DEF TypeOK
<1>2. PICK e \in Entry : /\ entries' = [entries EXCEPT ![g] = [@ EXCEPT ![i] = e]]
                        /\ e.sigs = entries[g][i].sigs
                        /\ e.msg = entries[g][i].msg
                        /\ e.request = entries[g][i].request
                        /\ e.posted = entries[g][i].posted
  <2> DEFINE e == Settle(entries[g][i], status)
  <2>1. e \in Entry
    BY <1>1, SettleType
  <2>2. /\ e.sigs = entries[g][i].sigs /\ e.msg = entries[g][i].msg
        /\ e.request = entries[g][i].request /\ e.posted = entries[g][i].posted
    BY <1>1 DEF Settle, Entry
  <2>3. entries' = [entries EXCEPT ![g] = [@ EXCEPT ![i] = e]]
    BY DEF TypeOK
  <2> QED BY <2>1, <2>2, <2>3
<1>3. /\ \A h \in Guard : DOMAIN entries'[h] = DOMAIN entries[h]
      /\ \A h \in Guard : \A j \in DOMAIN entries[h] :
            entries'[h][j] = IF h = g /\ j = i THEN e ELSE entries[h][j]
  BY <1>2, EntryUpdate DEF TypeOK
<1> QED BY <1>2, <1>3

-----------------------------------------------------------------------------
(***************************************************************************)
(* Signatures are issued by their guards                                   *)
(***************************************************************************)

\* What a waiting task carries was issued: the signature of an approval, and
\* the approvals from which the peers of a start were counted.
TaskIssued(t) ==
    /\ t.kind = "approve" => t.sig \in approvals
    /\ t.kind = "start" => \A h \in t.peers : [by |-> h, req |-> t.req] \in approvals

LockIssued == \A g \in Guard : \A k \in 1 .. Len(lock[g]) : TaskIssued(lock[g][k])

EntriesIssued ==
    \A g \in Guard : \A i \in DOMAIN entries[g] : entries[g][i].sigs \subseteq approvals

NetIssued == \A m \in net : m.sigs \subseteq approvals

\* The inductive invariant behind PostedPeersApproved.
SigsIssued == EntriesIssued /\ NetIssued /\ LockIssued /\ PostedPeersApproved

\* Counting approvals only ever names guards that signed this very request.
LEMMA CountedApproved ==
    ASSUME NEW g, NEW req, NEW sigs \in SUBSET approvals
    PROVE  \A h \in ApprovedGuards(g, req, sigs) : [by |-> h, req |-> req] \in approvals
BY DEF ApprovedGuards

LEMMA LockStaysIssued ==
    ASSUME LockIssued, approvals \subseteq approvals', NEW g \in Guard, NEW t,
           TaskIssued(t)', OnlyNewTask(g, t)
    PROVE  LockIssued'
<1>1. ASSUME NEW h \in Guard, NEW k \in 1 .. Len(lock'[h])
      PROVE  TaskIssued(lock[h][k])'
  <2>1. CASE lock'[h][k] = t
    BY <2>1 DEF TaskIssued
  <2>2. CASE \E j \in 1 .. Len(lock[h]) : lock'[h][k] = lock[h][j]
    BY <2>2 DEF LockIssued, TaskIssued
  <2> QED BY <1>1, <2>1, <2>2 DEF OnlyNewTask
<1> QED BY <1>1 DEF LockIssued

LEMMA LockKeepsIssued ==
    ASSUME LockIssued, approvals \subseteq approvals', NoNewTask
    PROVE  LockIssued'
<1>1. ASSUME NEW h \in Guard, NEW k \in 1 .. Len(lock'[h])
      PROVE  TaskIssued(lock[h][k])'
  <2>1. PICK j \in 1 .. Len(lock[h]) : lock'[h][k] = lock[h][j]
    BY <1>1 DEF NoNewTask
  <2> QED BY <2>1 DEF LockIssued, TaskIssued
<1> QED BY <1>1 DEF LockIssued

\* Steps that issue nothing, send nothing and start nothing.
LEMMA IssuedKept ==
    ASSUME SigsIssued, LockIssued', UNCHANGED <<net, approvals, posts>>,
           \A h \in Guard : \A j \in DOMAIN entries'[h] :
              j \in DOMAIN entries[h] /\ entries'[h][j].sigs = entries[h][j].sigs
    PROVE  SigsIssued'
BY DEF SigsIssued, EntriesIssued, NetIssued, PostedPeersApproved

LEMMA IssuedInit == ASSUME Init PROVE SigsIssued
<1>1. Len(<<>>) = 0 /\ DOMAIN <<>> = {}
  OBVIOUS
<1> QED BY <1>1 DEF Init, SigsIssued, EntriesIssued, NetIssued, LockIssued,
                    PostedPeersApproved

LEMMA IssuedQuiet ==
    ASSUME TypeInv, SigsIssued, NEW g \in Guard,
           \/ \E m \in Msgs : Sign(g, m) \/ ExpireCache(g, m)
           \/ UpdateBegin(g) \/ UpdateTurn(g) \/ UpdateStart(g) \/ Tick
           \/ \E m \in net : ReceiveCached(g, m)
           \/ Cleanup(g) \/ RemoveSign(g) \/ PostAnswered(g)
    PROVE  SigsIssued'
<1>1. UNCHANGED <<entries, net, approvals, posts>>
  BY DEF Sign, ExpireCache, UpdateBegin, UpdateTurn, UpdateStart, Tick,
         ReceiveCached, Cleanup, RemoveSign, PostAnswered
<1>2. LockIssued'
  <2>1. CASE UNCHANGED lock
    BY <1>1, <2>1 DEF SigsIssued, LockIssued, TaskIssued
  <2>2. CASE NoNewTask
    BY <1>1, <2>2, LockKeepsIssued DEF SigsIssued
  <2>3. CASE \E t \in Task : t.kind \in {"add", "cleanup", "fail"} /\ OnlyNewTask(g, t)
    BY <1>1, <2>3, LockStaysIssued DEF SigsIssued, TaskIssued
  <2>4. ASSUME NEW m \in Msgs, Acquire(g, [kind |-> "add", msg |-> m])
        PROVE  \E t \in Task : t.kind = "add" /\ OnlyNewTask(g, t)
    <3>1. PICK t \in Task : t.kind = "add" /\ Acquire(g, t)
      BY <2>4 DEF Task
    <3> QED BY <3>1, AcquireTasks DEF TypeInv
  <2>5. ASSUME UpdateBegin(g)
        PROVE  \E t \in Task : t.kind = "cleanup" /\ OnlyNewTask(g, t)
    <3>1. now \in Nat /\ now - Timeout \in Int
      BY ConstantsAssumption DEF TypeInv, TypeOK
    <3>2. GuardTurn(now) \in Guard
      BY <3>1, TurnIsGuard
    <3>3. PICK t \in Task : t.kind = "cleanup" /\ Acquire(g, t)
      BY <2>5, <3>1, <3>2 DEF UpdateBegin, Task
    <3> QED BY <3>3, AcquireTasks DEF TypeInv
  <2>6. Cleanup(g) \/ RemoveSign(g) => NoNewTask
    BY ReleaseTasks DEF Cleanup, RemoveSign, Holds, TypeInv
  <2>7. UpdateTurn(g) \/ UpdateStart(g) \/ Tick => UNCHANGED lock
    BY DEF UpdateTurn, UpdateStart, Tick
  <2>8. (\E m \in net : ReceiveCached(g, m)) \/ (\E m \in Msgs : ExpireCache(g, m))
           => UNCHANGED lock
    BY DEF ReceiveCached, ExpireCache
  <2>9. ASSUME NEW m \in Msgs, Sign(g, m)
        PROVE  UNCHANGED lock \/ Acquire(g, [kind |-> "add", msg |-> m])
    BY <2>9 DEF Sign
  <2> QED BY <2>1, <2>2, <2>3, <2>4, <2>5, <2>6, <2>7, <2>8, <2>9, AnsweredTasks
<1> QED BY <1>1, <1>2, IssuedKept

LEMMA IssuedSettled ==
    ASSUME TypeInv, SigsIssued, NEW g \in Guard,
           \/ PostFailed(g)
           \/ \E p \in awaiting[g] : ReceiveResult(g, p)
           \/ \E v \in verifying[g] : Verified(g, v)
    PROVE  SigsIssued'
<1>1. UNCHANGED <<net, approvals, posts>>
  BY DEF PostFailed, ReceiveResult, Verified
<1>2. CASE PostFailed(g)
  <2>1. lock[g] # <<>> /\ Head(lock[g]).kind = "fail" /\ LockOK
    BY <1>2 DEF PostFailed, Holds, TypeInv, TypeOK, RefsOK, LockOK
  <2>2. LockIssued'
    BY <1>1, <1>2, <2>1, ReleaseTasks, LockKeepsIssued DEF PostFailed, SigsIssued, TypeInv
  <2>3. Head(lock[g]).id \in DOMAIN entries[g]
    BY <2>1, HeadRefs DEF TaskRefs, WithId
  <2>4. PICK i \in DOMAIN entries[g] :
           entries' = [entries EXCEPT ![g][i] = Settle(@, "failed")]
    BY <1>2, <2>3 DEF PostFailed
  <2> QED BY <1>1, <2>2, <2>4, SettledEntries, IssuedKept DEF TypeInv
<1>3. ASSUME NEW m \in Msgs, Acquire(g, [kind |-> "remove", msg |-> m])
      PROVE  LockIssued'
  <2>1. PICK t \in Task : t.kind = "remove" /\ Acquire(g, t)
    BY <1>3 DEF Task
  <2> QED BY <1>1, <2>1, AcquireTasks, LockStaysIssued DEF TypeInv, SigsIssued, TaskIssued
<1>4. CASE UNCHANGED <<entries, lock>>
  BY <1>1, <1>4 DEF SigsIssued, EntriesIssued, NetIssued, LockIssued, TaskIssued,
                    PostedPeersApproved
<1>5. ASSUME NEW i \in DOMAIN entries[g], NEW status \in {"ok", "failed"},
             entries' = [entries EXCEPT ![g][i] = Settle(@, status)],
             NEW m \in Msgs, Acquire(g, [kind |-> "remove", msg |-> m])
      PROVE  SigsIssued'
  BY <1>1, <1>3, <1>5, SettledEntries, IssuedKept DEF TypeInv
<1>6. ASSUME NEW p \in awaiting[g], ReceiveResult(g, p) PROVE SigsIssued'
  <2>1. p.req.msg \in Msgs
    BY DEF TypeInv, TypeOK, Post, Request
  <2>2. GetSign(g, p.req.msg, TRUE) \subseteq DOMAIN entries[g]
    BY DEF GetSign, SignIn, TypeInv, TypeOK
  <2> QED BY <1>4, <1>5, <1>6, <2>1, <2>2 DEF ReceiveResult
<1>7. ASSUME NEW v \in verifying[g], Verified(g, v) PROVE SigsIssued'
  <2>1. v.id \in DOMAIN entries[g] /\ entries[g][v.id] \in Entry
    BY DEF TypeInv, TypeOK, RefsOK
  <2>2. entries[g][v.id].msg \in Msgs
    BY <2>1 DEF Entry
  <2> QED BY <1>4, <1>5, <1>7, <2>1, <2>2 DEF Verified
<1> QED BY <1>2, <1>6, <1>7

\* Answering a request sends nothing but the approval it just signed.
LEMMA AnswerIssues ==
    ASSUME NetIssued, NEW g \in Guard, NEW req, NEW q, AnswerRequest(g, req, q)
    PROVE  approvals \subseteq approvals' /\ NetIssued'
<1>1. approvals \subseteq approvals'
  BY DEF AnswerRequest, SendCached, Approve, KeepPending
<1>2. CASE UNCHANGED net
  BY <1>1, <1>2 DEF NetIssued
<1>3. ASSUME NEW m, Send(m), m.sigs \subseteq approvals' PROVE NetIssued'
  BY <1>1, <1>3 DEF Send, NetIssued
<1>4. CASE Send([type |-> "cached", from |-> g, to |-> {req.init}, req |-> req,
                 sigs |-> {}])
  <2> DEFINE c == [type |-> "cached", from |-> g, to |-> {req.init}, req |-> req,
                   sigs |-> {}]
  <2>1. net' = net \cup {c} /\ c.sigs = {}
    BY <1>4 DEF Send
  <2> HIDE DEF c
  <2> QED BY <1>1, <2>1 DEF NetIssued
<1>5. CASE /\ approvals' = approvals \cup {[by |-> g, req |-> req]}
           /\ Send([type |-> "approve", from |-> g, to |-> {req.init}, req |-> req,
                    sigs |-> {[by |-> g, req |-> req]}])
  BY <1>3, <1>5
<1> QED BY <1>1, <1>2, <1>4, <1>5 DEF AnswerRequest, SendCached, Approve, KeepPending

LEMMA IssuedAnswers ==
    ASSUME TypeInv, SigsIssued, NEW g \in Guard, NEW m \in net,
           ReceiveRequest(g, m) \/ RegisterAnswered(g, m)
    PROVE  SigsIssued'
<1>1. UNCHANGED <<entries, lock, posts>>
  BY DEF ReceiveRequest, RegisterAnswered
<1>2. approvals \subseteq approvals' /\ NetIssued'
  BY AnswerIssues DEF ReceiveRequest, RegisterAnswered, SigsIssued
<1>3. LockIssued'
  BY <1>1, <1>2 DEF SigsIssued, LockIssued, TaskIssued
<1> QED BY <1>1, <1>2, <1>3 DEF SigsIssued, EntriesIssued, PostedPeersApproved

LEMMA IssuedAddSign ==
    ASSUME TypeInv, SigsIssued, NEW g \in Guard, AddSign(g)
    PROVE  SigsIssued'
<1>1. approvals \subseteq approvals' /\ NetIssued'
  <2>1. CASE UNCHANGED <<net, approvals, pending>>
    BY <2>1 DEF SigsIssued, NetIssued
  <2>2. CASE \E req, q : AnswerRequest(g, req, q)
    BY <2>2, AnswerIssues DEF SigsIssued
  <2> QED BY <2>1, <2>2 DEF AddSign
<1>2. LockIssued'
  BY <1>1, ReleaseTasks, LockKeepsIssued DEF AddSign, Holds, TypeInv, SigsIssued
<1>3. PICK e : e.sigs = {} /\ entries' = [entries EXCEPT ![g] = Append(entries[g], e)]
  BY DEF AddSign
<1>4. EntriesIssued'
  <2>1. entries[g] \in Seq(Entry) /\ entries'[g] = Append(entries[g], e)
        /\ \A h \in Guard : h # g => entries'[h] = entries[h]
    BY <1>3 DEF TypeInv, TypeOK
  <2>2. \A i \in DOMAIN entries'[g] :
           \/ entries'[g][i] = e
           \/ i \in DOMAIN entries[g] /\ entries'[g][i] = entries[g][i]
    BY <2>1
  <2>3. \A i \in DOMAIN entries'[g] : entries'[g][i].sigs \subseteq approvals'
    BY <1>1, <1>3, <2>2 DEF SigsIssued, EntriesIssued
  <2> QED BY <1>1, <2>1, <2>3 DEF SigsIssued, EntriesIssued
<1>5. UNCHANGED posts
  BY DEF AddSign
<1> QED BY <1>1, <1>2, <1>4, <1>5 DEF SigsIssued, PostedPeersApproved

LEMMA IssuedUpdateLoop ==
    ASSUME TypeInv, SigsIssued, NEW g \in Guard, UpdateLoop(g)
    PROVE  SigsIssued'
<1>1. UNCHANGED <<entries, approvals, posts>>
  BY DEF UpdateLoop
<1>2. CASE UNCHANGED <<lock, net>>
  BY <1>1, <1>2 DEF SigsIssued, EntriesIssued, NetIssued, LockIssued, TaskIssued,
                    PostedPeersApproved
<1>3. ASSUME NEW i \in upd[g].todo,
             Send([type |-> "request", from |-> g, to |-> Guard \ {g},
                   req |-> RequestOf(g, i, upd[g].guards, upd[g].ts), sigs |-> {}]),
             Acquire(g, [kind |-> "request", id |-> i, guards |-> upd[g].guards,
                         ts |-> upd[g].ts])
      PROVE  SigsIssued'
  <2>1. NetIssued'
    BY <1>1, <1>3 DEF Send, SigsIssued, NetIssued
  <2>2. upd[g] \in Update /\ i \in Nat \ {0}
    BY DEF TypeInv, TypeOK, Update
  <2>3. PICK t \in Task : t.kind = "request" /\ Acquire(g, t)
    BY <1>3, <2>2 DEF Task, Update
  <2>4. LockIssued'
    BY <1>1, <2>3, AcquireTasks, LockStaysIssued DEF TypeInv, SigsIssued, TaskIssued
  <2> QED BY <1>1, <2>1, <2>4 DEF SigsIssued, EntriesIssued, PostedPeersApproved
<1> QED BY <1>2, <1>3 DEF UpdateLoop

LEMMA IssuedSetRequest ==
    ASSUME TypeInv, SigsIssued, NEW g \in Guard, SetRequest(g)
    PROVE  SigsIssued'
<1> DEFINE i == Head(lock[g]).id
           own == [by |-> g, req |-> RequestOf(g, i, Head(lock[g]).guards,
                                               Head(lock[g]).ts)]
<1>1. lock[g] # <<>> /\ Head(lock[g]).kind = "request" /\ LockOK
  BY DEF SetRequest, Holds, TypeInv, TypeOK, RefsOK, LockOK
<1>2. approvals' = approvals \cup {own} /\ UNCHANGED <<net, posts>>
  BY DEF SetRequest
<1>3. LockIssued'
  BY <1>1, <1>2, ReleaseTasks, LockKeepsIssued DEF SetRequest, SigsIssued, TypeInv
<1>4. i \in DOMAIN entries[g]
  BY <1>1, HeadRefs DEF TaskRefs, WithId
<1>5. EntriesIssued'
  <2>1. /\ \A h \in Guard : DOMAIN entries'[h] = DOMAIN entries[h]
        /\ \A h \in Guard : \A j \in DOMAIN entries[h] :
              entries'[h][j].sigs = IF h = g /\ j = i THEN {own} ELSE entries[h][j].sigs
    <3>1. entries' = [entries EXCEPT ![g] = [@ EXCEPT ![i] =
             [entries[g][i] EXCEPT !.request = {own.req}, !.sigs = {own}]]]
      BY <1>4 DEF SetRequest, TypeInv, TypeOK
    <3>2. entries[g][i] \in Entry
      BY <1>4 DEF TypeInv, TypeOK
    <3>3. [entries[g][i] EXCEPT !.request = {own.req}, !.sigs = {own}].sigs = {own}
      BY <3>2 DEF Entry
    <3> HIDE DEF own, i
    <3> QED BY <1>4, <3>1, <3>3 DEF TypeInv, TypeOK
  <2> HIDE DEF own, i
  <2> QED BY <1>2, <2>1 DEF SigsIssued, EntriesIssued
<1> QED BY <1>2, <1>3, <1>5 DEF SigsIssued, NetIssued, PostedPeersApproved

LEMMA IssuedReceiveApprove ==
    ASSUME TypeInv, SigsIssued, NEW g \in Guard, NEW m \in net, ReceiveApprove(g, m)
    PROVE  SigsIssued'
<1>1. UNCHANGED <<entries, net, approvals, posts>>
  BY DEF ReceiveApprove
<1>2. PICK i \in GetSign(g, m.req.msg, FALSE), a \in m.sigs :
         Acquire(g, [kind |-> "approve", id |-> i, sig |-> a])
  BY DEF ReceiveApprove
<1>3. i \in Nat \ {0} /\ a \in Approval /\ a \in approvals
  BY DEF GetSign, SignIn, TypeInv, TypeOK, Message, SigsIssued, NetIssued
<1>4. PICK t \in Task : t.kind = "approve" /\ t.sig = a /\ Acquire(g, t)
  BY <1>2, <1>3 DEF Task
<1>5. TaskIssued(t)'
  BY <1>1, <1>3, <1>4 DEF TaskIssued
<1>6. LockIssued'
  BY <1>1, <1>4, <1>5, AcquireTasks, LockStaysIssued DEF TypeInv, SigsIssued
<1> QED BY <1>1, <1>6, IssuedKept

LEMMA IssuedReceiveStart ==
    ASSUME TypeInv, SigsIssued, NEW g \in Guard, NEW m \in net, ReceiveStart(g, m)
    PROVE  SigsIssued'
<1> DEFINE req == [m.req EXCEPT !.init = m.from]
           peers == ApprovedGuards(g, req, m.sigs)
<1>1. UNCHANGED <<entries, net, approvals, posts>>
  BY DEF ReceiveStart
<1>2. req \in Request
  <2>1. m.req \in Request /\ m.from \in Guard
    BY DEF TypeInv, TypeOK, Message
  <2> QED BY <2>1 DEF Request
<1>3. peers \in SUBSET Guard
  BY <1>2 DEF ApprovedGuards, Request
<1>4. \A h \in peers : [by |-> h, req |-> req] \in approvals
  BY CountedApproved DEF SigsIssued, NetIssued
<1>5. Acquire(g, [kind |-> "start", req |-> req, peers |-> peers])
  BY DEF ReceiveStart
<1> HIDE DEF req, peers
<1>6. PICK t \in Task : t.kind = "start" /\ t.req = req /\ t.peers = peers
                        /\ Acquire(g, t)
  BY <1>2, <1>3, <1>5 DEF Task
<1>7. TaskIssued(t)'
  BY <1>1, <1>4, <1>6 DEF TaskIssued
<1>8. LockIssued'
  BY <1>1, <1>6, <1>7, AcquireTasks, LockStaysIssued DEF TypeInv, SigsIssued
<1> QED BY <1>1, <1>8, IssuedKept

LEMMA IssuedHandleApprove ==
    ASSUME TypeInv, SigsIssued, NEW g \in Guard, HandleApprove(g)
    PROVE  SigsIssued'
<1> DEFINE task == Head(lock[g])
           e == entries[g][task.id]
           sigs == StoreSig(e.sigs, task.sig)
           stored == [entries EXCEPT ![g][task.id].sigs = sigs]
<1>1. LockOK /\ lock[g] # <<>> /\ task.kind = "approve" /\ approvals' = approvals
  BY DEF HandleApprove, Holds, TypeInv, TypeOK, RefsOK, LockOK
<1>2. task.id \in DOMAIN entries[g]
  BY <1>1, HeadRefs DEF TaskRefs, WithId
<1>3. TaskIssued(task)
  <2>1. lock[g] \in Seq(Task)
    BY <1>1 DEF LockOK
  <2> QED BY <1>1, <2>1, TailTask DEF SigsIssued, LockIssued
<1>4. sigs \in SUBSET approvals
  BY <1>1, <1>2, <1>3 DEF StoreSig, TaskIssued, SigsIssued, EntriesIssued
<1>5. /\ stored \in [Guard -> Seq(Entry)]
      /\ \A h \in Guard : DOMAIN stored[h] = DOMAIN entries[h]
      /\ \A h \in Guard : \A j \in DOMAIN entries[h] :
            stored[h][j].sigs \subseteq approvals
  <2>1. entries[g] \in Seq(Entry) /\ e \in Entry
        /\ task.id \in 1 .. Len(entries[g])
    BY <1>2, LenProperties DEF TypeInv, TypeOK
  <2>2. [e EXCEPT !.sigs = sigs] \in Entry /\ [e EXCEPT !.sigs = sigs].sigs = sigs
    <3>1. sigs \in SUBSET Approval
      BY <1>4 DEF TypeInv, TypeOK
    <3> HIDE DEF sigs
    <3> QED BY <2>1, <3>1 DEF Entry
  <2>3. stored = [entries EXCEPT ![g] = [@ EXCEPT ![task.id] = [e EXCEPT !.sigs = sigs]]]
    BY <1>2 DEF TypeInv, TypeOK
  <2> DEFINE x == [e EXCEPT !.sigs = sigs]
  <2>4. [entries[g] EXCEPT ![task.id] = x] \in Seq(Entry)
    <3>1. x \in Entry
      BY <2>2
    <3> HIDE DEF x
    <3> QED BY <2>1, <3>1, ExceptSeq
  <2>5. x.sigs = sigs /\ stored = [entries EXCEPT ![g] = [@ EXCEPT ![task.id] = x]]
    BY <2>2, <2>3
  <2> HIDE DEF x, sigs, stored, task
  <2> QED BY <1>2, <1>4, <2>4, <2>5 DEF TypeInv, TypeOK, SigsIssued, EntriesIssued
<1>6. PICK req \in e.request :
         \/ entries' = stored /\ Release(g) /\ UNCHANGED <<net, awaiting, posts>>
         \/ /\ \E i \in GetSign(g, e.msg, FALSE) :
                  /\ entries' = [stored EXCEPT ![g][i].posted = TRUE]
                  /\ Posting(g, i, req, ApprovedGuards(g, req, sigs))
            /\ Send([type |-> "start", from |-> g,
                     to |-> ApprovedGuards(g, req, sigs) \ {g},
                     req |-> req, sigs |-> sigs])
  BY DEF HandleApprove
<1>7. CASE entries' = stored /\ Release(g) /\ UNCHANGED <<net, awaiting, posts>>
  <2>1. LockIssued'
    BY <1>1, <1>7, ReleaseTasks, LockKeepsIssued DEF SigsIssued, TypeInv
  <2>2. EntriesIssued'
    <3> HIDE DEF stored
    <3> QED BY <1>1, <1>5, <1>7 DEF EntriesIssued
  <2> QED BY <1>1, <1>7, <2>1, <2>2 DEF SigsIssued, NetIssued, PostedPeersApproved
<1>8. ASSUME NEW i \in GetSign(g, e.msg, FALSE),
             entries' = [stored EXCEPT ![g][i].posted = TRUE],
             Posting(g, i, req, ApprovedGuards(g, req, sigs)),
             Send([type |-> "start", from |-> g,
                   to |-> ApprovedGuards(g, req, sigs) \ {g},
                   req |-> req, sigs |-> sigs])
      PROVE  SigsIssued'
  <2>1. i \in DOMAIN entries[g] /\ i \in Nat \ {0}
    BY DEF GetSign, SignIn, TypeInv, TypeOK
  <2>2. EntriesIssued'
    <3>1. entries' = [stored EXCEPT ![g][i].posted = TRUE]
      BY <1>8
    <3> HIDE DEF stored
    <3>2. stored[g][i] \in Entry
      BY <1>5, <2>1
    <3>3. [stored[g][i] EXCEPT !.posted = TRUE].sigs = stored[g][i].sigs
      BY <3>2 DEF Entry
    <3> QED BY <1>1, <1>5, <2>1, <3>1, <3>3 DEF EntriesIssued
  <2>3. NetIssued'
    <3> DEFINE c == [type |-> "start", from |-> g,
                     to |-> ApprovedGuards(g, req, sigs) \ {g},
                     req |-> req, sigs |-> sigs]
    <3>1. net' = net \cup {c} /\ c.sigs = sigs
      BY <1>8 DEF Send
    <3> HIDE DEF sigs, c
    <3> QED BY <1>1, <1>4, <3>1 DEF SigsIssued, NetIssued
  <2>4. LockIssued'
    <3>1. PICK t \in Task : t.kind = "posting" /\ OnlyNewTask(g, t)
      BY <1>1, <1>8, <2>1, PostingTasks DEF TypeInv
    <3> QED BY <1>1, <3>1, LockStaysIssued DEF SigsIssued, TaskIssued
  <2>5. PostedPeersApproved'
    <3> DEFINE peers == ApprovedGuards(g, req, sigs)
    <3> DEFINE p == [by |-> g, req |-> req, peers |-> peers]
    <3>1. posts' = posts \cup {p} /\ p.req = req /\ p.peers = peers
      BY <1>8 DEF Posting
    <3>2. \A h \in peers : [by |-> h, req |-> req] \in approvals
      BY <1>4, CountedApproved
    <3> HIDE DEF peers, p
    <3> QED BY <1>1, <3>1, <3>2 DEF SigsIssued, PostedPeersApproved
  <2> QED BY <2>2, <2>3, <2>4, <2>5 DEF SigsIssued
<1> QED BY <1>6, <1>7, <1>8

LEMMA IssuedHandleStart ==
    ASSUME TypeInv, SigsIssued, NEW g \in Guard, HandleStart(g)
    PROVE  SigsIssued'
<1> DEFINE task == Head(lock[g])
<1>1. LockOK /\ lock[g] # <<>> /\ task.kind = "start"
      /\ UNCHANGED <<approvals, net>>
  BY DEF HandleStart, Holds, TypeInv, TypeOK, RefsOK, LockOK
<1>2. NetIssued'
  BY <1>1 DEF SigsIssued, NetIssued
<1>3. CASE Release(g) /\ UNCHANGED <<entries, awaiting, posts>>
  <2>1. LockIssued'
    BY <1>1, <1>3, ReleaseTasks, LockKeepsIssued DEF SigsIssued, TypeInv
  <2> QED BY <1>1, <1>2, <1>3, <2>1 DEF SigsIssued, EntriesIssued, PostedPeersApproved
<1>4. ASSUME NEW i \in GetSign(g, task.req.msg, FALSE),
             entries' = [entries EXCEPT ![g][i].posted = TRUE],
             Posting(g, i, task.req, task.peers)
      PROVE  SigsIssued'
  <2>1. i \in DOMAIN entries[g] /\ i \in Nat \ {0} /\ entries[g][i] \in Entry
    BY DEF GetSign, SignIn, TypeInv, TypeOK
  <2>2. [entries[g][i] EXCEPT !.posted = TRUE].sigs = entries[g][i].sigs
    BY <2>1 DEF Entry
  <2>3. EntriesIssued'
    BY <1>1, <1>4, <2>1, <2>2 DEF SigsIssued, EntriesIssued, TypeInv, TypeOK
  <2>4. LockIssued'
    <3>1. PICK t \in Task : t.kind = "posting" /\ OnlyNewTask(g, t)
      BY <1>1, <1>4, <2>1, PostingTasks DEF TypeInv
    <3> QED BY <1>1, <3>1, LockStaysIssued DEF SigsIssued, TaskIssued
  <2>5. TaskIssued(task)
    <3>1. lock[g] \in Seq(Task)
      BY <1>1 DEF LockOK
    <3> QED BY <1>1, <3>1, TailTask DEF SigsIssued, LockIssued
  <2> DEFINE p == [by |-> g, req |-> task.req, peers |-> task.peers]
  <2>6. posts' = posts \cup {p} /\ p.req = task.req /\ p.peers = task.peers
    BY <1>4 DEF Posting
  <2>7. PostedPeersApproved'
    <3> HIDE DEF task, p
    <3> QED BY <1>1, <2>5, <2>6 DEF SigsIssued, PostedPeersApproved, TaskIssued
  <2> QED BY <1>2, <2>3, <2>4, <2>7 DEF SigsIssued
<1> QED BY <1>3, <1>4 DEF HandleStart

LEMMA IssuedRestart ==
    ASSUME TypeInv, SigsIssued, NEW g \in Guard, Restart(g)
    PROVE  SigsIssued'
<1>1. UNCHANGED <<net, approvals, posts>>
  BY DEF Restart
<1>2. /\ DOMAIN entries'[g] = {} /\ Len(lock'[g]) = 0
      /\ \A h \in Guard \ {g} : entries'[h] = entries[h] /\ lock'[h] = lock[h]
  BY DEF Restart, TypeInv, TypeOK
<1>3. NoNewTask
  BY <1>2 DEF NoNewTask
<1>4. LockIssued'
  BY <1>1, <1>3, LockKeepsIssued DEF SigsIssued
<1>5. \A h \in Guard : \A j \in DOMAIN entries'[h] :
         j \in DOMAIN entries[h] /\ entries'[h][j].sigs = entries[h][j].sigs
  BY <1>2
<1> QED BY <1>1, <1>4, <1>5, IssuedKept

LEMMA IssuedNext == ASSUME TypeInv, SigsIssued, [Next]_vars PROVE SigsIssued'
<1>1. CASE UNCHANGED vars
  BY <1>1 DEF vars, SigsIssued, EntriesIssued, NetIssued, LockIssued, TaskIssued,
              PostedPeersApproved
<1>2. CASE Tick
  <2>1. 0 \in Guard
    BY ConstantsAssumption DEF Guard
  <2> QED BY <1>2, <2>1, IssuedQuiet
<1>3. ASSUME NEW g \in Guard, LocalStep(g) PROVE SigsIssued'
  BY <1>3, IssuedQuiet, IssuedAddSign, IssuedUpdateLoop, IssuedSetRequest,
     IssuedHandleApprove, IssuedHandleStart, IssuedSettled DEF LocalStep
<1>4. ASSUME NEW g \in Guard, Event(g) PROVE SigsIssued'
  <2>1. CASE OwnEvent(g) \/ \E m \in Msgs : ExpireCache(g, m)
    BY <2>1, IssuedQuiet DEF OwnEvent
  <2>2. CASE \E m \in net : \/ ReceiveRequest(g, m) \/ RegisterAnswered(g, m)
                           \/ ReceiveApprove(g, m) \/ ReceiveStart(g, m)
                           \/ ReceiveCached(g, m)
    BY <2>2, IssuedQuiet, IssuedAnswers, IssuedReceiveApprove, IssuedReceiveStart
  <2>3. CASE (\E p \in awaiting[g] : ReceiveResult(g, p))
             \/ \E v \in verifying[g] : Verified(g, v)
    BY <2>3, IssuedSettled
  <2> QED BY <1>4, <2>1, <2>2, <2>3 DEF Event
<1> QED BY <1>1, <1>2, <1>3, <1>4, IssuedQuiet, IssuedRestart DEF Next

\* Whatever the timing, the failures, the restarts and the versions: every peer
\* a guard names to its tss-api signed an approval of exactly that request.
THEOREM PeersApprovedCorrect == Spec => []PostedPeersApproved
<1>1. Init => SigsIssued
  BY IssuedInit
<1>2. TypeInv /\ SigsIssued /\ [Next]_vars => SigsIssued'
  BY IssuedNext
<1>3. SigsIssued => PostedPeersApproved
  BY DEF SigsIssued
<1> QED BY <1>1, <1>2, <1>3, TypeCorrect, PTL DEF Spec

-----------------------------------------------------------------------------
(***************************************************************************)
(* At most one signing per message is under way in a queue                 *)
(***************************************************************************)

\* What getSign finds comes first, and only that is posted.
FirstPosted ==
    \A g \in Guard : \A i, j \in signs[g] :
        entries[g][i].msg = entries[g][j].msg /\ entries[g][i].posted => i <= j

\* No entry is queued or posted; some may leave the queue.
NothingPosted ==
    \A h \in Guard :
        /\ signs'[h] \subseteq signs[h]
        /\ \A j \in DOMAIN entries[h] :
              /\ entries'[h][j].msg = entries[h][j].msg
              /\ entries'[h][j].posted = entries[h][j].posted

LEMMA FirstKept == ASSUME TypeOK, FirstPosted, NothingPosted PROVE FirstPosted'
<1>1. \A h \in Guard : \A j \in signs[h] : j \in DOMAIN entries[h]
  BY DEF TypeOK
<1>2. ASSUME NEW h \in Guard, NEW i \in signs'[h], NEW j \in signs'[h],
             entries'[h][i].msg = entries'[h][j].msg, entries'[h][i].posted
      PROVE  i <= j
  BY <1>1, <1>2 DEF FirstPosted, NothingPosted
<1> QED BY <1>2 DEF FirstPosted

\* Posting what getSign found.
LEMMA FirstStarted ==
    ASSUME TypeOK, FirstPosted, NEW g \in Guard, NEW m, NEW i \in GetSign(g, m, FALSE),
           UNCHANGED signs,
           \A h \in Guard : \A j \in DOMAIN entries[h] :
              /\ entries'[h][j].msg = entries[h][j].msg
              /\ \/ entries'[h][j].posted = entries[h][j].posted
                 \/ h = g /\ j = i
    PROVE  FirstPosted'
<1>1. \A j \in signs[g] : entries[g][j].msg = m => i <= j
  BY DEF GetSign, SignIn, IsFirst
<1>2. i \in signs[g] /\ entries[g][i].msg = m
  BY DEF GetSign, SignIn
<1>3. \A h \in Guard : \A j \in signs[h] : j \in DOMAIN entries[h]
  BY DEF TypeOK
<1>4. ASSUME NEW h \in Guard, NEW k \in signs'[h], NEW j \in signs'[h],
             entries'[h][k].msg = entries'[h][j].msg, entries'[h][k].posted
      PROVE  k <= j
  <2>1. entries[h][k].msg = entries[h][j].msg
    BY <1>3, <1>4
  <2>2. CASE h = g /\ k = i
    BY <1>1, <1>2, <1>4, <2>1, <2>2
  <2>3. CASE ~(h = g /\ k = i)
    BY <1>3, <1>4, <2>1, <2>3 DEF FirstPosted
  <2> QED BY <2>2, <2>3
<1> QED BY <1>4 DEF FirstPosted

LEMMA FirstHandleStart ==
    ASSUME TypeInv, FirstPosted, NEW g \in Guard, HandleStart(g)
    PROVE  FirstPosted'
<1>1. TypeOK /\ UNCHANGED signs
  BY DEF TypeInv, HandleStart
<1>2. CASE UNCHANGED entries
  BY <1>1, <1>2, FirstKept DEF NothingPosted
<1>3. ASSUME NEW m, NEW i \in GetSign(g, m, FALSE),
             entries' = [entries EXCEPT ![g][i].posted = TRUE]
      PROVE  FirstPosted'
  <2>1. i \in DOMAIN entries[g] /\ entries[g][i] \in Entry
    BY <1>1 DEF GetSign, SignIn, TypeOK
  <2> DEFINE e == [entries[g][i] EXCEPT !.posted = TRUE]
  <2>2. entries' = [entries EXCEPT ![g] = [@ EXCEPT ![i] = e]]
        /\ e.msg = entries[g][i].msg /\ e \in Entry
    BY <1>1, <1>3, <2>1 DEF TypeOK, Entry
  <2> HIDE DEF e
  <2>3. \A h \in Guard : \A j \in DOMAIN entries[h] :
           entries'[h][j] = IF h = g /\ j = i THEN e ELSE entries[h][j]
    BY <1>1, <2>1, <2>2, EntryUpdate DEF TypeOK
  <2>4. \A h \in Guard : \A j \in DOMAIN entries[h] :
           /\ entries'[h][j].msg = entries[h][j].msg
           /\ \/ entries'[h][j].posted = entries[h][j].posted
              \/ h = g /\ j = i
    BY <2>2, <2>3
  <2> QED BY <1>1, <2>4, FirstStarted
<1> QED BY <1>2, <1>3 DEF HandleStart

LEMMA FirstHandleApprove ==
    ASSUME TypeInv, FirstPosted, NEW g \in Guard, HandleApprove(g)
    PROVE  FirstPosted'
<1> DEFINE task == Head(lock[g])
           e == entries[g][task.id]
           sigs == StoreSig(e.sigs, task.sig)
           x == [e EXCEPT !.sigs = sigs]
           stored == [entries EXCEPT ![g][task.id].sigs = sigs]
<1>1. TypeOK /\ UNCHANGED signs
  BY DEF TypeInv, HandleApprove
<1>2. LockOK /\ lock[g] # <<>> /\ task.kind = "approve"
  BY DEF HandleApprove, Holds, TypeInv, TypeOK, RefsOK, LockOK
<1>3. task.id \in DOMAIN entries[g]
  BY <1>2, HeadRefs DEF TaskRefs, WithId
<1>4. \A h \in Guard :
         /\ DOMAIN stored[h] = DOMAIN entries[h]
         /\ \A j \in DOMAIN entries[h] :
               /\ stored[h][j].msg = entries[h][j].msg
               /\ stored[h][j].posted = entries[h][j].posted
               /\ "msg" \in DOMAIN stored[h][j]
  <2>1. e \in Entry
    BY <1>1, <1>3 DEF TypeOK
  <2>2. x.msg = e.msg /\ x.posted = e.posted /\ "msg" \in DOMAIN x
    BY <2>1 DEF Entry
  <2>3. stored = [entries EXCEPT ![g] = [@ EXCEPT ![task.id] = x]]
    BY <1>1, <1>3 DEF TypeOK
  <2> HIDE DEF x, stored
  <2>4. \A h \in Guard :
           /\ DOMAIN stored[h] = DOMAIN entries[h]
           /\ \A j \in DOMAIN entries[h] :
                 stored[h][j] = IF h = g /\ j = task.id THEN x ELSE entries[h][j]
    BY <1>1, <1>3, <2>3 DEF TypeOK
  <2>5. \A h \in Guard : \A j \in DOMAIN entries[h] : entries[h][j] \in Entry
    BY <1>1 DEF TypeOK
  <2>6. \A h \in Guard : \A j \in DOMAIN entries[h] : "msg" \in DOMAIN entries[h][j]
    BY <2>5 DEF Entry
  <2> QED BY <2>2, <2>4, <2>6
<1>5. \/ entries' = stored
      \/ \E i \in GetSign(g, e.msg, FALSE) :
            entries' = [stored EXCEPT ![g][i].posted = TRUE]
  BY DEF HandleApprove
<1>6. CASE entries' = stored
  <2> HIDE DEF stored
  <2> QED BY <1>1, <1>4, <1>6, FirstKept DEF NothingPosted
<1>7. ASSUME NEW i \in GetSign(g, e.msg, FALSE),
             entries' = [stored EXCEPT ![g][i].posted = TRUE]
      PROVE  FirstPosted'
  <2>1. i \in DOMAIN entries[g]
    BY <1>1 DEF GetSign, SignIn, TypeOK
  <2>2. DOMAIN stored = Guard
    BY <1>1 DEF TypeOK
  <2>3. \A h \in Guard : \A j \in DOMAIN entries[h] :
           /\ entries'[h][j].msg = entries[h][j].msg
           /\ \/ entries'[h][j].posted = entries[h][j].posted
              \/ h = g /\ j = i
    <3> HIDE DEF stored
    <3>1. \A h \in Guard : h # g => entries'[h] = stored[h]
      BY <1>7, <2>2
    <3>2. \A j \in DOMAIN stored[g] :
             entries'[g][j] = IF j = i THEN [stored[g][i] EXCEPT !.posted = TRUE]
                              ELSE stored[g][j]
      BY <1>7, <2>2
    <3>3. [stored[g][i] EXCEPT !.posted = TRUE].msg = stored[g][i].msg
      BY <1>4, <2>1
    <3> QED BY <1>4, <3>1, <3>2, <3>3
  <2> HIDE DEF stored
  <2> QED BY <1>1, <2>3, FirstStarted
<1> QED BY <1>5, <1>6, <1>7

\* A new entry is queued behind all others.
LEMMA FirstAddSign ==
    ASSUME TypeInv, FirstPosted, NEW g \in Guard, AddSign(g)
    PROVE  FirstPosted'
<1>1. TypeOK
  BY DEF TypeInv
<1>2. PICK e : /\ ~e.posted
               /\ entries' = [entries EXCEPT ![g] = Append(entries[g], e)]
               /\ signs' = [signs EXCEPT ![g] = signs[g] \cup {Len(Append(entries[g], e))}]
  BY DEF AddSign
<1>3. PICK n \in Nat : n = Len(entries[g]) /\ DOMAIN entries[g] = 1 .. n
  BY <1>1, LenProperties DEF TypeOK
<1>4. /\ signs'[g] = signs[g] \cup {n + 1}
      /\ entries'[g][n + 1] = e
      /\ \A j \in 1 .. n : entries'[g][j] = entries[g][j]
      /\ \A h \in Guard : h # g => entries'[h] = entries[h] /\ signs'[h] = signs[h]
  <2>1. entries[g] \in Seq(Entry) /\ entries'[g] = Append(entries[g], e)
        /\ signs'[g] = signs[g] \cup {Len(Append(entries[g], e))}
    BY <1>1, <1>2 DEF TypeOK
  <2>2. Len(Append(entries[g], e)) = n + 1
    BY <1>3, <2>1
  <2> QED BY <1>1, <1>2, <1>3, <2>1, <2>2 DEF TypeOK
<1>5. \A h \in Guard : signs[h] \subseteq DOMAIN entries[h] /\ signs[h] \subseteq Nat
  BY <1>1 DEF TypeOK
<1>6. ASSUME NEW h \in Guard, NEW i \in signs'[h], NEW j \in signs'[h],
             entries'[h][i].msg = entries'[h][j].msg, entries'[h][i].posted
      PROVE  i <= j
  <2>1. CASE h # g
    BY <1>4, <1>6, <2>1 DEF FirstPosted
  <2>2. CASE h = g
    <3>1. i # n + 1
      BY <1>2, <1>4, <1>6, <2>2
    <3>2. i \in signs[g] /\ i \in 1 .. n /\ entries[g][i] = entries'[g][i]
      BY <1>3, <1>4, <1>5, <1>6, <2>2, <3>1
    <3>3. CASE j = n + 1
      BY <3>2, <3>3
    <3>4. CASE j # n + 1
      <4>1. j \in signs[g] /\ j \in 1 .. n /\ entries[g][j] = entries'[g][j]
        BY <1>3, <1>4, <1>5, <1>6, <2>2, <3>4
      <4> QED BY <1>6, <2>2, <3>2, <4>1 DEF FirstPosted
    <3> QED BY <3>3, <3>4
  <2> QED BY <2>1, <2>2
<1> QED BY <1>6 DEF FirstPosted

LEMMA FirstSetRequest ==
    ASSUME TypeInv, FirstPosted, NEW g \in Guard, SetRequest(g)
    PROVE  FirstPosted'
<1> DEFINE task == Head(lock[g])
           req == RequestOf(g, task.id, task.guards, task.ts)
           own == [by |-> g, req |-> req]
           e == [entries[g][task.id] EXCEPT !.request = {req}, !.sigs = {own}]
<1>1. LockOK /\ lock[g] # <<>> /\ task.kind = "request" /\ TypeOK
  BY DEF SetRequest, Holds, TypeInv, TypeOK, RefsOK, LockOK
<1>2. task.id \in DOMAIN entries[g]
  BY <1>1, HeadRefs DEF TaskRefs, WithId
<1>3. entries[g][task.id] \in Entry
  BY <1>1, <1>2 DEF TypeOK
<1>4. entries' = [entries EXCEPT ![g] = [@ EXCEPT ![task.id] = e]] /\ UNCHANGED signs
  BY <1>1, <1>2 DEF SetRequest, TypeOK
<1>5. e.msg = entries[g][task.id].msg /\ e.posted = entries[g][task.id].posted
  BY <1>3 DEF Entry
<1> HIDE DEF e, task
<1>6. \A h \in Guard : \A j \in DOMAIN entries[h] :
         entries'[h][j] = IF h = g /\ j = task.id THEN e ELSE entries[h][j]
  BY <1>1, <1>2, <1>4 DEF TypeOK
<1>7. NothingPosted
  BY <1>4, <1>5, <1>6 DEF NothingPosted
<1> QED BY <1>1, <1>7, FirstKept

LEMMA SomeLeave ==
    ASSUME TypeOK, NEW g \in Guard, NEW T \in SUBSET signs[g],
           signs' = [signs EXCEPT ![g] = T]
    PROVE  \A h \in Guard : signs'[h] \subseteq signs[h]
BY DEF TypeOK

LEMMA FirstSettled ==
    ASSUME TypeInv, FirstPosted, NEW g \in Guard,
           \/ PostFailed(g)
           \/ \E p \in awaiting[g] : ReceiveResult(g, p)
           \/ \E v \in verifying[g] : Verified(g, v)
    PROVE  FirstPosted'
<1>1. TypeOK
  BY DEF TypeInv
<1>2. \A h \in Guard : signs'[h] \subseteq signs[h]
  <2>1. CASE UNCHANGED signs
    BY <2>1
  <2>2. CASE PostFailed(g)
    <3>1. PICK T \in SUBSET signs[g] : signs' = [signs EXCEPT ![g] = T]
      BY <1>1, <2>2 DEF PostFailed, TypeOK
    <3> QED BY <1>1, <3>1, SomeLeave
  <2> QED BY <2>1, <2>2 DEF ReceiveResult, Verified
<1>3. \/ UNCHANGED entries
      \/ \E i \in DOMAIN entries[g], status \in {"ok", "failed"} :
            entries' = [entries EXCEPT ![g][i] = Settle(@, status)]
  <2>1. CASE PostFailed(g)
    <3>1. lock[g] # <<>> /\ Head(lock[g]).kind = "fail" /\ LockOK
      BY <2>1 DEF PostFailed, Holds, TypeInv, TypeOK, RefsOK, LockOK
    <3>2. Head(lock[g]).id \in DOMAIN entries[g]
      BY <3>1, HeadRefs DEF TaskRefs, WithId
    <3> QED BY <2>1, <3>2 DEF PostFailed
  <2>2. ASSUME NEW p \in awaiting[g], ReceiveResult(g, p)
        PROVE  \/ UNCHANGED entries
               \/ \E i \in DOMAIN entries[g] :
                     entries' = [entries EXCEPT ![g][i] = Settle(@, "failed")]
    <3>1. GetSign(g, p.req.msg, TRUE) \subseteq DOMAIN entries[g]
      BY <1>1 DEF GetSign, SignIn, TypeOK
    <3> QED BY <2>2, <3>1 DEF ReceiveResult
  <2>3. ASSUME NEW v \in verifying[g], Verified(g, v)
        PROVE  \/ UNCHANGED entries
               \/ \E i \in DOMAIN entries[g] :
                     entries' = [entries EXCEPT ![g][i] = Settle(@, "ok")]
    <3>1. v.id \in DOMAIN entries[g]
      BY DEF TypeInv, RefsOK
    <3> QED BY <2>3, <3>1 DEF Verified
  <2> QED BY <2>1, <2>2, <2>3
<1>4. \A h \in Guard : \A j \in DOMAIN entries[h] :
         /\ entries'[h][j].msg = entries[h][j].msg
         /\ entries'[h][j].posted = entries[h][j].posted
  BY <1>1, <1>3, SettledEntries
<1> QED BY <1>1, <1>2, <1>4, FirstKept DEF NothingPosted

LEMMA FirstRestart ==
    ASSUME TypeInv, FirstPosted, NEW g \in Guard, Restart(g)
    PROVE  FirstPosted'
<1>1. /\ signs'[g] = {}
      /\ \A h \in Guard \ {g} : signs'[h] = signs[h] /\ entries'[h] = entries[h]
  BY DEF TypeInv, TypeOK, Restart
<1> QED BY <1>1 DEF FirstPosted

LEMMA FirstNext == ASSUME TypeInv, FirstPosted, [Next]_vars PROVE FirstPosted'
<1>1. TypeOK
  BY DEF TypeInv
<1>2. CASE UNCHANGED entries /\ \A h \in Guard : signs'[h] \subseteq signs[h]
  BY <1>1, <1>2, FirstKept DEF NothingPosted
<1>3. CASE UNCHANGED vars \/ Tick
  BY <1>2, <1>3 DEF vars, Tick
<1>4. ASSUME NEW g \in Guard, LocalStep(g) PROVE FirstPosted'
  <2>1. CASE UpdateTurn(g) \/ UpdateLoop(g)
    BY <1>2, <2>1 DEF UpdateTurn, UpdateLoop
  <2>2. CASE Cleanup(g) \/ RemoveSign(g)
    <3>1. UNCHANGED entries
      BY <2>2 DEF Cleanup, RemoveSign
    <3>2. PICK T \in SUBSET signs[g] : signs' = [signs EXCEPT ![g] = T]
      BY <1>1, <2>2 DEF Cleanup, RemoveSign, TypeOK
    <3> QED BY <1>1, <1>2, <3>1, <3>2, SomeLeave
  <2> QED BY <1>4, <2>1, <2>2, FirstAddSign, FirstSetRequest, FirstHandleApprove,
             FirstHandleStart, FirstSettled DEF LocalStep
<1>5. ASSUME NEW g \in Guard, Event(g) PROVE FirstPosted'
  <2>1. CASE OwnEvent(g) \/ \E m \in Msgs : ExpireCache(g, m)
    BY <1>2, <2>1 DEF OwnEvent, UpdateBegin, UpdateStart, PostAnswered, ExpireCache
  <2>2. CASE \E m \in net : \/ ReceiveRequest(g, m) \/ RegisterAnswered(g, m)
                           \/ ReceiveApprove(g, m) \/ ReceiveStart(g, m)
                           \/ ReceiveCached(g, m)
    BY <1>2, <2>2 DEF ReceiveRequest, RegisterAnswered, ReceiveApprove, ReceiveStart,
                      ReceiveCached
  <2> QED BY <1>5, <2>1, <2>2, FirstSettled DEF Event
<1>6. ASSUME NEW g \in Guard, NEW m \in Msgs, Sign(g, m) PROVE FirstPosted'
  BY <1>2, <1>6 DEF Sign
<1> QED BY <1>3, <1>4, <1>5, <1>6, FirstRestart DEF Next

\* However often one message is queued, and whatever leaves the queue meanwhile: of its
\* entries only the first is ever posted, so that one signing of it is under way.
THEOREM OnePostedCorrect == Spec => []OnePostedEntry
<1>1. Init => FirstPosted
  BY DEF Init, FirstPosted
<1>2. TypeInv /\ FirstPosted /\ [Next]_vars => FirstPosted'
  BY FirstNext
<1>3. TypeInv /\ FirstPosted => OnePostedEntry
  <2>1. TypeInv => \A g \in Guard : signs[g] \subseteq Nat
    BY DEF TypeInv, TypeOK
  <2> QED BY <2>1 DEF FirstPosted, OnePostedEntry
<1> QED BY <1>1, <1>2, <1>3, TypeCorrect, PTL DEF Spec

-----------------------------------------------------------------------------
(***************************************************************************)
(* A guard that starts a signing is one of its parties                     *)
(***************************************************************************)

\* The request of an entry is this guard's, which approved it and is among its guards.
EntryParty(g, e) ==
    \A r \in e.request : r.init = g /\ g \in r.guards /\ [by |-> g, req |-> r] \in e.sigs

EntriesParty == \A g \in Guard : \A i \in DOMAIN entries[g] : EntryParty(g, entries[g][i])

\* No approval that waits to be stored replaces the own one.
TaskParty(g, t) ==
    /\ t.kind = "request" => g \in t.guards
    /\ t.kind = "approve" => t.sig.by # g
    /\ t.kind = "start" => g \in t.peers

LockParty == \A g \in Guard : \A k \in 1 .. Len(lock[g]) : TaskParty(g, lock[g][k])

UpdParty == \A g \in Guard : upd[g].todo # {} => g \in upd[g].guards

PendingParty == \A g \in Guard : \A r \in pending[g] : r.init # g

\* Nobody writes to itself; a start goes to guards whose approvals it carries.
MsgParty(m) ==
    /\ m.from \notin m.to
    /\ m.type = "request" => m.req.init = m.from
    /\ m.type = "approve" => \A a \in m.sigs : a.by = m.from
    /\ m.type = "start" => /\ m.req.init = m.from
                           /\ \A h \in m.to : /\ h \in m.req.guards
                                              /\ [by |-> h, req |-> m.req] \in m.sigs

NetParty == \A m \in net : MsgParty(m)

\* The inductive invariant behind StarterIsPeer.
PartyInv ==
    EntriesParty /\ LockParty /\ UpdParty /\ PendingParty /\ NetParty /\ StarterIsPeer

LEMMA LockStaysParty ==
    ASSUME LockParty, NEW g \in Guard, NEW t, TaskParty(g, t), OnlyNewTask(g, t)
    PROVE  LockParty'
<1>1. ASSUME NEW h \in Guard, NEW k \in 1 .. Len(lock'[h])
      PROVE  TaskParty(h, lock'[h][k])
  BY <1>1 DEF OnlyNewTask, LockParty
<1> QED BY <1>1 DEF LockParty, TaskParty

LEMMA LockKeepsParty == ASSUME LockParty, NoNewTask PROVE LockParty'
<1>1. ASSUME NEW h \in Guard, NEW k \in 1 .. Len(lock'[h])
      PROVE  TaskParty(h, lock'[h][k])
  BY <1>1 DEF NoNewTask, LockParty
<1> QED BY <1>1 DEF LockParty, TaskParty

\* Requests and approvals of the entries stay as they are.
PartiesKept ==
    \A h \in Guard : \A j \in DOMAIN entries'[h] :
        /\ j \in DOMAIN entries[h]
        /\ entries'[h][j].request = entries[h][j].request
        /\ entries'[h][j].sigs = entries[h][j].sigs

LEMMA EntriesKeepParty == ASSUME EntriesParty, PartiesKept PROVE EntriesParty'
<1>1. ASSUME NEW h \in Guard, NEW j \in DOMAIN entries'[h]
      PROVE  EntryParty(h, entries'[h][j])
  <2>1. /\ EntryParty(h, entries[h][j])
        /\ entries'[h][j].request = entries[h][j].request
        /\ entries'[h][j].sigs = entries[h][j].sigs
    BY <1>1 DEF EntriesParty, PartiesKept
  <2> QED BY <2>1 DEF EntryParty
<1> QED BY <1>1 DEF EntriesParty, EntryParty

\* A step that sends, asks for and starts nothing.
PartyQuiet == PartiesKept /\ UNCHANGED <<upd, pending, net, posts>>

LEMMA QuietKeepsParty == ASSUME PartyInv, PartyQuiet, LockParty' PROVE PartyInv'
<1>1. EntriesParty'
  BY EntriesKeepParty DEF PartyInv, PartyQuiet
<1> QED BY <1>1 DEF PartyInv, PartyQuiet, UpdParty, PendingParty, NetParty, MsgParty,
                    StarterIsPeer

LEMMA PartyInit == ASSUME Init PROVE PartyInv
<1>1. Len(<<>>) = 0 /\ DOMAIN <<>> = {} /\ Idle.todo = {}
  BY DEF Idle
<1> QED BY <1>1 DEF Init, PartyInv, EntriesParty, LockParty, UpdParty, PendingParty,
                    NetParty, StarterIsPeer

\* A progress of update() in which no entry is new.
LEMMA UpdKeepsParty ==
    ASSUME TypeOK, UpdParty, NEW g \in Guard, NEW u, upd' = [upd EXCEPT ![g] = u],
           u.todo = {} \/ (u.todo \subseteq upd[g].todo /\ u.guards = upd[g].guards)
    PROVE  UpdParty'
BY DEF TypeOK, UpdParty

\* Tasks without an approval, a request or a start.
LEMMA OtherTaskParty ==
    ASSUME TypeOK, LockParty, NEW g \in Guard, NEW t \in Task,
           t.kind \notin {"request", "approve", "start"}, Acquire(g, t)
    PROVE  LockParty'
BY AcquireTasks, LockStaysParty DEF TaskParty

LEMMA PartySettled ==
    ASSUME TypeInv, PartyInv, NEW g \in Guard,
           \/ PostFailed(g)
           \/ \E p \in awaiting[g] : ReceiveResult(g, p)
           \/ \E v \in verifying[g] : Verified(g, v)
    PROVE  PartyInv'
<1>1. TypeOK /\ LockParty
  BY DEF TypeInv, PartyInv
<1>2. CASE UNCHANGED <<entries, lock, upd, pending, net, posts>>
  BY <1>1, <1>2, QuietKeepsParty DEF PartyQuiet, PartiesKept, LockParty, TaskParty
<1>3. ASSUME NEW i \in DOMAIN entries[g], NEW status \in {"ok", "failed"},
             entries' = [entries EXCEPT ![g][i] = Settle(@, status)], LockParty',
             UNCHANGED <<upd, pending, net, posts>>
      PROVE  PartyInv'
  <2>1. PartiesKept
    BY <1>1, <1>3, SettledEntries DEF PartiesKept
  <2> QED BY <1>3, <2>1, QuietKeepsParty DEF PartyQuiet
<1>4. ASSUME NEW m \in Msgs, Acquire(g, [kind |-> "remove", msg |-> m])
      PROVE  LockParty'
  <2>1. PICK t \in Task : t.kind = "remove" /\ Acquire(g, t)
    BY <1>4 DEF Task
  <2> QED BY <1>1, <2>1, OtherTaskParty
<1>5. CASE PostFailed(g)
  <2>1. lock[g] # <<>> /\ Head(lock[g]).kind = "fail" /\ LockOK
    BY <1>5 DEF PostFailed, Holds, TypeInv, TypeOK, RefsOK, LockOK
  <2>2. Head(lock[g]).id \in DOMAIN entries[g]
    BY <2>1, HeadRefs DEF TaskRefs, WithId
  <2>3. LockParty'
    BY <1>1, <1>5, <2>1, ReleaseTasks, LockKeepsParty DEF PostFailed
  <2> QED BY <1>3, <1>5, <2>2, <2>3 DEF PostFailed
<1>6. ASSUME NEW p \in awaiting[g], ReceiveResult(g, p) PROVE PartyInv'
  <2>1. p.req.msg \in Msgs
    BY <1>1 DEF TypeOK, Post, Request
  <2>2. GetSign(g, p.req.msg, TRUE) \subseteq DOMAIN entries[g]
    BY <1>1 DEF GetSign, SignIn, TypeOK
  <2>3. UNCHANGED <<upd, pending, net, posts>>
    BY <1>6 DEF ReceiveResult
  <2>4. \/ UNCHANGED <<entries, lock>>
        \/ /\ \E i \in DOMAIN entries[g] :
                 entries' = [entries EXCEPT ![g][i] = Settle(@, "failed")]
           /\ Acquire(g, [kind |-> "remove", msg |-> p.req.msg])
    BY <1>6, <2>2 DEF ReceiveResult
  <2> QED BY <1>2, <1>3, <1>4, <2>1, <2>3, <2>4
<1>7. ASSUME NEW v \in verifying[g], Verified(g, v) PROVE PartyInv'
  <2>1. v.id \in DOMAIN entries[g] /\ entries[g][v.id] \in Entry
    BY DEF TypeInv, TypeOK, RefsOK
  <2>2. entries[g][v.id].msg \in Msgs
    BY <2>1 DEF Entry
  <2>3. UNCHANGED <<upd, pending, net, posts>>
    BY <1>7 DEF Verified
  <2>4. \/ UNCHANGED <<entries, lock>>
        \/ /\ entries' = [entries EXCEPT ![g][v.id] = Settle(@, "ok")]
           /\ Acquire(g, [kind |-> "remove", msg |-> entries[g][v.id].msg])
    BY <1>7 DEF Verified
  <2> QED BY <1>2, <1>3, <1>4, <2>1, <2>2, <2>3, <2>4
<1> QED BY <1>5, <1>6, <1>7

LEMMA PartyQuietSteps ==
    ASSUME TypeInv, PartyInv, NEW g \in Guard,
           \/ \E m \in Msgs : Sign(g, m) \/ ExpireCache(g, m)
           \/ \E m \in net : ReceiveCached(g, m)
           \/ RemoveSign(g) \/ PostAnswered(g) \/ Tick
    PROVE  PartyInv'
<1>1. TypeOK /\ LockParty
  BY DEF TypeInv, PartyInv
<1>2. UNCHANGED <<entries, upd, pending, net, posts>>
  BY DEF Sign, ExpireCache, ReceiveCached, RemoveSign, PostAnswered, Tick
<1>3. LockParty'
  <2>1. CASE UNCHANGED lock
    BY <1>1, <2>1 DEF LockParty, TaskParty
  <2>2. ASSUME NEW m \in Msgs, Acquire(g, [kind |-> "add", msg |-> m])
        PROVE  LockParty'
    <3>1. PICK t \in Task : t.kind = "add" /\ Acquire(g, t)
      BY <2>2 DEF Task
    <3> QED BY <1>1, <3>1, OtherTaskParty
  <2>3. ASSUME NEW m \in Msgs, Sign(g, m) PROVE LockParty'
    BY <2>1, <2>2, <2>3 DEF Sign
  <2>4. CASE RemoveSign(g)
    BY <1>1, <2>4, ReleaseTasks, LockKeepsParty DEF RemoveSign, Holds
  <2>5. CASE PostAnswered(g)
    <3>1. NoNewTask \/ \E t \in Task : t.kind = "fail" /\ OnlyNewTask(g, t)
      BY <2>5, AnsweredTasks
    <3> QED BY <1>1, <3>1, LockKeepsParty, LockStaysParty DEF TaskParty
  <2>6. CASE Tick \/ (\E m \in Msgs : ExpireCache(g, m))
             \/ \E m \in net : ReceiveCached(g, m)
    BY <2>1, <2>6 DEF Tick, ExpireCache, ReceiveCached
  <2> QED BY <2>3, <2>4, <2>5, <2>6
<1> QED BY <1>2, <1>3, QuietKeepsParty DEF PartyQuiet, PartiesKept

\* The other steps of update() that send nothing.
LEMMA PartyUpdate ==
    ASSUME TypeInv, PartyInv, NEW g \in Guard,
           UpdateBegin(g) \/ Cleanup(g) \/ UpdateTurn(g) \/ UpdateStart(g)
    PROVE  PartyInv'
<1>1. TypeOK /\ LockParty /\ UpdParty /\ PendingParty /\ upd[g] \in Update
  BY DEF TypeInv, TypeOK, PartyInv
<1>2. UNCHANGED <<entries, net, posts>>
  BY DEF UpdateBegin, Cleanup, UpdateTurn, UpdateStart
<1>3. LockParty'
  <2>1. CASE UpdateTurn(g) \/ UpdateStart(g)
    BY <1>1, <2>1 DEF UpdateTurn, UpdateStart, LockParty, TaskParty
  <2>2. CASE Cleanup(g)
    BY <1>1, <2>2, ReleaseTasks, LockKeepsParty DEF Cleanup, Holds
  <2>3. CASE UpdateBegin(g)
    <3>1. now \in Nat /\ now - Timeout \in Int
      BY <1>1, ConstantsAssumption DEF TypeOK
    <3>2. GuardTurn(now) \in Guard
      BY <3>1, TurnIsGuard
    <3>3. PICK t \in Task : t.kind = "cleanup" /\ Acquire(g, t)
      BY <2>3, <3>1, <3>2 DEF UpdateBegin, Task
    <3> QED BY <1>1, <3>3, OtherTaskParty
  <2> QED BY <2>1, <2>2, <2>3
<1>4. PendingParty'
  <2>1. CASE UNCHANGED pending
    BY <1>1, <2>1 DEF PendingParty
  <2>2. CASE Cleanup(g)
    <3>1. PICK P \in SUBSET pending[g] : pending' = [pending EXCEPT ![g] = P]
      BY <1>1, <2>2 DEF Cleanup, TypeOK
    <3> QED BY <1>1, <3>1 DEF PendingParty, TypeOK
  <2> QED BY <2>1, <2>2 DEF UpdateBegin, UpdateTurn, UpdateStart
<1>5. UpdParty'
  <2>1. ASSUME NEW pc, upd' = [upd EXCEPT ![g].pc = pc]
        PROVE  UpdParty'
    <3>1. PICK u : u = [upd[g] EXCEPT !.pc = pc]
      OBVIOUS
    <3>2. u.todo = upd[g].todo /\ u.guards = upd[g].guards
      BY <1>1, <3>1 DEF Update
    <3>3. upd' = [upd EXCEPT ![g] = u]
      BY <1>1, <2>1, <3>1 DEF TypeOK
    <3> QED BY <1>1, <3>2, <3>3, UpdKeepsParty
  <2>2. CASE upd' = [upd EXCEPT ![g] = Idle]
    BY <1>1, <2>2, IdleType, UpdKeepsParty
  <2>3. ASSUME NEW active \in SUBSET Guard, g \in active,
               upd' = [upd EXCEPT ![g] =
                         [pc |-> "loop", guards |-> active, ts |-> now,
                          todo |-> Firsts(signs[g], SignPerRound)]]
        PROVE  UpdParty'
    <3>1. PICK u : u.guards = active /\ upd' = [upd EXCEPT ![g] = u]
      BY <2>3
    <3> QED BY <1>1, <2>3, <3>1 DEF TypeOK, UpdParty
  <2>4. UpdateBegin(g) => upd' = [upd EXCEPT ![g].pc = "cleanup"]
    BY DEF UpdateBegin
  <2>5. Cleanup(g) => upd' = [upd EXCEPT ![g].pc = "turn"]
    BY DEF Cleanup
  <2>6. UpdateTurn(g) => \/ upd' = [upd EXCEPT ![g] = Idle]
                         \/ upd' = [upd EXCEPT ![g].pc = "start"]
    BY DEF UpdateTurn
  <2>7. CASE UpdateStart(g)
    BY <2>2, <2>3, <2>7 DEF UpdateStart
  <2> QED BY <2>1, <2>2, <2>4, <2>5, <2>6, <2>7
<1>6. EntriesParty'
  BY <1>2, EntriesKeepParty DEF PartyInv, PartiesKept
<1> QED BY <1>2, <1>3, <1>4, <1>5, <1>6 DEF PartyInv, NetParty, MsgParty, StarterIsPeer

LEMMA PartyUpdateLoop ==
    ASSUME TypeInv, PartyInv, NEW g \in Guard, UpdateLoop(g)
    PROVE  PartyInv'
<1>1. TypeOK /\ LockParty /\ UpdParty /\ NetParty /\ upd[g] \in Update
  BY DEF TypeInv, TypeOK, PartyInv
<1>2. UNCHANGED <<entries, pending, posts>>
  BY DEF UpdateLoop
<1>3. EntriesParty' /\ PendingParty' /\ StarterIsPeer'
  BY <1>2, EntriesKeepParty DEF PartyInv, PartiesKept, PendingParty, StarterIsPeer
<1>4. UpdParty'
  <2>1. PICK u : /\ upd' = [upd EXCEPT ![g] = u]
                 /\ u.todo = {} \/ (u.todo \subseteq upd[g].todo /\ u.guards = upd[g].guards)
    <3>1. CASE upd' = [upd EXCEPT ![g] = Idle]
      BY <3>1, IdleType
    <3>2. ASSUME NEW i, upd' = [upd EXCEPT ![g].todo = @ \ {i}]
          PROVE  \E u : /\ upd' = [upd EXCEPT ![g] = u]
                        /\ u.todo \subseteq upd[g].todo /\ u.guards = upd[g].guards
      <4> DEFINE u == [upd[g] EXCEPT !.todo = @ \ {i}]
      <4>1. u.todo \subseteq upd[g].todo /\ u.guards = upd[g].guards
        BY <1>1 DEF Update
      <4>2. upd' = [upd EXCEPT ![g] = u]
        BY <1>1, <3>2 DEF TypeOK
      <4> HIDE DEF u
      <4> QED BY <4>1, <4>2
    <3>3. ASSUME NEW i, upd' = [upd EXCEPT ![g].pc = "wait", ![g].todo = @ \ {i}]
          PROVE  \E u : /\ upd' = [upd EXCEPT ![g] = u]
                        /\ u.todo \subseteq upd[g].todo /\ u.guards = upd[g].guards
      <4> DEFINE u == [upd[g] EXCEPT !.pc = "wait", !.todo = @ \ {i}]
      <4>1. u.todo \subseteq upd[g].todo /\ u.guards = upd[g].guards
        BY <1>1 DEF Update
      <4>2. upd' = [upd EXCEPT ![g] = u]
        BY <1>1, <3>3 DEF TypeOK
      <4> HIDE DEF u
      <4> QED BY <4>1, <4>2
    <3> QED BY <3>1, <3>2, <3>3 DEF UpdateLoop
  <2> QED BY <1>1, <2>1, UpdKeepsParty
<1>5. CASE UNCHANGED <<lock, net>>
  BY <1>1, <1>3, <1>4, <1>5 DEF PartyInv, LockParty, TaskParty, NetParty, MsgParty
<1>6. ASSUME NEW i \in upd[g].todo,
             Send([type |-> "request", from |-> g, to |-> Guard \ {g},
                   req |-> RequestOf(g, i, upd[g].guards, upd[g].ts), sigs |-> {}]),
             Acquire(g, [kind |-> "request", id |-> i, guards |-> upd[g].guards,
                         ts |-> upd[g].ts])
      PROVE  PartyInv'
  <2> DEFINE m == [type |-> "request", from |-> g, to |-> Guard \ {g},
                   req |-> RequestOf(g, i, upd[g].guards, upd[g].ts), sigs |-> {}]
  <2>1. MsgParty(m)
    BY DEF MsgParty, RequestOf
  <2>2. net' = net \cup {m}
    BY <1>6 DEF Send
  <2> HIDE DEF m
  <2>3. NetParty'
    BY <1>1, <2>1, <2>2 DEF NetParty, MsgParty
  <2>4. PICK t \in Task : /\ t.kind = "request" /\ t.guards = upd[g].guards
                          /\ Acquire(g, t)
    <3>1. i \in Nat \ {0} /\ upd[g].guards \in SUBSET Guard /\ upd[g].ts \in Nat
      BY <1>1 DEF Update
    <3> QED BY <1>6, <3>1 DEF Task
  <2>5. g \in t.guards
    BY <1>1, <1>6, <2>4 DEF UpdParty
  <2>6. LockParty'
    BY <1>1, <2>4, <2>5, AcquireTasks, LockStaysParty DEF TaskParty
  <2> QED BY <1>3, <1>4, <2>3, <2>6 DEF PartyInv
<1> QED BY <1>5, <1>6 DEF UpdateLoop

LEMMA PartySetRequest ==
    ASSUME TypeInv, PartyInv, NEW g \in Guard, SetRequest(g)
    PROVE  PartyInv'
<1> DEFINE task == Head(lock[g])
           req == RequestOf(g, task.id, task.guards, task.ts)
           own == [by |-> g, req |-> req]
           e == [entries[g][task.id] EXCEPT !.request = {req}, !.sigs = {own}]
<1>1. LockOK /\ lock[g] # <<>> /\ task.kind = "request" /\ TypeOK /\ LockParty
  BY DEF SetRequest, Holds, TypeInv, TypeOK, RefsOK, LockOK, PartyInv
<1>2. task.id \in DOMAIN entries[g]
  BY <1>1, HeadRefs DEF TaskRefs, WithId
<1>3. entries[g][task.id] \in Entry
  BY <1>1, <1>2 DEF TypeOK
<1>4. g \in task.guards
  <2>1. lock[g] \in Seq(Task)
    BY <1>1 DEF LockOK
  <2>2. TaskParty(g, task)
    BY <1>1, <2>1, TailTask DEF LockParty
  <2> QED BY <1>1, <2>2 DEF TaskParty
<1>5. EntryParty(g, e)
  <2>1. req.init = g /\ g \in req.guards
    BY <1>4 DEF RequestOf
  <2> HIDE DEF req
  <2>2. e.request = {req} /\ e.sigs = {own}
    BY <1>3 DEF Entry
  <2> QED BY <2>1, <2>2 DEF EntryParty
<1>6. EntriesParty'
  <2>1. entries' = [entries EXCEPT ![g] = [@ EXCEPT ![task.id] = e]]
    BY <1>1, <1>2 DEF SetRequest, TypeOK
  <2> HIDE DEF e, task
  <2>2. \A h \in Guard :
           /\ DOMAIN entries'[h] = DOMAIN entries[h]
           /\ \A j \in DOMAIN entries[h] :
                 entries'[h][j] = IF h = g /\ j = task.id THEN e ELSE entries[h][j]
    BY <1>1, <1>2, <2>1 DEF TypeOK
  <2>3. \A h \in Guard : \A j \in DOMAIN entries'[h] : EntryParty(h, entries'[h][j])
    BY <1>5, <2>2 DEF PartyInv, EntriesParty
  <2> QED BY <2>3 DEF EntriesParty, EntryParty
<1>7. LockParty'
  BY <1>1, ReleaseTasks, LockKeepsParty DEF SetRequest
<1>8. UpdParty'
  <2>1. upd[g] \in Update /\ upd' = [upd EXCEPT ![g].pc = "loop"]
    BY <1>1 DEF TypeOK, SetRequest
  <2>2. PICK u : u = [upd[g] EXCEPT !.pc = "loop"]
    OBVIOUS
  <2>3. u.todo = upd[g].todo /\ u.guards = upd[g].guards
    BY <2>1, <2>2 DEF Update
  <2>4. upd' = [upd EXCEPT ![g] = u]
    BY <1>1, <2>1, <2>2 DEF TypeOK
  <2> QED BY <1>1, <2>3, <2>4, UpdKeepsParty DEF PartyInv
<1>9. UNCHANGED <<pending, net, posts>>
  BY DEF SetRequest
<1> QED BY <1>6, <1>7, <1>8, <1>9 DEF PartyInv, PendingParty, NetParty, MsgParty, StarterIsPeer

\* Requests of others are kept and answered, to them.
LEMMA PartyAnswer ==
    ASSUME TypeOK, NetParty, PendingParty, NEW g \in Guard, NEW req, req.init # g,
           NEW q, AnswerRequest(g, req, q)
    PROVE  NetParty' /\ PendingParty'
<1>1. NetParty'
  <2>1. ASSUME NEW m, MsgParty(m), net' = net \cup {m}
        PROVE  NetParty'
    BY <2>1 DEF NetParty, MsgParty
  <2>2. CASE UNCHANGED net
    BY <2>2 DEF NetParty, MsgParty
  <2>3. CASE SendCached(g, req)
    <3> DEFINE m == [type |-> "cached", from |-> g, to |-> {req.init}, req |-> req,
                     sigs |-> {}]
    <3>1. MsgParty(m)
      BY DEF MsgParty
    <3>2. net' = net \cup {m}
      BY <2>3 DEF SendCached, Send
    <3> HIDE DEF m
    <3> QED BY <2>1, <3>1, <3>2
  <2>4. CASE Approve(g, req)
    <3> DEFINE m == [type |-> "approve", from |-> g, to |-> {req.init}, req |-> req,
                     sigs |-> {[by |-> g, req |-> req]}]
    <3>1. MsgParty(m)
      BY DEF MsgParty
    <3>2. net' = net \cup {m}
      BY <2>4 DEF Approve, Send
    <3> HIDE DEF m
    <3> QED BY <2>1, <3>1, <3>2
  <2> QED BY <2>2, <2>3, <2>4 DEF AnswerRequest
<1>2. PendingParty'
  <2>1. CASE UNCHANGED pending
    BY <2>1 DEF PendingParty
  <2>2. CASE KeepPending(g, req)
    <3> DEFINE P == (pending[g] \ PendingOf(g, req.msg)) \cup {req}
    <3>1. pending' = [pending EXCEPT ![g] = P] /\ P \subseteq pending[g] \cup {req}
      BY <2>2 DEF KeepPending, TypeOK
    <3> HIDE DEF P
    <3> QED BY <3>1 DEF PendingParty, TypeOK
  <2> QED BY <2>1, <2>2 DEF AnswerRequest
<1> QED BY <1>1, <1>2

LEMMA PartyAnswers ==
    ASSUME TypeInv, PartyInv, NEW g \in Guard, NEW m \in net,
           ReceiveRequest(g, m) \/ RegisterAnswered(g, m)
    PROVE  PartyInv'
<1>1. TypeOK /\ UNCHANGED <<entries, lock, upd, posts>>
  BY DEF TypeInv, ReceiveRequest, RegisterAnswered
<1>2. m.req.init # g
  <2>1. g \in m.to /\ m.type = "request" /\ MsgParty(m)
    BY DEF ReceiveRequest, RegisterAnswered, Receivable, Addressed, PartyInv, NetParty
  <2> QED BY <2>1 DEF MsgParty
<1>3. \E q : AnswerRequest(g, m.req, q)
  BY DEF ReceiveRequest, RegisterAnswered
<1>4. NetParty' /\ PendingParty'
  BY <1>1, <1>2, <1>3, PartyAnswer DEF PartyInv
<1> QED BY <1>1, <1>4, EntriesKeepParty
        DEF PartyInv, PartiesKept, LockParty, TaskParty, UpdParty, StarterIsPeer

LEMMA PartyAddSign ==
    ASSUME TypeInv, PartyInv, NEW g \in Guard, AddSign(g)
    PROVE  PartyInv'
<1>1. TypeOK /\ UNCHANGED <<upd, posts>>
  BY DEF TypeInv, AddSign
<1>2. LockParty'
  BY <1>1, ReleaseTasks, LockKeepsParty DEF AddSign, Holds, PartyInv
<1>3. NetParty' /\ PendingParty'
  <2>1. CASE UNCHANGED <<net, approvals, pending>>
    BY <2>1 DEF PartyInv, NetParty, MsgParty, PendingParty
  <2>2. ASSUME NEW m, NEW p \in PendingOf(g, m), NEW q, AnswerRequest(g, p, q)
        PROVE  NetParty' /\ PendingParty'
    <3>1. p.init # g
      BY DEF PendingOf, PartyInv, PendingParty
    <3> QED BY <1>1, <2>2, <3>1, PartyAnswer DEF PartyInv
  <2> QED BY <2>1, <2>2 DEF AddSign
<1>4. EntriesParty'
  <2>1. PICK e : e.request = {} /\ entries' = [entries EXCEPT ![g] = Append(entries[g], e)]
    BY DEF AddSign
  <2>2. entries[g] \in Seq(Entry) /\ entries'[g] = Append(entries[g], e)
        /\ \A h \in Guard : h # g => entries'[h] = entries[h]
    BY <1>1, <2>1 DEF TypeOK
  <2>3. \A i \in DOMAIN entries'[g] :
           \/ entries'[g][i] = e
           \/ i \in DOMAIN entries[g] /\ entries'[g][i] = entries[g][i]
    BY <2>2
  <2>4. EntryParty(g, e)
    BY <2>1 DEF EntryParty
  <2>5. \A h \in Guard : \A j \in DOMAIN entries'[h] : EntryParty(h, entries'[h][j])
    BY <2>2, <2>3, <2>4 DEF PartyInv, EntriesParty
  <2> QED BY <2>5 DEF EntriesParty, EntryParty
<1> QED BY <1>1, <1>2, <1>3, <1>4 DEF PartyInv, UpdParty, StarterIsPeer

LEMMA PartyReceiveApprove ==
    ASSUME TypeInv, PartyInv, NEW g \in Guard, NEW m \in net, ReceiveApprove(g, m)
    PROVE  PartyInv'
<1>1. TypeOK /\ UNCHANGED <<entries, upd, pending, net, posts>>
  BY DEF TypeInv, ReceiveApprove
<1>2. PICK i \in GetSign(g, m.req.msg, FALSE), a \in m.sigs :
         Acquire(g, [kind |-> "approve", id |-> i, sig |-> a])
  BY DEF ReceiveApprove
<1>3. a.by # g
  <2>1. g \in m.to /\ m.type = "approve" /\ MsgParty(m)
    BY DEF ReceiveApprove, Receivable, Addressed, PartyInv, NetParty
  <2> QED BY <2>1 DEF MsgParty
<1>4. i \in Nat \ {0} /\ a \in Approval
  BY <1>1 DEF GetSign, SignIn, TypeOK, Message
<1>5. PICK t \in Task : t.kind = "approve" /\ t.sig = a /\ Acquire(g, t)
  BY <1>2, <1>4 DEF Task
<1>6. LockParty'
  BY <1>1, <1>3, <1>5, AcquireTasks, LockStaysParty DEF PartyInv, TaskParty
<1> QED BY <1>1, <1>6, QuietKeepsParty DEF PartyQuiet, PartiesKept

LEMMA PartyReceiveStart ==
    ASSUME TypeInv, PartyInv, NEW g \in Guard, NEW m \in net, ReceiveStart(g, m)
    PROVE  PartyInv'
<1> DEFINE req == [m.req EXCEPT !.init = m.from]
           peers == ApprovedGuards(g, req, m.sigs)
<1>1. TypeOK /\ UNCHANGED <<entries, upd, pending, net, posts>>
  BY DEF TypeInv, ReceiveStart
<1>2. m.req \in Request
  BY <1>1 DEF TypeOK, Message
<1>3. g \in m.to /\ m.type = "start" /\ MsgParty(m)
  BY DEF ReceiveStart, Receivable, Addressed, PartyInv, NetParty
<1>4. req = m.req
  BY <1>2, <1>3 DEF MsgParty, Request
<1>5. Acquire(g, [kind |-> "start", req |-> req, peers |-> peers])
  BY DEF ReceiveStart
<1> HIDE DEF req
<1>6. g \in peers
  BY <1>3, <1>4 DEF MsgParty, ApprovedGuards
<1>7. peers \in SUBSET Guard
  BY <1>2, <1>4 DEF ApprovedGuards, Request
<1> HIDE DEF peers
<1>8. PICK t \in Task : t.kind = "start" /\ t.peers = peers /\ Acquire(g, t)
  BY <1>2, <1>4, <1>5, <1>7 DEF Task
<1>9. LockParty'
  BY <1>1, <1>6, <1>8, AcquireTasks, LockStaysParty DEF PartyInv, TaskParty
<1> QED BY <1>1, <1>9, QuietKeepsParty DEF PartyQuiet, PartiesKept

LEMMA PartyHandleStart ==
    ASSUME TypeInv, PartyInv, NEW g \in Guard, HandleStart(g)
    PROVE  PartyInv'
<1> DEFINE task == Head(lock[g])
<1>1. LockOK /\ lock[g] # <<>> /\ task.kind = "start" /\ TypeOK
      /\ UNCHANGED <<upd, pending, net>>
  BY DEF HandleStart, Holds, TypeInv, TypeOK, RefsOK, LockOK
<1>2. CASE Release(g) /\ UNCHANGED <<entries, awaiting, posts>>
  <2>1. LockParty'
    BY <1>1, <1>2, ReleaseTasks, LockKeepsParty DEF PartyInv
  <2> QED BY <1>1, <1>2, <2>1, QuietKeepsParty DEF PartyQuiet, PartiesKept
<1>3. ASSUME NEW i \in GetSign(g, task.req.msg, FALSE),
             entries' = [entries EXCEPT ![g][i].posted = TRUE],
             Posting(g, i, task.req, task.peers)
      PROVE  PartyInv'
  <2>1. i \in DOMAIN entries[g] /\ i \in Nat \ {0} /\ entries[g][i] \in Entry
    BY <1>1 DEF GetSign, SignIn, TypeOK
  <2>2. PartiesKept
    <3> DEFINE e == [entries[g][i] EXCEPT !.posted = TRUE]
    <3>1. entries' = [entries EXCEPT ![g] = [@ EXCEPT ![i] = e]] /\ e \in Entry
          /\ e.request = entries[g][i].request /\ e.sigs = entries[g][i].sigs
      BY <1>1, <1>3, <2>1 DEF TypeOK, Entry
    <3> HIDE DEF e
    <3> QED BY <1>1, <2>1, <3>1, EntryUpdate DEF TypeOK, PartiesKept
  <2>3. LockParty'
    <3>1. PICK t \in Task : t.kind = "posting" /\ OnlyNewTask(g, t)
      BY <1>1, <1>3, <2>1, PostingTasks
    <3> QED BY <3>1, LockStaysParty DEF PartyInv, TaskParty
  <2>4. g \in task.peers
    <3>1. lock[g] \in Seq(Task)
      BY <1>1 DEF LockOK
    <3>2. TaskParty(g, task)
      BY <1>1, <3>1, TailTask DEF PartyInv, LockParty
    <3> QED BY <1>1, <3>2 DEF TaskParty
  <2>5. StarterIsPeer'
    <3> DEFINE p == [by |-> g, req |-> task.req, peers |-> task.peers]
    <3>1. posts' = posts \cup {p} /\ p.by = g /\ p.peers = task.peers
      BY <1>3 DEF Posting
    <3> HIDE DEF p, task
    <3> QED BY <2>4, <3>1 DEF PartyInv, StarterIsPeer
  <2>6. EntriesParty'
    BY <2>2, EntriesKeepParty DEF PartyInv
  <2> QED BY <1>1, <2>3, <2>5, <2>6
          DEF PartyInv, UpdParty, PendingParty, NetParty, MsgParty
<1> QED BY <1>2, <1>3 DEF HandleStart

LEMMA PartyHandleApprove ==
    ASSUME TypeInv, PartyInv, NEW g \in Guard, HandleApprove(g)
    PROVE  PartyInv'
<1> DEFINE task == Head(lock[g])
           e == entries[g][task.id]
           sigs == StoreSig(e.sigs, task.sig)
           x == [e EXCEPT !.sigs = sigs]
           stored == [entries EXCEPT ![g][task.id].sigs = sigs]
<1>1. LockOK /\ lock[g] # <<>> /\ task.kind = "approve" /\ task \in Task /\ TypeOK
      /\ UNCHANGED <<upd, pending>>
  BY HeadRefs DEF HandleApprove, Holds, TypeInv, TypeOK, RefsOK, LockOK
<1>2. task.id \in DOMAIN entries[g]
  BY <1>1, HeadRefs DEF TaskRefs, WithId
<1>3. e \in Entry /\ EntryParty(g, e)
  BY <1>1, <1>2 DEF TypeOK, PartyInv, EntriesParty
<1>4. task.sig.by # g
  <2>1. lock[g] \in Seq(Task)
    BY <1>1 DEF LockOK
  <2>2. TaskParty(g, task)
    BY <1>1, <2>1, TailTask DEF PartyInv, LockParty
  <2> QED BY <1>1, <2>2 DEF TaskParty
<1>5. \A r : [by |-> g, req |-> r] \in e.sigs => [by |-> g, req |-> r] \in sigs
  BY <1>4 DEF StoreSig
<1>6. EntryParty(g, x) /\ x \in Entry
  <2>1. sigs \in SUBSET Approval
    <3>1. e.sigs \in SUBSET Approval /\ task.sig \in Approval
      BY <1>1, <1>3 DEF Entry, Task
    <3> QED BY <3>1 DEF StoreSig
  <2> HIDE DEF sigs
  <2>2. x \in Entry /\ x.request = e.request /\ x.sigs = sigs
    BY <1>3, <2>1 DEF Entry
  <2> HIDE DEF x
  <2> QED BY <1>3, <1>5, <2>2 DEF EntryParty
<1>7. /\ stored \in [Guard -> Seq(Entry)]
      /\ \A h \in Guard : DOMAIN stored[h] = DOMAIN entries[h]
      /\ \A h \in Guard : \A j \in DOMAIN stored[h] : EntryParty(h, stored[h][j])
  <2>1. stored = [entries EXCEPT ![g] = [@ EXCEPT ![task.id] = x]]
    BY <1>1, <1>2 DEF TypeOK
  <2>2. entries[g] \in Seq(Entry) /\ task.id \in 1 .. Len(entries[g])
    BY <1>1, <1>2, LenProperties DEF TypeOK
  <2> HIDE DEF x, stored, task
  <2>3. [entries[g] EXCEPT ![task.id] = x] \in Seq(Entry)
    BY <1>6, <2>2, ExceptSeq
  <2>4. stored \in [Guard -> Seq(Entry)]
    BY <1>1, <2>1, <2>3 DEF TypeOK
  <2>5. \A h \in Guard :
           /\ DOMAIN stored[h] = DOMAIN entries[h]
           /\ \A j \in DOMAIN entries[h] :
                 stored[h][j] = IF h = g /\ j = task.id THEN x ELSE entries[h][j]
    BY <1>1, <1>2, <2>1 DEF TypeOK
  <2> QED BY <1>6, <2>4, <2>5 DEF PartyInv, EntriesParty
<1>8. PICK req \in e.request :
         \/ entries' = stored /\ Release(g) /\ UNCHANGED <<net, awaiting, posts>>
         \/ /\ \E i \in GetSign(g, e.msg, FALSE) :
                  /\ entries' = [stored EXCEPT ![g][i].posted = TRUE]
                  /\ Posting(g, i, req, ApprovedGuards(g, req, sigs))
            /\ Send([type |-> "start", from |-> g,
                     to |-> ApprovedGuards(g, req, sigs) \ {g},
                     req |-> req, sigs |-> sigs])
  BY DEF HandleApprove
<1>9. req.init = g /\ g \in req.guards /\ [by |-> g, req |-> req] \in sigs
  BY <1>3, <1>5 DEF EntryParty
<1>10. UpdParty' /\ PendingParty'
  BY <1>1 DEF PartyInv, UpdParty, PendingParty
<1>11. CASE entries' = stored /\ Release(g) /\ UNCHANGED <<net, awaiting, posts>>
  <2>1. LockParty'
    BY <1>1, <1>11, ReleaseTasks, LockKeepsParty DEF PartyInv
  <2>2. EntriesParty'
    <3> HIDE DEF stored
    <3> QED BY <1>7, <1>11 DEF EntriesParty, EntryParty
  <2> QED BY <1>10, <1>11, <2>1, <2>2 DEF PartyInv, NetParty, MsgParty, StarterIsPeer
<1>12. ASSUME NEW i \in GetSign(g, e.msg, FALSE),
              entries' = [stored EXCEPT ![g][i].posted = TRUE],
              Posting(g, i, req, ApprovedGuards(g, req, sigs)),
              Send([type |-> "start", from |-> g,
                    to |-> ApprovedGuards(g, req, sigs) \ {g},
                    req |-> req, sigs |-> sigs])
       PROVE  PartyInv'
  <2>1. i \in DOMAIN entries[g] /\ i \in Nat \ {0}
    BY <1>1 DEF GetSign, SignIn, TypeOK
  <2>2. EntriesParty'
    <3> DEFINE y == [stored[g][i] EXCEPT !.posted = TRUE]
    <3>1. stored[g][i] \in Entry
      <4> HIDE DEF stored
      <4> QED BY <1>7, <2>1
    <3>2. entries' = [stored EXCEPT ![g] = [@ EXCEPT ![i] = y]]
      <4>1. entries' = [stored EXCEPT ![g][i].posted = TRUE]
        BY <1>12
      <4> HIDE DEF stored
      <4> QED BY <1>7, <2>1, <4>1
    <3> HIDE DEF stored
    <3>3. y.request = stored[g][i].request /\ y.sigs = stored[g][i].sigs
      BY <3>1 DEF Entry
    <3>4. EntryParty(g, y)
      <4> HIDE DEF y
      <4> QED BY <1>7, <2>1, <3>3 DEF EntryParty
    <3> HIDE DEF y
    <3>5. \A h \in Guard :
             /\ DOMAIN entries'[h] = DOMAIN stored[h]
             /\ \A j \in DOMAIN stored[h] :
                   entries'[h][j] = IF h = g /\ j = i THEN y ELSE stored[h][j]
      BY <1>7, <2>1, <3>2
    <3>6. \A h \in Guard : \A j \in DOMAIN entries'[h] : EntryParty(h, entries'[h][j])
      BY <1>7, <3>4, <3>5
    <3> QED BY <3>6 DEF EntriesParty, EntryParty
  <2> DEFINE peers == ApprovedGuards(g, req, sigs)
             m == [type |-> "start", from |-> g, to |-> peers \ {g}, req |-> req, sigs |-> sigs]
             p == [by |-> g, req |-> req, peers |-> peers]
  <2>3. g \in peers /\ \A h \in peers : h \in req.guards /\ [by |-> h, req |-> req] \in sigs
    BY <1>9 DEF ApprovedGuards
  <2>4. MsgParty(m)
    <3> HIDE DEF peers, sigs
    <3> QED BY <1>9, <2>3 DEF MsgParty
  <2>5. net' = net \cup {m}
    BY <1>12 DEF Send
  <2>6. NetParty'
    <3> HIDE DEF m
    <3> QED BY <2>4, <2>5 DEF PartyInv, NetParty, MsgParty
  <2>7. StarterIsPeer'
    <3>1. posts' = posts \cup {p}
      BY <1>12 DEF Posting
    <3> HIDE DEF peers
    <3>2. p.by = g /\ p.peers = peers
      OBVIOUS
    <3> HIDE DEF p
    <3> QED BY <2>3, <3>1, <3>2 DEF PartyInv, StarterIsPeer
  <2>8. LockParty'
    <3>1. PICK t \in Task : t.kind = "posting" /\ OnlyNewTask(g, t)
      BY <1>1, <1>12, <2>1, PostingTasks
    <3> QED BY <3>1, LockStaysParty DEF PartyInv, TaskParty
  <2> QED BY <1>10, <2>2, <2>6, <2>7, <2>8 DEF PartyInv
<1> QED BY <1>8, <1>11, <1>12

LEMMA PartyRestart ==
    ASSUME TypeInv, PartyInv, NEW g \in Guard, Restart(g)
    PROVE  PartyInv'
<1>1. UNCHANGED <<net, posts>>
  BY DEF Restart
<1>2. /\ DOMAIN entries'[g] = {} /\ Len(lock'[g]) = 0
      /\ upd'[g] = Idle /\ pending'[g] = {}
      /\ \A h \in Guard \ {g} : /\ entries'[h] = entries[h] /\ lock'[h] = lock[h]
                                /\ upd'[h] = upd[h] /\ pending'[h] = pending[h]
  BY DEF Restart, TypeInv, TypeOK
<1>3. NoNewTask
  BY <1>2 DEF NoNewTask
<1>4. PartiesKept
  BY <1>2 DEF PartiesKept
<1>5. UpdParty' /\ PendingParty'
  BY <1>2, IdleType DEF PartyInv, UpdParty, PendingParty
<1> QED BY <1>1, <1>3, <1>4, <1>5, LockKeepsParty, EntriesKeepParty
        DEF PartyInv, NetParty, MsgParty, StarterIsPeer

LEMMA PartyNext == ASSUME TypeInv, PartyInv, [Next]_vars PROVE PartyInv'
<1>1. CASE UNCHANGED vars
  BY <1>1, EntriesKeepParty DEF vars, PartyInv, PartiesKept, LockParty, TaskParty, UpdParty,
                                PendingParty, NetParty, MsgParty, StarterIsPeer
<1>2. CASE Tick
  <2>1. 0 \in Guard
    BY ConstantsAssumption DEF Guard
  <2> QED BY <1>2, <2>1, PartyQuietSteps
<1>3. ASSUME NEW g \in Guard, LocalStep(g) PROVE PartyInv'
  BY <1>3, PartyAddSign, PartyUpdate, PartyUpdateLoop, PartySetRequest,
     PartyHandleApprove, PartyHandleStart, PartySettled, PartyQuietSteps DEF LocalStep
<1>4. ASSUME NEW g \in Guard, Event(g) PROVE PartyInv'
  <2>1. CASE OwnEvent(g) \/ \E m \in Msgs : ExpireCache(g, m)
    BY <2>1, PartyQuietSteps, PartyUpdate DEF OwnEvent
  <2>2. CASE \E m \in net : \/ ReceiveRequest(g, m) \/ RegisterAnswered(g, m)
                           \/ ReceiveApprove(g, m) \/ ReceiveStart(g, m)
                           \/ ReceiveCached(g, m)
    BY <2>2, PartyQuietSteps, PartyAnswers, PartyReceiveApprove, PartyReceiveStart
  <2>3. CASE (\E p \in awaiting[g] : ReceiveResult(g, p))
             \/ \E v \in verifying[g] : Verified(g, v)
    BY <2>3, PartySettled
  <2> QED BY <1>4, <2>1, <2>2, <2>3 DEF Event
<1> QED BY <1>1, <1>2, <1>3, <1>4, PartyQuietSteps, PartyRestart DEF Next

\* The coordinator and every guard that is told to start run the signing with themselves
\* among its peers, whichever approvals were stored, repeated or late.
THEOREM StarterCorrect == Spec => []StarterIsPeer
<1>1. Init => PartyInv
  BY PartyInit
<1>2. TypeInv /\ PartyInv /\ [Next]_vars => PartyInv'
  BY PartyNext
<1>3. PartyInv => StarterIsPeer
  BY DEF PartyInv
<1> QED BY <1>1, <1>2, <1>3, TypeCorrect, PTL DEF Spec

-----------------------------------------------------------------------------
(***************************************************************************)
(* A guard asks for approvals once per round                               *)
(***************************************************************************)

\* The request m was sent by a run of update() that read these guards at that time.
AskedWith(m, guards, ts) == m.req.guards = guards /\ m.req.ts = ts

Requests(g) == {m \in net : m.type = "request" /\ m.from = g}

\* A running update() is the only one of its round, and of the last round so far; the
\* requests of one round are those of one run.
RoundInv ==
    \A g \in Guard :
        /\ lastRound[g] <= Round(now)
        /\ upd[g].todo # {} => Round(upd[g].ts) = lastRound[g]
        /\ \A m \in Requests(g) :
              /\ m.req.init = g
              /\ Round(m.req.ts) <= lastRound[g]
              /\ upd[g].todo # {} /\ Round(m.req.ts) = lastRound[g] =>
                    AskedWith(m, upd[g].guards, upd[g].ts)
        /\ \A m, n \in Requests(g) :
              Round(m.req.ts) = Round(n.req.ts) => AskedWith(m, n.req.guards, n.req.ts)

LEMMA RoundGrows ==
    ASSUME NEW s \in Nat, NEW t \in Nat, s <= t
    PROVE  Round(s) <= Round(t) /\ Round(s) \in Nat /\ Round(t) \in Nat
<1>1. TurnDuration \in Nat \ {0}
  BY ConstantsAssumption
<1> QED BY <1>1 DEF Round

NoNewRequests == \A m \in net' : m \in net \/ m.type # "request"

\* A run of update() goes on with what it read, or ends.
RunsGoOn ==
    \A g \in Guard :
        \/ upd'[g].todo = {}
        \/ upd[g].todo # {} /\ upd'[g].guards = upd[g].guards /\ upd'[g].ts = upd[g].ts

LEMMA RoundKept ==
    ASSUME TypeOK, RoundInv, UNCHANGED lastRound, now' \in Nat, now <= now',
           NoNewRequests, RunsGoOn
    PROVE  RoundInv'
<1>1. Round(now) <= Round(now') /\ Round(now) \in Nat /\ Round(now') \in Nat
  BY RoundGrows DEF TypeOK
<1>2. \A g \in Guard : {m \in net' : m.type = "request" /\ m.from = g} \subseteq Requests(g)
  BY DEF NoNewRequests, Requests
<1>3. Round(now)' = Round(now')
  BY DEF Round
<1>4. \A g \in Guard : lastRound[g] \in Nat
  BY DEF TypeOK
<1>5. ASSUME NEW g \in Guard
      PROVE  /\ lastRound'[g] <= Round(now')
             /\ upd'[g].todo # {} => Round(upd'[g].ts) = lastRound'[g]
             /\ \A m \in Requests(g) :
                   /\ m.req.init = g
                   /\ Round(m.req.ts) <= lastRound'[g]
                   /\ upd'[g].todo # {} /\ Round(m.req.ts) = lastRound'[g] =>
                         AskedWith(m, upd'[g].guards, upd'[g].ts)
             /\ \A m, n \in Requests(g) :
                   Round(m.req.ts) = Round(n.req.ts) => AskedWith(m, n.req.guards, n.req.ts)
  BY <1>1, <1>4 DEF RoundInv, RunsGoOn
<1> QED BY <1>2, <1>3, <1>5 DEF RoundInv, Requests, AskedWith, Round

LEMMA RoundUpdateStart ==
    ASSUME TypeInv, RoundInv, NEW g \in Guard, UpdateStart(g)
    PROVE  RoundInv'
<1>1. TypeOK /\ upd[g] \in Update /\ UNCHANGED <<now, net>> /\ now \in Nat
  BY DEF TypeInv, TypeOK, UpdateStart
<1>2. CASE upd' = [upd EXCEPT ![g] = Idle] /\ UNCHANGED lastRound
  <2>1. RunsGoOn
    BY <1>1, <1>2, IdleType DEF TypeOK, RunsGoOn
  <2> QED BY <1>1, <1>2, <2>1, RoundKept DEF NoNewRequests
<1>3. ASSUME NEW active, NewRound(g), lastRound' = [lastRound EXCEPT ![g] = Round(now)],
             upd' = [upd EXCEPT ![g] =
                       [pc |-> "loop", guards |-> active, ts |-> now,
                        todo |-> Firsts(signs[g], SignPerRound)]]
      PROVE  RoundInv'
  <2>1. PICK u : u.ts = now /\ u.guards = active /\ upd' = [upd EXCEPT ![g] = u]
    BY <1>3
  <2>2. PICK r \in Nat : r = Round(now)
    BY <1>1, RoundGrows
  <2>3. lastRound[g] \in Nat /\ lastRound[g] < r
    BY <1>1, <1>3, <2>2 DEF TypeOK, RoundInv, NewRound
  <2>4. /\ lastRound'[g] = r /\ upd'[g].ts = now
        /\ \A h \in Guard : h # g => lastRound'[h] = lastRound[h] /\ upd'[h] = upd[h]
    BY <1>1, <1>3, <2>1, <2>2 DEF TypeOK
  <2>5. \A m \in Requests(g) : Round(m.req.ts) < r
    <3>1. ASSUME NEW m \in Requests(g)
          PROVE  Round(m.req.ts) \in Nat
      <4>1. m.req \in Request
        BY <1>1 DEF Requests, TypeOK, Message
      <4> QED BY <4>1, RoundGrows DEF Request
    <3> QED BY <2>3, <3>1 DEF RoundInv
  <2>6. \A h \in Guard : Requests(h)' = Requests(h)
    BY <1>1 DEF Requests
  <2>7. \A t : Round(t)' = Round(t')
    BY DEF Round
  <2>8. ASSUME NEW h \in Guard
        PROVE  /\ lastRound'[h] <= Round(now)
               /\ upd'[h].todo # {} => Round(upd'[h].ts) = lastRound'[h]
               /\ \A m \in Requests(h) :
                     /\ m.req.init = h
                     /\ Round(m.req.ts) <= lastRound'[h]
                     /\ upd'[h].todo # {} /\ Round(m.req.ts) = lastRound'[h] =>
                           AskedWith(m, upd'[h].guards, upd'[h].ts)
               /\ \A m, n \in Requests(h) :
                     Round(m.req.ts) = Round(n.req.ts) => AskedWith(m, n.req.guards, n.req.ts)
    <3>1. CASE h = g
      <4>1. \A m \in Requests(h) : Round(m.req.ts) <= r /\ Round(m.req.ts) # r
        <5>1. ASSUME NEW m \in Requests(h)
              PROVE  Round(m.req.ts) \in Nat
          <6>1. m.req \in Request
            BY <1>1 DEF Requests, TypeOK, Message
          <6> QED BY <6>1, RoundGrows DEF Request
        <5> QED BY <2>5, <3>1, <5>1
      <4>2. r <= r
        OBVIOUS
      <4> QED BY <2>2, <2>4, <3>1, <4>1, <4>2 DEF RoundInv
    <3>2. CASE h # g
      BY <2>4, <3>2 DEF RoundInv
    <3> QED BY <3>1, <3>2
  <2> QED BY <1>1, <2>6, <2>8 DEF RoundInv, AskedWith, Round, Requests
<1> QED BY <1>2, <1>3 DEF UpdateStart

LEMMA RoundUpdateLoop ==
    ASSUME TypeInv, RoundInv, NEW g \in Guard, UpdateLoop(g)
    PROVE  RoundInv'
<1>1. TypeOK /\ upd[g] \in Update /\ UNCHANGED <<now, lastRound>> /\ now \in Nat /\ now <= now
  BY DEF TypeInv, TypeOK, UpdateLoop
<1>2. PICK u : /\ upd' = [upd EXCEPT ![g] = u]
               /\ \/ u.todo = {}
                  \/ /\ u.todo \subseteq upd[g].todo
                     /\ u.guards = upd[g].guards /\ u.ts = upd[g].ts
  <2>1. CASE upd' = [upd EXCEPT ![g] = Idle]
    BY <2>1, IdleType
  <2>2. ASSUME NEW i, NEW pc, upd' = [upd EXCEPT ![g].pc = pc, ![g].todo = @ \ {i}]
        PROVE  \E u : /\ upd' = [upd EXCEPT ![g] = u] /\ u.todo \subseteq upd[g].todo
                      /\ u.guards = upd[g].guards /\ u.ts = upd[g].ts
    <3> DEFINE u == [upd[g] EXCEPT !.pc = pc, !.todo = @ \ {i}]
    <3>1. u.todo \subseteq upd[g].todo /\ u.guards = upd[g].guards /\ u.ts = upd[g].ts
      BY <1>1 DEF Update
    <3>2. upd' = [upd EXCEPT ![g] = u]
      BY <1>1, <2>2 DEF TypeOK
    <3> HIDE DEF u
    <3> QED BY <3>1, <3>2
  <2>3. ASSUME NEW i, upd' = [upd EXCEPT ![g].todo = @ \ {i}]
        PROVE  \E u : /\ upd' = [upd EXCEPT ![g] = u] /\ u.todo \subseteq upd[g].todo
                      /\ u.guards = upd[g].guards /\ u.ts = upd[g].ts
    <3> DEFINE u == [upd[g] EXCEPT !.todo = @ \ {i}]
    <3>1. u.todo \subseteq upd[g].todo /\ u.guards = upd[g].guards /\ u.ts = upd[g].ts
      BY <1>1 DEF Update
    <3>2. upd' = [upd EXCEPT ![g] = u]
      BY <1>1, <2>3 DEF TypeOK
    <3> HIDE DEF u
    <3> QED BY <3>1, <3>2
  <2> QED BY <2>1, <2>2, <2>3 DEF UpdateLoop
<1>3. RunsGoOn
  BY <1>1, <1>2 DEF TypeOK, RunsGoOn
<1>4. CASE UNCHANGED net
  BY <1>1, <1>3, <1>4, RoundKept DEF NoNewRequests
<1>5. ASSUME NEW i \in upd[g].todo,
             Send([type |-> "request", from |-> g, to |-> Guard \ {g},
                   req |-> RequestOf(g, i, upd[g].guards, upd[g].ts), sigs |-> {}])
      PROVE  RoundInv'
  <2> DEFINE c == [type |-> "request", from |-> g, to |-> Guard \ {g},
                   req |-> RequestOf(g, i, upd[g].guards, upd[g].ts), sigs |-> {}]
  <2>1. /\ c.from = g /\ c.req.init = g /\ c.req.guards = upd[g].guards
        /\ c.req.ts = upd[g].ts
    BY DEF RequestOf
  <2>2. net' = net \cup {c}
    BY <1>5 DEF Send
  <2> HIDE DEF c
  <2>3. \A h \in Guard : \A m \in Requests(h)' : m \in Requests(h) \/ (h = g /\ m = c)
    BY <2>1, <2>2 DEF Requests
  <2>4. /\ Round(c.req.ts) = lastRound[g]
        /\ \A m \in Requests(g) : Round(m.req.ts) = lastRound[g] =>
              AskedWith(m, c.req.guards, c.req.ts)
    BY <1>5, <2>1 DEF RoundInv
  <2>5. \A h \in Guard : \A m, n \in Requests(h)' :
           Round(m.req.ts) = Round(n.req.ts) => AskedWith(m, n.req.guards, n.req.ts)
    BY <2>3, <2>4 DEF RoundInv, AskedWith
  <2>6. /\ lastRound[g] \in Nat
        /\ \A h \in Guard : h # g => upd'[h] = upd[h]
        /\ \/ upd'[g].todo = {}
           \/ /\ upd'[g].todo # {} /\ upd[g].todo # {}
              /\ upd'[g].guards = upd[g].guards /\ upd'[g].ts = upd[g].ts
    BY <1>1, <1>2 DEF TypeOK
  <2>7. ASSUME NEW h \in Guard
        PROVE  /\ lastRound[h] <= Round(now)
               /\ upd'[h].todo # {} => Round(upd'[h].ts) = lastRound[h]
               /\ \A m \in Requests(h)' :
                     /\ m.req.init = h
                     /\ Round(m.req.ts) <= lastRound[h]
                     /\ upd'[h].todo # {} /\ Round(m.req.ts) = lastRound[h] =>
                           AskedWith(m, upd'[h].guards, upd'[h].ts)
    <3>1. CASE h # g
      BY <2>3, <2>6, <3>1 DEF RoundInv
    <3>2. CASE h = g
      BY <2>1, <2>3, <2>4, <2>6, <3>2 DEF RoundInv, AskedWith
    <3> QED BY <3>1, <3>2
  <2> QED BY <1>1, <2>5, <2>7 DEF RoundInv, AskedWith, Round, Requests
<1> QED BY <1>4, <1>5 DEF UpdateLoop

\* The mark of update() moves on; what it read stays.
LEMMA MarkMoves ==
    ASSUME TypeOK, NEW g \in Guard, NEW pc,
           upd' = [upd EXCEPT ![g].pc = pc] \/ upd' = [upd EXCEPT ![g] = Idle]
    PROVE  RunsGoOn
<1>1. CASE upd' = [upd EXCEPT ![g] = Idle]
  BY <1>1, IdleType DEF TypeOK, RunsGoOn
<1>2. CASE upd' = [upd EXCEPT ![g].pc = pc]
  <2>1. upd[g] \in Update
    BY DEF TypeOK
  <2> DEFINE u == [upd[g] EXCEPT !.pc = pc]
  <2>2. u.todo = upd[g].todo /\ u.guards = upd[g].guards /\ u.ts = upd[g].ts
    BY <2>1 DEF Update
  <2>3. upd' = [upd EXCEPT ![g] = u]
    BY <1>2, <2>1 DEF TypeOK
  <2> HIDE DEF u
  <2> QED BY <2>2, <2>3 DEF TypeOK, RunsGoOn
<1> QED BY <1>1, <1>2

LEMMA AnswersAskNothing ==
    ASSUME NEW g, NEW req, NEW q, AnswerRequest(g, req, q)
    PROVE  NoNewRequests
<1>1. CASE UNCHANGED net
  BY <1>1 DEF NoNewRequests
<1>2. ASSUME NEW m, Send(m), m.type # "request" PROVE NoNewRequests
  BY <1>2 DEF Send, NoNewRequests
<1>3. CASE Send([type |-> "cached", from |-> g, to |-> {req.init}, req |-> req,
                 sigs |-> {}])
  BY <1>2, <1>3
<1>4. CASE Send([type |-> "approve", from |-> g, to |-> {req.init}, req |-> req,
                 sigs |-> {[by |-> g, req |-> req]}])
  BY <1>2, <1>4
<1> QED BY <1>1, <1>3, <1>4 DEF AnswerRequest, SendCached, Approve, KeepPending

LEMMA RoundLocal ==
    ASSUME TypeInv, RoundInv, NEW g \in Guard, LocalStep(g)
    PROVE  RoundInv'
<1>1. TypeOK /\ now \in Nat /\ now <= now
  BY DEF TypeInv, TypeOK
<1>2. ASSUME UNCHANGED <<now, lastRound>>, NoNewRequests, RunsGoOn
      PROVE  RoundInv'
  BY <1>1, <1>2, RoundKept
<1>3. (UNCHANGED upd => RunsGoOn) /\ (UNCHANGED net => NoNewRequests)
  BY DEF RunsGoOn, NoNewRequests
<1>4. CASE AddSign(g)
  <2>1. UNCHANGED <<now, lastRound, upd>>
    BY <1>4 DEF AddSign
  <2>2. UNCHANGED net \/ \E p, q : AnswerRequest(g, p, q)
    BY <1>4 DEF AddSign
  <2> QED BY <1>2, <1>3, <2>1, <2>2, AnswersAskNothing
<1>5. CASE Cleanup(g) \/ UpdateTurn(g) \/ SetRequest(g)
  <2>1. UNCHANGED <<now, lastRound, net>>
    BY <1>5 DEF Cleanup, UpdateTurn, SetRequest
  <2>2. \E pc : upd' = [upd EXCEPT ![g].pc = pc] \/ upd' = [upd EXCEPT ![g] = Idle]
    BY <1>5 DEF Cleanup, UpdateTurn, SetRequest
  <2> QED BY <1>1, <1>2, <1>3, <2>1, <2>2, MarkMoves
<1>6. CASE HandleApprove(g)
  <2>1. UNCHANGED <<now, lastRound, upd>>
    BY <1>6 DEF HandleApprove
  <2>2. UNCHANGED net \/ \E m : m.type = "start" /\ Send(m)
    BY <1>6 DEF HandleApprove
  <2>3. (\E m : m.type = "start" /\ Send(m)) => NoNewRequests
    BY DEF Send, NoNewRequests
  <2> QED BY <1>2, <1>3, <2>1, <2>2, <2>3
<1>7. CASE HandleStart(g) \/ PostFailed(g) \/ RemoveSign(g)
  <2>1. UNCHANGED <<now, lastRound, upd, net>>
    BY <1>7 DEF HandleStart, PostFailed, RemoveSign
  <2> QED BY <1>2, <1>3, <2>1
<1> QED BY <1>4, <1>5, <1>6, <1>7, RoundUpdateLoop DEF LocalStep

LEMMA RoundEvent ==
    ASSUME TypeInv, RoundInv, NEW g \in Guard, Event(g)
    PROVE  RoundInv'
<1>1. TypeOK /\ now \in Nat /\ now <= now
  BY DEF TypeInv, TypeOK
<1>2. ASSUME UNCHANGED <<now, lastRound>>, NoNewRequests, RunsGoOn
      PROVE  RoundInv'
  BY <1>1, <1>2, RoundKept
<1>3. (UNCHANGED upd => RunsGoOn) /\ (UNCHANGED net => NoNewRequests)
  BY DEF RunsGoOn, NoNewRequests
<1>4. CASE UpdateBegin(g)
  <2>1. UNCHANGED <<now, lastRound, net>> /\ upd' = [upd EXCEPT ![g].pc = "cleanup"]
    BY <1>4 DEF UpdateBegin
  <2> QED BY <1>1, <1>2, <1>3, <2>1, MarkMoves
<1>5. ASSUME NEW m \in net, ReceiveRequest(g, m) \/ RegisterAnswered(g, m)
      PROVE  RoundInv'
  <2>1. UNCHANGED <<now, lastRound, upd>> /\ \E q : AnswerRequest(g, m.req, q)
    BY <1>5 DEF ReceiveRequest, RegisterAnswered
  <2> QED BY <1>2, <1>3, <2>1, AnswersAskNothing
<1>6. \/ PostAnswered(g)
      \/ \E m \in Msgs : ExpireCache(g, m)
      \/ \E m \in net : ReceiveApprove(g, m) \/ ReceiveStart(g, m) \/ ReceiveCached(g, m)
      \/ \E p \in awaiting[g] : ReceiveResult(g, p)
      \/ \E v \in verifying[g] : Verified(g, v)
      => UNCHANGED <<now, lastRound, upd, net>>
  BY DEF PostAnswered, ExpireCache, ReceiveApprove, ReceiveStart, ReceiveCached,
         ReceiveResult, Verified
<1> QED BY <1>2, <1>3, <1>4, <1>5, <1>6, RoundUpdateStart DEF Event, OwnEvent

LEMMA RoundNext ==
    ASSUME MaxRestarts = 0, TypeInv, RoundInv, [Next]_vars
    PROVE  RoundInv'
<1>1. TypeOK /\ now \in Nat /\ now <= now /\ now <= now + 1
  BY DEF TypeInv, TypeOK
<1>2. CASE UNCHANGED vars \/ Tick \/ \E g \in Guard, m \in Msgs : Sign(g, m)
  <2>1. UNCHANGED <<lastRound, upd, net>> /\ now' \in Nat /\ now <= now'
    <3>1. CASE UNCHANGED vars
      BY <1>1, <3>1 DEF vars
    <3>2. CASE Tick
      <4>1. UNCHANGED <<lastRound, upd, net>> /\ now' = now + 1
        BY <3>2 DEF Tick
      <4> QED BY <1>1, <4>1
    <3>3. ASSUME NEW g \in Guard, NEW m \in Msgs, Sign(g, m)
          PROVE  UNCHANGED <<lastRound, upd, net>> /\ now' \in Nat /\ now <= now'
      <4>1. UNCHANGED <<lastRound, upd, net, now>>
        BY <3>3 DEF Sign
      <4> QED BY <1>1, <4>1
    <3> QED BY <1>2, <3>1, <3>2, <3>3
  <2>2. RunsGoOn /\ NoNewRequests
    BY <2>1 DEF RunsGoOn, NoNewRequests
  <2> QED BY <1>1, <2>1, <2>2, RoundKept
<1>3. \A g \in Guard : ~Restart(g)
  BY <1>1 DEF TypeOK, Restart
<1> QED BY <1>2, <1>3, RoundLocal, RoundEvent DEF Next

\* Until it is restarted, a guard's requests of one round for one message are one request:
\* only one run of update() gets past the comparison with lastUpdateRound.
THEOREM OneRequestCorrect == ASSUME MaxRestarts = 0 PROVE Spec => []OneRequestPerRound
<1>1. Init => RoundInv
  <2>1. ASSUME Init
        PROVE  0 <= Round(now) /\ Idle.todo = {} /\ net = {}
    <3>1. now \in Nat /\ TurnDuration \in Nat \ {0}
      BY <2>1, ConstantsAssumption DEF Init
    <3>2. Round(now) \in Nat
      BY <3>1, TurnIsGuard
    <3> QED BY <2>1, <3>2, IdleType DEF Init
  <2> QED BY <2>1 DEF Init, RoundInv, Requests
<1>2. TypeInv /\ RoundInv /\ [Next]_vars => RoundInv'
  BY RoundNext
<1>3. TypeInv /\ RoundInv => OneRequestPerRound
  <2>1. SUFFICES ASSUME TypeInv, RoundInv, NEW m \in net, NEW n \in net,
                        m.type = "request", n.type = "request", m.from = n.from,
                        m.req.msg = n.req.msg, Round(m.req.ts) = Round(n.req.ts)
                 PROVE  m.req = n.req
    BY DEF OneRequestPerRound
  <2>2. m.from \in Guard /\ m.req \in Request /\ n.req \in Request
    BY <2>1 DEF TypeInv, TypeOK, Message
  <2>3. m.req.init = n.req.init /\ AskedWith(m, n.req.guards, n.req.ts)
    BY <2>1, <2>2 DEF RoundInv, Requests
  <2> QED BY <2>1, <2>2, <2>3 DEF Request, AskedWith
<1> QED BY <1>1, <1>2, <1>3, TypeCorrect, PTL DEF Spec
================================================================================
