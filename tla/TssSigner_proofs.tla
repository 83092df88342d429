--------------------------- MODULE TssSigner_proofs ---------------------------
(***************************************************************************)
(* Proofs about TssSigner, for any number of guards, messages, versions    *)
(* and any bounds.                                                         *)
(***************************************************************************)
EXTENDS TssSigner, SequenceTheorems, TLAPS

(***************************************************************************)
(* The inductive invariant.  An index that a task, the running update or a *)
(* verification keeps across an await still denotes an entry (RefsOK), and *)
(* every signature held anywhere was made by its guard (SigsIssued): in an *)
(* entry, in a message, in a waiting approval; the peers of a waiting      *)
(* start are counted from such signatures.                                 *)
(***************************************************************************)
WithId == {"fail", "posting", "request", "approve"}

TaskRefs(g, t) == t.kind \in WithId => t.id \in DOMAIN entries[g]

LockRefs == \A g \in Guard : \A k \in 1 .. Len(lock[g]) : TaskRefs(g, lock[g][k])

RefsOK ==
    /\ LockRefs
    /\ \A g \in Guard :
          /\ upd[g].todo \subseteq DOMAIN entries[g]
          /\ \A v \in verifying[g] : v.id \in DOMAIN entries[g]

TypeInv == TypeOK /\ RefsOK

-----------------------------------------------------------------------------
(***************************************************************************)
(* Lemmas about the operators of the model                                 *)
(***************************************************************************)

\* The turn is always the turn of some guard.
LEMMA TurnIsGuard == ASSUME NEW t \in Nat PROVE GuardTurn(t) \in Guard /\ Round(t) \in Nat
<1>1. N \in Nat \ {0} /\ TurnDuration \in Nat \ {0}
  BY ConstantsAssumption
<1>2. t \div TurnDuration \in Nat
  BY <1>1
<1>3. \A r \in Nat : r % N \in 0 .. N - 1
  BY <1>1
<1> QED BY <1>2, <1>3 DEF GuardTurn, Round, Guard

\* What getSign finds is in the queue, has the message, and is not posted
\* unless posted entries are searched.
LEMMA SignInFacts ==
    ASSUME NEW es, NEW ids, NEW m, NEW b, NEW i \in SignIn(es, ids, m, b)
    PROVE  i \in ids /\ es[i].msg = m /\ (b \/ ~es[i].posted)
BY DEF SignIn

\* A task at the end of the queue.
LEMMA AppendTask ==
    ASSUME NEW s \in Seq(Task), NEW t \in Task
    PROVE  /\ Append(s, t) \in Seq(Task)
           /\ \A k \in 1 .. Len(Append(s, t)) :
                 \/ Append(s, t)[k] = t
                 \/ \E j \in 1 .. Len(s) : Append(s, t)[k] = s[j]
<1>1. Append(s, t) \in Seq(Task) /\ Len(Append(s, t)) = Len(s) + 1
      /\ (\A i \in 1 .. Len(s) : Append(s, t)[i] = s[i])
      /\ Append(s, t)[Len(s) + 1] = t
  BY AppendProperties
<1>2. Len(s) \in Nat
  BY LenProperties
<1> QED BY <1>1, <1>2

\* The holder leaves the queue.
LEMMA TailTask ==
    ASSUME NEW s \in Seq(Task), s # <<>>
    PROVE  /\ Head(s) \in Task /\ Head(s) = s[1] /\ 1 \in 1 .. Len(s)
           /\ Tail(s) \in Seq(Task)
           /\ \A k \in 1 .. Len(Tail(s)) : \E j \in 1 .. Len(s) : Tail(s)[k] = s[j]
<1>1. Head(s) \in Task /\ Tail(s) \in Seq(Task) /\ Len(Tail(s)) = Len(s) - 1
      /\ \A i \in 1 .. Len(Tail(s)) : Tail(s)[i] = s[i + 1]
  BY HeadTailProperties
<1>2. Len(s) \in Nat /\ Len(s) # 0
  BY LenProperties, EmptySeq
<1>3. Head(s) = s[1]
  OBVIOUS
<1> QED BY <1>1, <1>2, <1>3

\* The holder goes on with another task.
LEMMA ReplaceHead ==
    ASSUME NEW s \in Seq(Task), s # <<>>, NEW t \in Task
    PROVE  /\ <<t>> \o Tail(s) \in Seq(Task)
           /\ \A k \in 1 .. Len(<<t>> \o Tail(s)) :
                 \/ (<<t>> \o Tail(s))[k] = t
                 \/ \E j \in 1 .. Len(s) : (<<t>> \o Tail(s))[k] = s[j]
<1>1. <<t>> \in Seq(Task) /\ Len(<<t>>) = 1 /\ <<t>>[1] = t
  OBVIOUS
<1>2. Tail(s) \in Seq(Task)
      /\ \A k \in 1 .. Len(Tail(s)) : \E j \in 1 .. Len(s) : Tail(s)[k] = s[j]
  BY TailTask
<1>3. /\ <<t>> \o Tail(s) \in Seq(Task)
      /\ Len(<<t>> \o Tail(s)) = 1 + Len(Tail(s))
      /\ \A k \in 1 .. 1 + Len(Tail(s)) :
            (<<t>> \o Tail(s))[k] = IF k <= 1 THEN <<t>>[k] ELSE Tail(s)[k - 1]
  BY <1>1, <1>2, ConcatProperties
<1>4. Len(Tail(s)) \in Nat
  BY <1>2, LenProperties
<1> QED BY <1>1, <1>2, <1>3, <1>4

-----------------------------------------------------------------------------
(***************************************************************************)
(* Steps on the mutex queue and on the entries                             *)
(***************************************************************************)
Grows == \A g \in Guard : DOMAIN entries[g] \subseteq DOMAIN entries'[g]

LockOK == lock \in [Guard -> Seq(Task)] /\ LockRefs

\* A queue whose tasks were there before or refer to an entry stays well formed.
LEMMA LockStep ==
    ASSUME LockOK, Grows, NEW g \in Guard, NEW s \in Seq(Task),
           lock' = [lock EXCEPT ![g] = s], NEW t, TaskRefs(g, t)',
           \A k \in 1 .. Len(s) : \/ s[k] = t
                                  \/ \E j \in 1 .. Len(lock[g]) : s[k] = lock[g][j]
    PROVE  LockOK'
<1>1. lock' \in [Guard -> Seq(Task)]
  BY DEF LockOK
<1>2. ASSUME NEW h \in Guard, NEW k \in 1 .. Len(lock'[h])
      PROVE  TaskRefs(h, lock[h][k])'
  <2>1. CASE h = g
    <3>1. lock'[h] = s
      BY <2>1 DEF LockOK
    <3>2. CASE s[k] = t
      BY <2>1, <3>1, <3>2 DEF TaskRefs
    <3>3. CASE \E j \in 1 .. Len(lock[g]) : s[k] = lock[g][j]
      BY <2>1, <3>1, <3>3 DEF LockOK, LockRefs, TaskRefs, Grows
    <3> QED BY <3>1, <3>2, <3>3, <1>2
  <2>2. CASE h # g
    <3>1. lock'[h] = lock[h]
      BY <2>2 DEF LockOK
    <3> QED BY <3>1, <1>2 DEF LockOK, LockRefs, TaskRefs, Grows
  <2> QED BY <2>1, <2>2
<1> QED BY <1>1, <1>2 DEF LockOK, LockRefs

LEMMA LockAcquire ==
    ASSUME LockOK, Grows, NEW g \in Guard, NEW t \in Task, TaskRefs(g, t)',
           Acquire(g, t)
    PROVE  LockOK'
<1>1. lock[g] \in Seq(Task)
  BY DEF LockOK
<1>2. lock' = [lock EXCEPT ![g] = Append(lock[g], t)]
  BY DEF Acquire
<1> QED BY <1>1, <1>2, AppendTask, LockStep

LEMMA LockRelease ==
    ASSUME LockOK, Grows, NEW g \in Guard, lock[g] # <<>>, Release(g)
    PROVE  LockOK'
<1>1. lock[g] \in Seq(Task)
  BY DEF LockOK
<1>2. lock' = [lock EXCEPT ![g] = Tail(lock[g])]
  BY DEF Release
<1>3. TaskRefs(g, [kind |-> "add"])'
  BY DEF TaskRefs, WithId
<1> QED BY <1>1, <1>2, <1>3, TailTask, LockStep

\* The holder itself refers to an entry when its kind has an index.
LEMMA HeadRefs ==
    ASSUME LockOK, NEW g \in Guard, lock[g] # <<>>
    PROVE  Head(lock[g]) \in Task /\ TaskRefs(g, Head(lock[g]))
<1>1. lock[g] \in Seq(Task)
  BY DEF LockOK
<1> QED BY <1>1, TailTask DEF LockOK, LockRefs

\* Replacing one entry keeps the type and the indices of the entries.
LEMMA EntryUpdate ==
    ASSUME entries \in [Guard -> Seq(Entry)], NEW g \in Guard,
           NEW i \in DOMAIN entries[g], NEW e \in Entry,
           entries' = [entries EXCEPT ![g] = [@ EXCEPT ![i] = e]]
    PROVE  /\ entries' \in [Guard -> Seq(Entry)]
           /\ \A h \in Guard : DOMAIN entries'[h] = DOMAIN entries[h]
           /\ \A h \in Guard : \A j \in DOMAIN entries[h] :
                 entries'[h][j] = IF h = g /\ j = i THEN e ELSE entries[h][j]
           /\ Grows
<1>1. entries[g] \in Seq(Entry) /\ i \in 1 .. Len(entries[g])
  BY LenProperties
<1>2. [entries[g] EXCEPT ![i] = e] \in Seq(Entry)
  BY <1>1, ExceptSeq
<1> QED BY <1>2 DEF Grows

\* Replacing the progress of one update().
LEMMA UpdStep ==
    ASSUME upd \in [Guard -> Update], NEW g \in Guard, NEW u \in Update,
           upd' = [upd EXCEPT ![g] = u]
    PROVE  /\ upd' \in [Guard -> Update]
           /\ upd'[g] = u
           /\ \A h \in Guard : h # g => upd'[h] = upd[h]
OBVIOUS

LEMMA IdleType == Idle \in Update /\ Idle.todo = {}
BY DEF Idle, Update

-----------------------------------------------------------------------------
(***************************************************************************)
(* Type correctness                                                        *)
(***************************************************************************)
LEMMA TypeInit == ASSUME Init PROVE TypeInv
<1>1. TurnDuration \in Nat
  BY ConstantsAssumption
<1>2. <<>> \in Seq(Entry) /\ <<>> \in Seq(Task) /\ Len(<<>>) = 0
  OBVIOUS
<1>3. Idle \in Update /\ Idle.todo = {}
  BY DEF Idle, Update
<1>4. TypeOK
  BY <1>1, <1>2, <1>3 DEF Init, TypeOK
<1>5. RefsOK
  BY <1>2, <1>3 DEF Init, RefsOK, LockRefs
<1> QED BY <1>4, <1>5 DEF TypeInv

\* Messages and approvals made by handleRequestMessage.
LEMMA AnswerTypes ==
    ASSUME TypeOK, NEW g \in Guard, NEW req \in Request, NEW q,
           AnswerRequest(g, req, q)
    PROVE  /\ net' \subseteq Message
           /\ approvals' \subseteq Approval
           /\ approvals \subseteq approvals'
           /\ pending' \in [Guard -> SUBSET Request]
<1>1. req.init \in Guard
  BY DEF Request
<1>2. [type |-> "cached", from |-> g, to |-> {req.init}, req |-> req,
       sigs |-> {}] \in Message
  BY <1>1 DEF Message
<1>3. [by |-> g, req |-> req] \in Approval
  BY DEF Approval
<1>4. [type |-> "approve", from |-> g, to |-> {req.init}, req |-> req,
       sigs |-> {[by |-> g, req |-> req]}] \in Message
  BY <1>1, <1>3 DEF Message
<1>5. CASE UNCHANGED <<approvals, pending>>
  BY <1>2, <1>3, <1>4, <1>5 DEF AnswerRequest, SendCached, Approve, KeepPending, TypeOK, Send
<1>6. CASE UNCHANGED pending
  BY <1>2, <1>3, <1>4, <1>6 DEF AnswerRequest, SendCached, Approve, KeepPending, TypeOK, Send
<1>7. CASE UNCHANGED <<net, approvals>>
           /\ pending' = [pending EXCEPT ![g] = (@ \ PendingOf(g, req.msg)) \cup {req}]
  BY <1>7 DEF TypeOK
<1> QED BY <1>5, <1>6, <1>7 DEF AnswerRequest, SendCached, Approve, KeepPending

LEMMA TypeSign ==
    ASSUME TypeInv, NEW g \in Guard, NEW m \in Msgs, Sign(g, m)
    PROVE  TypeInv'
<1>1. LockOK /\ Grows
  BY DEF TypeInv, TypeOK, RefsOK, LockOK, Grows, Sign
<1>2. [kind |-> "add", msg |-> m] \in Task
      /\ TaskRefs(g, [kind |-> "add", msg |-> m])'
  BY DEF Task, TaskRefs, WithId
<1>3. LockOK'
  <2>1. CASE UNCHANGED lock
    BY <1>1, <2>1 DEF LockOK, LockRefs, TaskRefs, Sign
  <2>2. CASE Acquire(g, [kind |-> "add", msg |-> m])
    BY <1>1, <1>2, <2>2, LockAcquire
  <2> QED BY <2>1, <2>2 DEF Sign
<1>4. asked' \in [Guard -> [Msgs -> Nat]]
  BY DEF TypeInv, TypeOK, Sign
<1> QED BY <1>3, <1>4 DEF TypeInv, TypeOK, RefsOK, LockOK, Sign

LEMMA TypeAddSign ==
    ASSUME TypeInv, NEW g \in Guard, AddSign(g)
    PROVE  TypeInv'
<1> DEFINE m == Head(lock[g]).msg
           e == [msg |-> m, addedTime |-> now, posted |-> FALSE,
                 request |-> {}, sigs |-> {}, answer |-> "none"]
           es == Append(entries[g], e)
<1>1. LockOK /\ lock[g] # <<>>
  BY DEF TypeInv, TypeOK, RefsOK, LockOK, AddSign, Holds
<1>2. m \in Msgs
  BY <1>1, HeadRefs DEF Task, AddSign, Holds
<1>3. e \in Entry
  BY <1>2 DEF Entry, TypeInv, TypeOK
<1>4. entries[g] \in Seq(Entry)
  BY DEF TypeInv, TypeOK
<1>5. es \in Seq(Entry) /\ Len(es) = Len(entries[g]) + 1
  BY <1>3, <1>4, AppendProperties
<1>6. /\ DOMAIN es = 1 .. Len(es)
      /\ DOMAIN entries[g] = 1 .. Len(entries[g])
      /\ Len(entries[g]) \in Nat
  BY <1>4, <1>5, LenProperties
<1>7. entries' = [entries EXCEPT ![g] = es]
  BY DEF AddSign
<1>8. entries' \in [Guard -> Seq(Entry)] /\ Grows
  BY <1>5, <1>6, <1>7 DEF TypeInv, TypeOK, Grows
<1>9. LockOK'
  BY <1>1, <1>8, LockRelease DEF AddSign
<1>10. signs' \in [Guard -> SUBSET (Nat \ {0})]
       /\ \A h \in Guard : signs'[h] \subseteq DOMAIN entries'[h]
  <2>1. signs' = [signs EXCEPT ![g] = signs[g] \cup {Len(es)}]
    BY DEF AddSign
  <2>2. Len(es) \in Nat \ {0} /\ Len(es) \in DOMAIN es
    BY <1>5, <1>6
  <2> QED BY <2>1, <2>2, <1>7, <1>8 DEF TypeInv, TypeOK, Grows
<1>11. /\ net' \subseteq Message
       /\ approvals' \subseteq Approval
       /\ pending' \in [Guard -> SUBSET Request]
  <2>1. CASE UNCHANGED <<net, approvals, pending>>
    BY <2>1 DEF TypeInv, TypeOK
  <2>2. ASSUME NEW p \in PendingOf(g, m), NEW q, AnswerRequest(g, p, q)
        PROVE  /\ net' \subseteq Message
               /\ approvals' \subseteq Approval
               /\ pending' \in [Guard -> SUBSET Request]
    <3>1. p \in Request
      BY <2>2 DEF PendingOf, TypeInv, TypeOK
    <3> QED BY <3>1, <2>2, AnswerTypes DEF TypeInv
  <2> QED BY <2>1, <2>2 DEF AddSign
<1> QED BY <1>8, <1>9, <1>10, <1>11
        DEF TypeInv, TypeOK, RefsOK, LockOK, AddSign, Grows

LEMMA TypeAnswers ==
    ASSUME TypeInv, NEW g \in Guard, NEW m \in net,
           ReceiveRequest(g, m) \/ RegisterAnswered(g, m)
    PROVE  TypeInv'
<1>1. PICK q : AnswerRequest(g, m.req, q)
  BY DEF ReceiveRequest, RegisterAnswered
<1>2. m.req \in Request
  BY DEF TypeInv, TypeOK, Message
<1>3. /\ net' \subseteq Message
      /\ approvals' \subseteq Approval
      /\ pending' \in [Guard -> SUBSET Request]
  BY <1>1, <1>2, AnswerTypes DEF TypeInv
<1>4. UNCHANGED <<now, entries, signs, lock, cache, verifying, threshold,
                  lastRound, upd, awaiting, posts, asked, restarts>>
  BY DEF ReceiveRequest, RegisterAnswered
<1> QED BY <1>3, <1>4 DEF TypeInv, TypeOK, RefsOK, LockRefs, TaskRefs

LEMMA TypeUpdateBegin ==
    ASSUME TypeInv, NEW g \in Guard, UpdateBegin(g)
    PROVE  TypeInv'
<1> DEFINE t == [kind |-> "cleanup", limit |-> now - Timeout, turn |-> GuardTurn(now)]
<1>1. LockOK /\ Grows
  BY DEF TypeInv, TypeOK, RefsOK, LockOK, Grows, UpdateBegin
<1>2. t \in Task /\ TaskRefs(g, t)'
  <2>1. now \in Nat /\ now - Timeout \in Int
    BY ConstantsAssumption DEF TypeInv, TypeOK
  <2>2. GuardTurn(now) \in Guard
    BY <2>1, TurnIsGuard
  <2> QED BY <2>1, <2>2 DEF Task, TaskRefs, WithId
<1>3. LockOK'
  BY <1>1, <1>2, LockAcquire DEF UpdateBegin
<1>4. upd' \in [Guard -> Update] /\ \A h \in Guard : upd'[h].todo = upd[h].todo
  <2>1. upd[g] \in Update /\ upd \in [Guard -> Update]
    BY DEF TypeInv, TypeOK
  <2>2. upd' = [upd EXCEPT ![g] = [upd[g] EXCEPT !.pc = "cleanup"]]
    BY <2>1 DEF UpdateBegin
  <2>3. /\ [upd[g] EXCEPT !.pc = "cleanup"] \in Update
        /\ [upd[g] EXCEPT !.pc = "cleanup"].todo = upd[g].todo
    BY <2>1 DEF Update
  <2> QED BY <2>1, <2>2, <2>3, UpdStep
<1> QED BY <1>3, <1>4 DEF TypeInv, TypeOK, RefsOK, LockOK, UpdateBegin

LEMMA TypeCleanup ==
    ASSUME TypeInv, NEW g \in Guard, Cleanup(g)
    PROVE  TypeInv'
<1>1. LockOK /\ Grows /\ lock[g] # <<>>
  BY DEF TypeInv, TypeOK, RefsOK, LockOK, Grows, Cleanup, Holds
<1>2. LockOK'
  BY <1>1, LockRelease DEF Cleanup
<1>3. upd' \in [Guard -> Update] /\ \A h \in Guard : upd'[h].todo = upd[h].todo
  <2>1. upd[g] \in Update /\ upd \in [Guard -> Update]
    BY DEF TypeInv, TypeOK
  <2>2. upd' = [upd EXCEPT ![g] = [upd[g] EXCEPT !.pc = "turn"]]
    BY <2>1 DEF Cleanup
  <2>3. /\ [upd[g] EXCEPT !.pc = "turn"] \in Update
        /\ [upd[g] EXCEPT !.pc = "turn"].todo = upd[g].todo
    BY <2>1 DEF Update
  <2> QED BY <2>1, <2>2, <2>3, UpdStep
<1>4. signs' \in [Guard -> SUBSET (Nat \ {0})]
      /\ \A h \in Guard : signs'[h] \subseteq signs[h]
  BY DEF Cleanup, TypeInv, TypeOK
<1>5. pending' \in [Guard -> SUBSET Request]
  BY DEF Cleanup, TypeInv, TypeOK
<1> QED BY <1>2, <1>3, <1>4, <1>5 DEF TypeInv, TypeOK, RefsOK, LockOK, Cleanup

LEMMA TypeUpdateTurn ==
    ASSUME TypeInv, NEW g \in Guard, UpdateTurn(g)
    PROVE  TypeInv'
<1>1. upd[g] \in Update /\ upd \in [Guard -> Update]
  BY DEF TypeInv, TypeOK
<1>2. PICK u \in Update : upd' = [upd EXCEPT ![g] = u] /\ u.todo \subseteq upd[g].todo
  <2>1. CASE upd' = [upd EXCEPT ![g] = Idle]
    BY <2>1, IdleType
  <2>2. CASE upd' = [upd EXCEPT ![g].pc = "start"]
    <3>1. upd' = [upd EXCEPT ![g] = [upd[g] EXCEPT !.pc = "start"]]
      BY <1>1, <2>2
    <3>2. /\ [upd[g] EXCEPT !.pc = "start"] \in Update
          /\ [upd[g] EXCEPT !.pc = "start"].todo = upd[g].todo
      BY <1>1 DEF Update
    <3> QED BY <3>1, <3>2
  <2> QED BY <2>1, <2>2 DEF UpdateTurn
<1>3. upd' \in [Guard -> Update] /\ \A h \in Guard : upd'[h].todo \subseteq upd[h].todo
  BY <1>1, <1>2, UpdStep
<1>4. threshold' \in [Guard -> {NoneYet, Threshold}]
  BY DEF UpdateTurn, TypeInv, TypeOK
<1> QED BY <1>3, <1>4 DEF TypeInv, TypeOK, RefsOK, LockRefs, TaskRefs, UpdateTurn

LEMMA TypeUpdateStart ==
    ASSUME TypeInv, NEW g \in Guard, UpdateStart(g)
    PROVE  TypeInv'
<1>1. Firsts(signs[g], SignPerRound) \subseteq DOMAIN entries[g]
      /\ Firsts(signs[g], SignPerRound) \in SUBSET (Nat \ {0})
  BY DEF Firsts, TypeInv, TypeOK
<1>2. PICK u \in Update : /\ upd' = [upd EXCEPT ![g] = u]
                          /\ u.todo \subseteq DOMAIN entries[g]
  <2>1. CASE upd' = [upd EXCEPT ![g] = Idle]
    BY <2>1, IdleType
  <2>2. ASSUME NEW active \in SUBSET Guard,
               upd' = [upd EXCEPT ![g] =
                         [pc |-> "loop", guards |-> active, ts |-> now,
                          todo |-> Firsts(signs[g], SignPerRound)]]
        PROVE  \E u \in Update : /\ upd' = [upd EXCEPT ![g] = u]
                                 /\ u.todo \subseteq DOMAIN entries[g]
    <3>1. [pc |-> "loop", guards |-> active, ts |-> now,
           todo |-> Firsts(signs[g], SignPerRound)] \in Update
      BY <1>1 DEF Update, TypeInv, TypeOK
    <3> QED BY <3>1, <2>2, <1>1
  <2> QED BY <2>1, <2>2 DEF UpdateStart
<1>3. /\ upd' \in [Guard -> Update]
      /\ \A h \in Guard : upd'[h].todo \subseteq DOMAIN entries[h]
  BY <1>2, UpdStep DEF TypeInv, TypeOK, RefsOK
<1>4. lastRound' \in [Guard -> Nat]
  <2>1. Round(now) \in Nat
    BY TurnIsGuard DEF TypeInv, TypeOK
  <2> QED BY <2>1 DEF UpdateStart, TypeInv, TypeOK
<1> QED BY <1>3, <1>4 DEF TypeInv, TypeOK, RefsOK, LockRefs, TaskRefs, UpdateStart

LEMMA TypeUpdateLoop ==
    ASSUME TypeInv, NEW g \in Guard, UpdateLoop(g)
    PROVE  TypeInv'
<1>1. LockOK /\ Grows
  BY DEF TypeInv, TypeOK, RefsOK, LockOK, Grows, UpdateLoop
<1>2. upd[g] \in Update /\ upd \in [Guard -> Update] /\ upd[g].todo \in SUBSET (Nat \ {0})
  BY DEF TypeInv, TypeOK, Update
<1>3. CASE UNCHANGED <<lock, net>>
           /\ \/ upd' = [upd EXCEPT ![g] = Idle]
              \/ \E i \in upd[g].todo : upd' = [upd EXCEPT ![g].todo = @ \ {i}]
  <2>1. PICK u \in Update : upd' = [upd EXCEPT ![g] = u] /\ u.todo \subseteq upd[g].todo
    <3>1. CASE upd' = [upd EXCEPT ![g] = Idle]
      BY <3>1, IdleType
    <3>2. ASSUME NEW i \in upd[g].todo, upd' = [upd EXCEPT ![g].todo = @ \ {i}]
          PROVE  \E u \in Update : /\ upd' = [upd EXCEPT ![g] = u]
                                   /\ u.todo \subseteq upd[g].todo
      <4>1. upd' = [upd EXCEPT ![g] = [upd[g] EXCEPT !.todo = upd[g].todo \ {i}]]
        BY <1>2, <3>2
      <4>2. upd[g].todo \ {i} \in SUBSET (Nat \ {0})
        BY <1>2
      <4>3. /\ [upd[g] EXCEPT !.todo = upd[g].todo \ {i}] \in Update
            /\ [upd[g] EXCEPT !.todo = upd[g].todo \ {i}].todo = upd[g].todo \ {i}
        BY <1>2, <4>2 DEF Update
      <4> QED BY <4>1, <4>3
    <3> QED BY <1>3, <3>1, <3>2
  <2>2. upd' \in [Guard -> Update] /\ \A h \in Guard : upd'[h].todo \subseteq upd[h].todo
    BY <1>2, <2>1, UpdStep
  <2> QED BY <1>3, <2>2 DEF TypeInv, TypeOK, RefsOK, LockRefs, TaskRefs, UpdateLoop
<1>4. ASSUME NEW i \in upd[g].todo,
             Send([type |-> "request", from |-> g, to |-> Guard \ {g},
                   req |-> RequestOf(g, i, upd[g].guards, upd[g].ts), sigs |-> {}]),
             Acquire(g, [kind |-> "request", id |-> i, guards |-> upd[g].guards,
                         ts |-> upd[g].ts]),
             upd' = [upd EXCEPT ![g].pc = "wait", ![g].todo = @ \ {i}]
      PROVE  TypeInv'
  <2> DEFINE req == RequestOf(g, i, upd[g].guards, upd[g].ts)
             t == [kind |-> "request", id |-> i, guards |-> upd[g].guards,
                   ts |-> upd[g].ts]
  <2>1. i \in Nat \ {0} /\ i \in DOMAIN entries[g]
    BY <1>2 DEF TypeInv, RefsOK
  <2>2. entries[g][i] \in Entry
    BY <2>1 DEF TypeInv, TypeOK
  <2>3. upd[g].guards \in SUBSET Guard /\ upd[g].ts \in Nat
    BY <1>2 DEF Update
  <2>4. req \in Request
    BY <2>2, <2>3 DEF RequestOf, Request, Entry
  <2>5. t \in Task /\ t.id = i
    BY <2>1, <2>3 DEF Task
  <2>6. PICK task \in Task : Acquire(g, task) /\ task.id = i
    BY <1>4, <2>5
  <2>7. LockOK'
    <3>1. TaskRefs(g, task)'
      BY <2>1, <2>6 DEF TaskRefs, UpdateLoop
    <3> QED BY <3>1, <1>1, <2>6, LockAcquire
  <2>8. net' \subseteq Message
    BY <1>4, <2>4 DEF Send, TypeInv, TypeOK, Message
  <2>9. upd' \in [Guard -> Update] /\ \A h \in Guard : upd'[h].todo \subseteq upd[h].todo
    <3>1. upd' = [upd EXCEPT ![g] = [upd[g] EXCEPT !.pc = "wait",
                                                   !.todo = upd[g].todo \ {i}]]
      BY <1>2, <1>4
    <3>2. upd[g].todo \ {i} \in SUBSET (Nat \ {0})
      BY <1>2
    <3> DEFINE u == [upd[g] EXCEPT !.pc = "wait", !.todo = upd[g].todo \ {i}]
    <3>3. u \in Update /\ u.todo = upd[g].todo \ {i}
      BY <1>2, <3>2 DEF Update
    <3>4. upd' = [upd EXCEPT ![g] = u]
      BY <3>1
    <3> HIDE DEF u
    <3> QED BY <1>2, <3>3, <3>4, UpdStep
  <2> QED BY <2>7, <2>8, <2>9 DEF TypeInv, TypeOK, RefsOK, LockOK, UpdateLoop
<1> QED BY <1>3, <1>4 DEF UpdateLoop

LEMMA TypeSetRequest ==
    ASSUME TypeInv, NEW g \in Guard, SetRequest(g)
    PROVE  TypeInv'
<1> DEFINE task == Head(lock[g])
           req == RequestOf(g, task.id, task.guards, task.ts)
           own == [by |-> g, req |-> req]
           e == [entries[g][task.id] EXCEPT !.request = {req}, !.sigs = {own}]
<1>1. LockOK /\ lock[g] # <<>> /\ task.kind = "request"
  BY DEF TypeInv, TypeOK, RefsOK, LockOK, SetRequest, Holds
<1>2. /\ task.id \in DOMAIN entries[g]
      /\ task.guards \in SUBSET Guard /\ task.ts \in Nat
  BY <1>1, HeadRefs DEF Task, TaskRefs, WithId
<1>3. entries[g][task.id] \in Entry
  BY <1>2 DEF TypeInv, TypeOK
<1>4. req \in Request
  BY <1>2, <1>3 DEF RequestOf, Request, Entry
<1>5. own \in Approval
  BY <1>4 DEF Approval
<1>6. e \in Entry
  BY <1>3, <1>4, <1>5 DEF Entry
<1>7. entries' = [entries EXCEPT ![g] = [@ EXCEPT ![task.id] = e]]
      /\ approvals' = approvals \cup {own}
  BY <1>2 DEF SetRequest, TypeInv, TypeOK
<1>8. /\ entries' \in [Guard -> Seq(Entry)]
      /\ \A h \in Guard : DOMAIN entries'[h] = DOMAIN entries[h]
      /\ Grows
  <2> HIDE DEF e, task
  <2> QED BY <1>2, <1>6, <1>7, EntryUpdate DEF TypeInv, TypeOK
<1>9. LockOK'
  BY <1>1, <1>8, LockRelease DEF SetRequest
<1>10. upd' \in [Guard -> Update] /\ \A h \in Guard : upd'[h].todo = upd[h].todo
  <2>1. upd[g] \in Update /\ upd \in [Guard -> Update]
    BY DEF TypeInv, TypeOK
  <2>2. upd' = [upd EXCEPT ![g] = [upd[g] EXCEPT !.pc = "loop"]]
    BY <2>1 DEF SetRequest
  <2>3. /\ [upd[g] EXCEPT !.pc = "loop"] \in Update
        /\ [upd[g] EXCEPT !.pc = "loop"].todo = upd[g].todo
    BY <2>1 DEF Update
  <2> QED BY <2>1, <2>2, <2>3, UpdStep
<1>11. approvals' \subseteq Approval
  BY <1>5, <1>7 DEF TypeInv, TypeOK
<1> QED BY <1>8, <1>9, <1>10, <1>11 DEF TypeInv, TypeOK, RefsOK, LockOK, SetRequest

LEMMA TypeReceiveApprove ==
    ASSUME TypeInv, NEW g \in Guard, NEW m \in net, ReceiveApprove(g, m)
    PROVE  TypeInv'
<1>1. LockOK /\ Grows
  BY DEF TypeInv, TypeOK, RefsOK, LockOK, Grows, ReceiveApprove
<1>2. PICK i \in GetSign(g, m.req.msg, FALSE), a \in m.sigs :
         Acquire(g, [kind |-> "approve", id |-> i, sig |-> a])
  BY DEF ReceiveApprove
<1>3. i \in signs[g]
  BY DEF GetSign, SignIn
<1>4. i \in Nat \ {0} /\ i \in DOMAIN entries[g] /\ a \in Approval
  BY <1>3 DEF TypeInv, TypeOK, Message
<1> DEFINE t == [kind |-> "approve", id |-> i, sig |-> a]
<1>5. t \in Task
  BY <1>4 DEF Task
<1>6. TaskRefs(g, t)'
  BY <1>4 DEF TaskRefs, ReceiveApprove
<1>7. LockOK'
  <2>1. Acquire(g, t)
    BY <1>2
  <2> HIDE DEF t
  <2> QED BY <1>1, <1>5, <1>6, <2>1, LockAcquire
<1> QED BY <1>7 DEF TypeInv, TypeOK, RefsOK, LockOK, ReceiveApprove

LEMMA TypeReceiveStart ==
    ASSUME TypeInv, NEW g \in Guard, NEW m \in net, ReceiveStart(g, m)
    PROVE  TypeInv'
<1> DEFINE req == [m.req EXCEPT !.init = m.from]
           t == [kind |-> "start", req |-> req, peers |-> ApprovedGuards(g, req, m.sigs)]
<1>1. LockOK /\ Grows
  BY DEF TypeInv, TypeOK, RefsOK, LockOK, Grows, ReceiveStart
<1>2. m.req \in Request /\ m.from \in Guard
  BY DEF TypeInv, TypeOK, Message
<1>3. req \in Request
  BY <1>2 DEF Request
<1>4. ApprovedGuards(g, req, m.sigs) \in SUBSET Guard
  BY <1>3 DEF ApprovedGuards, Request
<1>5. t \in Task
  BY <1>3, <1>4 DEF Task
<1>6. TaskRefs(g, t)'
  BY DEF TaskRefs, WithId
<1>7. LockOK'
  <2>1. Acquire(g, t)
    BY DEF ReceiveStart
  <2> HIDE DEF t
  <2> QED BY <1>1, <1>5, <1>6, <2>1, LockAcquire
<1> QED BY <1>7 DEF TypeInv, TypeOK, RefsOK, LockOK, ReceiveStart

\* The entry handed to tss-api: marked, and the mutex stays held for it.
LEMMA PostingTypes ==
    ASSUME TypeOK, LockOK, Grows, NEW g \in Guard, lock[g] # <<>>,
           NEW i \in signs[g], NEW req \in Request, NEW peers \in SUBSET Guard,
           Posting(g, i, req, peers)
    PROVE  LockOK' /\ posts' \subseteq Post /\ awaiting' \in [Guard -> SUBSET Post]
<1>1. [by |-> g, req |-> req, peers |-> peers] \in Post
  BY DEF Post
<1>2. posts' \subseteq Post /\ awaiting' \in [Guard -> SUBSET Post]
  BY <1>1 DEF Posting, TypeOK
<1>3. i \in Nat \ {0} /\ i \in DOMAIN entries'[g]
  BY DEF TypeOK, Grows
<1>4. PICK t \in Task : t.kind = "posting" /\ t.id = i
                        /\ lock' = [lock EXCEPT ![g] = <<t>> \o Tail(lock[g])]
  BY <1>3 DEF Posting, Task
<1>5. TaskRefs(g, t)'
  BY <1>3, <1>4 DEF TaskRefs
<1>6. lock[g] \in Seq(Task)
  BY DEF LockOK
<1>7. LockOK'
  BY <1>4, <1>5, <1>6, ReplaceHead, LockStep
<1> QED BY <1>2, <1>7

LEMMA TypeHandleApprove ==
    ASSUME TypeInv, NEW g \in Guard, HandleApprove(g)
    PROVE  TypeInv'
<1> DEFINE task == Head(lock[g])
           e == entries[g][task.id]
           sigs == StoreSig(e.sigs, task.sig)
           stored == [entries EXCEPT ![g][task.id].sigs = sigs]
<1>1. LockOK /\ lock[g] # <<>> /\ task.kind = "approve"
  BY DEF TypeInv, TypeOK, RefsOK, LockOK, HandleApprove, Holds
<1>2. task.id \in DOMAIN entries[g] /\ task.sig \in Approval
  BY <1>1, HeadRefs DEF Task, TaskRefs, WithId
<1>3. e \in Entry /\ entries[g] \in Seq(Entry) /\ DOMAIN entries[g] = 1 .. Len(entries[g])
  BY <1>2, LenProperties DEF TypeInv, TypeOK
<1>4. sigs \in SUBSET Approval
  BY <1>2, <1>3 DEF StoreSig, Entry
<1>5. [e EXCEPT !.sigs = sigs] \in Entry
  BY <1>3, <1>4 DEF Entry
<1>6. stored[g] = [entries[g] EXCEPT ![task.id] = [e EXCEPT !.sigs = sigs]]
      /\ stored = [entries EXCEPT ![g] = stored[g]]
  BY <1>2 DEF TypeInv, TypeOK
<1>7. stored[g] \in Seq(Entry) /\ DOMAIN stored[g] = DOMAIN entries[g]
  <2> HIDE DEF sigs
  <2>1. [entries[g] EXCEPT ![task.id] = [e EXCEPT !.sigs = sigs]] \in Seq(Entry)
    BY <1>2, <1>3, <1>5, ExceptSeq
  <2> QED BY <2>1, <1>6
<1>8. PICK req \in e.request :
         \/ entries' = stored /\ Release(g) /\ UNCHANGED <<net, awaiting, posts>>
         \/ /\ \E i \in GetSign(g, e.msg, FALSE) :
                  /\ entries' = [stored EXCEPT ![g][i].posted = TRUE]
                  /\ Posting(g, i, req, ApprovedGuards(g, req, sigs))
            /\ Send([type |-> "start", from |-> g,
                     to |-> ApprovedGuards(g, req, sigs) \ {g},
                     req |-> req, sigs |-> sigs])
  BY DEF HandleApprove
<1>9. req \in Request
  BY <1>3 DEF Entry
<1>10. ApprovedGuards(g, req, sigs) \in SUBSET Guard
  BY <1>9 DEF ApprovedGuards, Request
<1>11. CASE entries' = stored /\ Release(g) /\ UNCHANGED <<net, awaiting, posts>>
  <2> HIDE DEF stored
  <2>1. entries' \in [Guard -> Seq(Entry)] /\ Grows
        /\ \A h \in Guard : DOMAIN entries'[h] = DOMAIN entries[h]
    BY <1>6, <1>7, <1>11 DEF TypeInv, TypeOK, Grows
  <2>2. LockOK'
    BY <2>1, <1>1, <1>11, LockRelease
  <2> QED BY <2>1, <2>2, <1>11
          DEF TypeInv, TypeOK, RefsOK, LockOK, HandleApprove
<1>12. ASSUME NEW i \in GetSign(g, e.msg, FALSE),
              entries' = [stored EXCEPT ![g][i].posted = TRUE],
              Posting(g, i, req, ApprovedGuards(g, req, sigs)),
              Send([type |-> "start", from |-> g,
                    to |-> ApprovedGuards(g, req, sigs) \ {g},
                    req |-> req, sigs |-> sigs])
       PROVE  TypeInv'
  <2>1. i \in signs[g] /\ i \in DOMAIN stored[g]
    BY <1>7 DEF GetSign, SignIn, TypeInv, TypeOK
  <2>2. stored[g][i] \in Entry /\ DOMAIN stored[g] = 1 .. Len(stored[g])
    BY <2>1, <1>7, LenProperties
  <2>3. [stored[g][i] EXCEPT !.posted = TRUE] \in Entry
    BY <2>2 DEF Entry
  <2>4. [stored[g] EXCEPT ![i] = [stored[g][i] EXCEPT !.posted = TRUE]] \in Seq(Entry)
    <3> HIDE DEF stored
    <3> QED BY <2>1, <2>2, <2>3, <1>7, ExceptSeq
  <2>5. entries' = [entries EXCEPT ![g] =
                     [stored[g] EXCEPT ![i] = [stored[g][i] EXCEPT !.posted = TRUE]]]
    <3>1. stored \in [Guard -> Seq(Entry)]
          /\ \A h \in Guard : h # g => stored[h] = entries[h]
      BY <1>6, <1>7 DEF TypeInv, TypeOK
    <3>2. entries' = [stored EXCEPT ![g][i].posted = TRUE]
      BY <1>12
    <3> HIDE DEF stored
    <3>3. entries' = [stored EXCEPT ![g] =
                        [stored[g] EXCEPT ![i] = [stored[g][i] EXCEPT !.posted = TRUE]]]
      BY <3>1, <3>2, <2>1
    <3> QED BY <3>1, <3>3 DEF TypeInv, TypeOK
  <2>6. entries' \in [Guard -> Seq(Entry)] /\ Grows
        /\ \A h \in Guard : DOMAIN entries'[h] = DOMAIN entries[h]
    <3> HIDE DEF stored
    <3> QED BY <2>4, <2>5, <1>7 DEF TypeInv, TypeOK, Grows
  <2>7. LockOK' /\ posts' \subseteq Post /\ awaiting' \in [Guard -> SUBSET Post]
    <3> DEFINE peers == ApprovedGuards(g, req, sigs)
    <3>1. Posting(g, i, req, peers) /\ peers \in SUBSET Guard
      BY <1>10, <1>12
    <3> HIDE DEF peers
    <3> QED BY <3>1, <2>1, <2>6, <1>1, <1>9, PostingTypes DEF TypeInv
  <2>8. net' \subseteq Message
    <3> DEFINE to == ApprovedGuards(g, req, sigs) \ {g}
    <3>1. to \in SUBSET Guard
      BY <1>10
    <3>2. Send([type |-> "start", from |-> g, to |-> to, req |-> req, sigs |-> sigs])
      BY <1>12
    <3> HIDE DEF to, sigs
    <3>3. [type |-> "start", from |-> g, to |-> to, req |-> req, sigs |-> sigs]
            \in Message
      BY <3>1, <1>4, <1>9 DEF Message
    <3> QED BY <3>2, <3>3 DEF Send, TypeInv, TypeOK
  <2> QED BY <2>6, <2>7, <2>8 DEF TypeInv, TypeOK, RefsOK, LockOK, HandleApprove
<1> QED BY <1>8, <1>11, <1>12

LEMMA TypeHandleStart ==
    ASSUME TypeInv, NEW g \in Guard, HandleStart(g)
    PROVE  TypeInv'
<1> DEFINE task == Head(lock[g])
<1>1. LockOK /\ lock[g] # <<>> /\ task.kind = "start"
  BY DEF TypeInv, TypeOK, RefsOK, LockOK, HandleStart, Holds
<1>2. task.req \in Request /\ task.peers \in SUBSET Guard
  BY <1>1, HeadRefs DEF Task
<1>3. CASE Release(g) /\ UNCHANGED <<entries, awaiting, posts>>
  <2>1. LockOK'
    BY <1>1, <1>3, LockRelease DEF Grows
  <2> QED BY <2>1, <1>3 DEF TypeInv, TypeOK, RefsOK, LockOK, HandleStart
<1>4. ASSUME NEW i \in GetSign(g, task.req.msg, FALSE),
             entries' = [entries EXCEPT ![g][i].posted = TRUE],
             Posting(g, i, task.req, task.peers)
      PROVE  TypeInv'
  <2>1. i \in signs[g] /\ i \in DOMAIN entries[g] /\ entries[g][i] \in Entry
    BY DEF GetSign, SignIn, TypeInv, TypeOK
  <2>2. PICK x \in Entry : entries' = [entries EXCEPT ![g] = [@ EXCEPT ![i] = x]]
    <3>1. [entries[g][i] EXCEPT !.posted = TRUE] \in Entry
      BY <2>1 DEF Entry
    <3>2. entries' = [entries EXCEPT ![g] =
                        [@ EXCEPT ![i] = [entries[g][i] EXCEPT !.posted = TRUE]]]
      BY <1>4, <2>1 DEF TypeInv, TypeOK
    <3> QED BY <3>1, <3>2
  <2>3. /\ entries' \in [Guard -> Seq(Entry)]
        /\ \A h \in Guard : DOMAIN entries'[h] = DOMAIN entries[h]
        /\ Grows
    BY <2>1, <2>2, EntryUpdate DEF TypeInv, TypeOK
  <2>4. PICK req \in Request, peers \in SUBSET Guard : Posting(g, i, req, peers)
    BY <1>2, <1>4
  <2>5. LockOK' /\ posts' \subseteq Post /\ awaiting' \in [Guard -> SUBSET Post]
    BY <2>1, <2>3, <2>4, <1>1, PostingTypes DEF TypeInv
  <2> QED BY <2>3, <2>5 DEF TypeInv, TypeOK, RefsOK, LockOK, HandleStart
<1> QED BY <1>3, <1>4 DEF HandleStart

LEMMA TypePostAnswered ==
    ASSUME TypeInv, NEW g \in Guard, PostAnswered(g)
    PROVE  TypeInv'
<1>1. LockOK /\ Grows /\ lock[g] # <<>> /\ Head(lock[g]).kind = "posting"
  BY DEF TypeInv, TypeOK, RefsOK, LockOK, Grows, PostAnswered, Holds
<1>2. Head(lock[g]).id \in Nat \ {0} /\ Head(lock[g]).id \in DOMAIN entries[g]
  BY <1>1, HeadRefs DEF Task, TaskRefs, WithId
<1>3. LockOK'
  <2>1. CASE Release(g)
    BY <1>1, <2>1, LockRelease
  <2>2. CASE lock' = [lock EXCEPT ![g] =
                        Append(Tail(@), [kind |-> "fail", id |-> Head(@).id])]
    <3>1. lock[g] \in Seq(Task) /\ lock \in [Guard -> Seq(Task)]
      BY <1>1 DEF LockOK
    <3>2. PICK t \in Task : /\ t.kind = "fail" /\ t.id = Head(lock[g]).id
                            /\ lock' = [lock EXCEPT ![g] = Append(Tail(lock[g]), t)]
      BY <1>2, <2>2, <3>1 DEF Task
    <3>3. Tail(lock[g]) \in Seq(Task)
          /\ \A k \in 1 .. Len(Tail(lock[g])) :
                \E j \in 1 .. Len(lock[g]) : Tail(lock[g])[k] = lock[g][j]
      BY <1>1, <3>1, TailTask
    <3> DEFINE s == Append(Tail(lock[g]), t)
    <3>4. s \in Seq(Task) /\ \A k \in 1 .. Len(s) :
             \/ s[k] = t
             \/ \E j \in 1 .. Len(Tail(lock[g])) : s[k] = Tail(lock[g])[j]
      BY <3>3, AppendTask
    <3>5. TaskRefs(g, t)'
      BY <1>2, <3>2 DEF TaskRefs, PostAnswered
    <3>6. \A k \in 1 .. Len(s) : s[k] = t \/ \E j \in 1 .. Len(lock[g]) : s[k] = lock[g][j]
      <4> HIDE DEF s
      <4> QED BY <3>3, <3>4
    <3>7. lock' = [lock EXCEPT ![g] = s]
      BY <3>2
    <3> HIDE DEF s
    <3> QED BY <1>1, <3>4, <3>5, <3>6, <3>7, LockStep
  <2> QED BY <2>1, <2>2 DEF PostAnswered
<1> QED BY <1>3 DEF TypeInv, TypeOK, RefsOK, LockOK, PostAnswered

\* Settling keeps an entry an entry.
LEMMA SettleType ==
    ASSUME NEW e \in Entry, NEW status \in {"ok", "failed"}
    PROVE  Settle(e, status) \in Entry
BY DEF Settle, Entry

LEMMA TypePostFailed ==
    ASSUME TypeInv, NEW g \in Guard, PostFailed(g)
    PROVE  TypeInv'
<1> DEFINE i == Head(lock[g]).id
<1>1. LockOK /\ lock[g] # <<>> /\ Head(lock[g]).kind = "fail"
  BY DEF TypeInv, TypeOK, RefsOK, LockOK, PostFailed, Holds
<1>2. i \in DOMAIN entries[g]
  BY <1>1, HeadRefs DEF Task, TaskRefs, WithId
<1>3. entries[g][i] \in Entry
  BY <1>2 DEF TypeInv, TypeOK
<1>4. PICK x \in Entry : entries' = [entries EXCEPT ![g] = [@ EXCEPT ![i] = x]]
  BY <1>2, <1>3, SettleType DEF PostFailed, TypeInv, TypeOK
<1>5. /\ entries' \in [Guard -> Seq(Entry)]
      /\ \A h \in Guard : DOMAIN entries'[h] = DOMAIN entries[h]
      /\ Grows
  <2> HIDE DEF i
  <2> QED BY <1>2, <1>4, EntryUpdate DEF TypeInv, TypeOK
<1>6. LockOK'
  BY <1>1, <1>5, LockRelease DEF PostFailed
<1>7. signs' \in [Guard -> SUBSET (Nat \ {0})]
      /\ \A h \in Guard : signs'[h] \subseteq signs[h]
  BY DEF PostFailed, TypeInv, TypeOK
<1> QED BY <1>5, <1>6, <1>7 DEF TypeInv, TypeOK, RefsOK, LockOK, PostFailed

LEMMA TypeReceiveResult ==
    ASSUME TypeInv, NEW g \in Guard, NEW p \in awaiting[g], ReceiveResult(g, p)
    PROVE  TypeInv'
<1> DEFINE posted == {i \in GetSign(g, p.req.msg, TRUE) : entries[g][i].posted}
<1>1. p.req.msg \in Msgs
  BY DEF TypeInv, TypeOK, Post, Request
<1>2. awaiting' \in [Guard -> SUBSET Post]
  BY DEF ReceiveResult, TypeInv, TypeOK
<1>3. LockOK
  BY DEF TypeInv, TypeOK, RefsOK, LockOK
<1>4. CASE UNCHANGED <<entries, lock, verifying>>
  BY <1>2, <1>4 DEF ReceiveResult, TypeInv, TypeOK, RefsOK, LockRefs, TaskRefs
<1>5. ASSUME NEW i \in posted,
             entries' = [entries EXCEPT ![g][i] = Settle(@, "failed")],
             Acquire(g, [kind |-> "remove", msg |-> p.req.msg]), UNCHANGED verifying
      PROVE  TypeInv'
  <2>1. i \in DOMAIN entries[g] /\ entries[g][i] \in Entry
    BY DEF GetSign, SignIn, TypeInv, TypeOK
  <2>2. PICK x \in Entry : entries' = [entries EXCEPT ![g] = [@ EXCEPT ![i] = x]]
    BY <1>5, <2>1, SettleType DEF TypeInv, TypeOK
  <2>3. /\ entries' \in [Guard -> Seq(Entry)]
        /\ \A h \in Guard : DOMAIN entries'[h] = DOMAIN entries[h]
        /\ Grows
    BY <2>1, <2>2, EntryUpdate DEF TypeInv, TypeOK
  <2>4. PICK t \in Task : Acquire(g, t) /\ t.kind = "remove"
    BY <1>1, <1>5 DEF Task
  <2>5. TaskRefs(g, t)'
    BY <2>4 DEF TaskRefs, WithId
  <2>6. LockOK'
    BY <1>3, <2>3, <2>4, <2>5, LockAcquire
  <2> QED BY <1>2, <1>5, <2>3, <2>6
          DEF ReceiveResult, TypeInv, TypeOK, RefsOK, LockOK
<1>6. ASSUME NEW i \in posted, NEW good \in BOOLEAN,
             verifying' = [verifying EXCEPT ![g] = @ \cup {[id |-> i, good |-> good]}],
             UNCHANGED <<entries, lock>>
      PROVE  TypeInv'
  <2>1. i \in DOMAIN entries[g] /\ i \in Nat \ {0}
    BY DEF GetSign, SignIn, TypeInv, TypeOK
  <2>2. verifying' \in [Guard -> SUBSET [id : Nat \ {0}, good : BOOLEAN]]
        /\ \A h \in Guard : \A v \in verifying'[h] : v.id \in DOMAIN entries[h]
    BY <1>6, <2>1 DEF TypeInv, TypeOK, RefsOK
  <2> QED BY <1>2, <1>6, <2>2
          DEF ReceiveResult, TypeInv, TypeOK, RefsOK, LockRefs, TaskRefs
<1> QED BY <1>4, <1>5, <1>6 DEF ReceiveResult

LEMMA TypeReceiveCached ==
    ASSUME TypeInv, NEW g \in Guard, NEW m \in net, ReceiveCached(g, m)
    PROVE  TypeInv'
<1>1. PICK i \in GetSign(g, m.req.msg, FALSE) :
         verifying' = [verifying EXCEPT ![g] = @ \cup {[id |-> i, good |-> TRUE]}]
  BY DEF ReceiveCached
<1>2. i \in DOMAIN entries[g] /\ i \in Nat \ {0}
  BY DEF GetSign, SignIn, TypeInv, TypeOK
<1> DEFINE v == [id |-> i, good |-> TRUE]
<1>3. verifying' \in [Guard -> SUBSET [id : Nat \ {0}, good : BOOLEAN]]
      /\ \A h \in Guard : \A w \in verifying'[h] : w.id \in DOMAIN entries[h]
  <2>1. v \in [id : Nat \ {0}, good : BOOLEAN] /\ v.id \in DOMAIN entries[g]
    BY <1>2
  <2>2. verifying' = [verifying EXCEPT ![g] = verifying[g] \cup {v}]
    BY <1>1
  <2> HIDE DEF v
  <2> QED BY <2>1, <2>2 DEF TypeInv, TypeOK, RefsOK
<1> QED BY <1>3 DEF ReceiveCached, TypeInv, TypeOK, RefsOK, LockRefs, TaskRefs

LEMMA TypeVerified ==
    ASSUME TypeInv, NEW g \in Guard, NEW v \in verifying[g], Verified(g, v)
    PROVE  TypeInv'
<1>1. verifying' \in [Guard -> SUBSET [id : Nat \ {0}, good : BOOLEAN]]
      /\ \A h \in Guard : verifying'[h] \subseteq verifying[h]
  BY DEF Verified, TypeInv, TypeOK
<1>2. CASE UNCHANGED <<entries, cache, lock>>
  BY <1>1, <1>2 DEF Verified, TypeInv, TypeOK, RefsOK, LockRefs, TaskRefs
<1>3. CASE /\ entries' = [entries EXCEPT ![g][v.id] = Settle(@, "ok")]
           /\ cache' = [cache EXCEPT ![g] = @ \cup {entries[g][v.id].msg}]
           /\ Acquire(g, [kind |-> "remove", msg |-> entries[g][v.id].msg])
  <2>1. v.id \in DOMAIN entries[g] /\ entries[g][v.id] \in Entry
    BY DEF TypeInv, TypeOK, RefsOK
  <2>2. entries[g][v.id].msg \in Msgs
    BY <2>1 DEF Entry
  <2>3. PICK x \in Entry : entries' = [entries EXCEPT ![g] = [@ EXCEPT ![v.id] = x]]
    BY <1>3, <2>1, SettleType DEF TypeInv, TypeOK
  <2>4. /\ entries' \in [Guard -> Seq(Entry)]
        /\ \A h \in Guard : DOMAIN entries'[h] = DOMAIN entries[h]
        /\ Grows
    BY <2>1, <2>3, EntryUpdate DEF TypeInv, TypeOK
  <2>5. PICK t \in Task : Acquire(g, t) /\ t.kind = "remove"
    BY <1>3, <2>2 DEF Task
  <2>6. TaskRefs(g, t)'
    BY <2>5 DEF TaskRefs, WithId
  <2>7. LockOK'
    BY <2>4, <2>5, <2>6, LockAcquire DEF TypeInv, TypeOK, RefsOK, LockOK
  <2>8. cache' \in [Guard -> SUBSET Msgs]
    BY <1>3, <2>2 DEF TypeInv, TypeOK
  <2> QED BY <1>1, <2>4, <2>7, <2>8 DEF Verified, TypeInv, TypeOK, RefsOK, LockOK
<1> QED BY <1>2, <1>3 DEF Verified

LEMMA TypeRemoveSign ==
    ASSUME TypeInv, NEW g \in Guard, RemoveSign(g)
    PROVE  TypeInv'
<1>1. LockOK /\ lock[g] # <<>> /\ Grows
  BY DEF TypeInv, TypeOK, RefsOK, LockOK, RemoveSign, Holds, Grows
<1>2. LockOK'
  BY <1>1, LockRelease DEF RemoveSign
<1>3. signs' \in [Guard -> SUBSET (Nat \ {0})]
      /\ \A h \in Guard : signs'[h] \subseteq signs[h]
  BY DEF RemoveSign, TypeInv, TypeOK
<1> QED BY <1>2, <1>3 DEF RemoveSign, TypeInv, TypeOK, RefsOK, LockOK

LEMMA TypeExpireCache ==
    ASSUME TypeInv, NEW g \in Guard, NEW m \in Msgs, ExpireCache(g, m)
    PROVE  TypeInv'
<1>1. cache' \in [Guard -> SUBSET Msgs]
  BY DEF ExpireCache, TypeInv, TypeOK
<1> QED BY <1>1 DEF ExpireCache, TypeInv, TypeOK, RefsOK, LockRefs, TaskRefs

LEMMA TypeTick == ASSUME TypeInv, Tick PROVE TypeInv'
BY DEF Tick, TypeInv, TypeOK, RefsOK, LockRefs, TaskRefs

LEMMA TypeRestart ==
    ASSUME TypeInv, NEW g \in Guard, Restart(g)
    PROVE  TypeInv'
<1>1. <<>> \in Seq(Entry) /\ <<>> \in Seq(Task) /\ Len(<<>>) = 0
  OBVIOUS
<1>2. /\ now' \in Nat /\ restarts' \in Nat
      /\ entries' \in [Guard -> Seq(Entry)]
      /\ signs' \in [Guard -> SUBSET (Nat \ {0})]
      /\ lock' \in [Guard -> Seq(Task)]
      /\ signs'[g] = {} /\ lock'[g] = <<>>
      /\ \A h \in Guard \ {g} : /\ entries'[h] = entries[h]
                              /\ signs'[h] = signs[h]
                              /\ lock'[h] = lock[h]
  <2>1. now' \in Nat /\ restarts' \in Nat
    BY DEF Restart, TypeInv, TypeOK
  <2>2. /\ entries' \in [Guard -> Seq(Entry)]
        /\ \A h \in Guard \ {g} : entries'[h] = entries[h]
    BY <1>1 DEF Restart, TypeInv, TypeOK
  <2>3. /\ signs' \in [Guard -> SUBSET (Nat \ {0})] /\ signs'[g] = {}
        /\ \A h \in Guard \ {g} : signs'[h] = signs[h]
    BY DEF Restart, TypeInv, TypeOK
  <2>4. /\ lock' \in [Guard -> Seq(Task)] /\ lock'[g] = <<>>
        /\ \A h \in Guard \ {g} : lock'[h] = lock[h]
    BY <1>1 DEF Restart, TypeInv, TypeOK
  <2> QED BY <2>1, <2>2, <2>3, <2>4
<1>3. /\ pending' \in [Guard -> SUBSET Request]
      /\ cache' \in [Guard -> SUBSET Msgs]
      /\ threshold' \in [Guard -> {NoneYet, Threshold}]
      /\ lastRound' \in [Guard -> Nat]
  BY DEF Restart, TypeInv, TypeOK
<1>4. /\ verifying' \in [Guard -> SUBSET [id : Nat \ {0}, good : BOOLEAN]]
      /\ upd' \in [Guard -> Update]
      /\ verifying'[g] = {} /\ upd'[g].todo = {}
      /\ \A h \in Guard \ {g} : verifying'[h] = verifying[h] /\ upd'[h] = upd[h]
  <2>1. /\ verifying' \in [Guard -> SUBSET [id : Nat \ {0}, good : BOOLEAN]]
        /\ verifying'[g] = {}
        /\ \A h \in Guard \ {g} : verifying'[h] = verifying[h]
    BY DEF Restart, TypeInv, TypeOK
  <2>2. /\ upd' \in [Guard -> Update] /\ upd'[g] = Idle
        /\ \A h \in Guard \ {g} : upd'[h] = upd[h]
    BY IdleType DEF Restart, TypeInv, TypeOK
  <2> QED BY <2>1, <2>2, IdleType
<1>5. \A h \in Guard : h # g => entries'[h] = entries[h]
  BY DEF Restart, TypeInv, TypeOK
<1>6. LockRefs'
  <2>1. ASSUME NEW h \in Guard, NEW k \in 1 .. Len(lock'[h])
        PROVE  TaskRefs(h, lock[h][k])'
    <3>1. h # g
      BY <1>1, <1>2, <2>1
    <3>2. entries'[h] = entries[h] /\ lock'[h] = lock[h]
      BY <1>2, <3>1
    <3> QED BY <2>1, <3>2 DEF LockRefs, TaskRefs, TypeInv, RefsOK
  <2> QED BY <2>1 DEF LockRefs
<1>7. RefsOK'
  BY <1>4, <1>5, <1>6 DEF TypeInv, RefsOK
<1>8. \A h \in Guard : signs'[h] \subseteq DOMAIN entries'[h]
  BY <1>2 DEF TypeInv, TypeOK
<1>9. UNCHANGED <<net, awaiting, approvals, posts, asked>>
  BY DEF Restart
<1> QED BY <1>2, <1>3, <1>4, <1>7, <1>8, <1>9 DEF TypeInv, TypeOK

LEMMA TypeNext == ASSUME TypeInv, [Next]_vars PROVE TypeInv'
<1>1. CASE UNCHANGED vars
  BY <1>1 DEF vars, TypeInv, TypeOK, RefsOK, LockRefs, TaskRefs
<1>2. CASE Tick
  BY <1>2, TypeTick
<1>3. ASSUME NEW g \in Guard, LocalStep(g) PROVE TypeInv'
  BY <1>3, TypeAddSign, TypeCleanup, TypeUpdateTurn, TypeUpdateLoop,
     TypeSetRequest, TypeHandleApprove, TypeHandleStart, TypePostFailed,
     TypeRemoveSign DEF LocalStep
<1>4. ASSUME NEW g \in Guard, Event(g) PROVE TypeInv'
  <2>1. CASE OwnEvent(g)
    BY <2>1, TypeUpdateBegin, TypeUpdateStart, TypePostAnswered DEF OwnEvent
  <2>2. CASE \E m \in Msgs : ExpireCache(g, m)
    BY <2>2, TypeExpireCache
  <2>3. CASE \E m \in net : \/ ReceiveRequest(g, m) \/ RegisterAnswered(g, m)
                           \/ ReceiveApprove(g, m) \/ ReceiveStart(g, m)
                           \/ ReceiveCached(g, m)
    BY <2>3, TypeAnswers, TypeReceiveApprove, TypeReceiveStart, TypeReceiveCached
  <2>4. CASE \E p \in awaiting[g] : ReceiveResult(g, p)
    BY <2>4, TypeReceiveResult
  <2>5. CASE \E v \in verifying[g] : Verified(g, v)
    BY <2>5, TypeVerified
  <2> QED BY <1>4, <2>1, <2>2, <2>3, <2>4, <2>5 DEF Event
<1> QED BY <1>1, <1>2, <1>3, <1>4, TypeSign, TypeRestart DEF Next

\* In every reachable state every variable has its type: in particular no index
\* kept across an await (by a waiting task, the loop of update, a verification)
\* ever denotes an entry that does not exist.
THEOREM TypeCorrect == Spec => []TypeInv
<1>1. Init => TypeInv
  BY TypeInit
<1>2. TypeInv /\ [Next]_vars => TypeInv'
  BY TypeNext
<1> QED BY <1>1, <1>2, PTL DEF Spec

THEOREM TypeSafe == Spec => []TypeOK
<1>1. TypeInv => TypeOK
  BY DEF TypeInv
<1> QED BY <1>1, TypeCorrect, PTL
=============================================================================
