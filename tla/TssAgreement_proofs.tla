-------------------------- MODULE TssAgreement_proofs --------------------------
(***************************************************************************)
(* Proof that all signings of one request have the same peers, as long as  *)
(* no message is queued twice.                                             *)
(*                                                                         *)
(* Everybody else starts with the peers its coordinator counted.  That the *)
(* coordinator counts them once per request rests on two orders: the tasks *)
(* that wait for signAccessMutex, and the rounds of update().              *)
(* The last part shows that no message is queued twice when applications   *)
(* ask for each once.                                                      *)
(***************************************************************************)
EXTENDS TssService_proofs

-----------------------------------------------------------------------------
(***************************************************************************)
(* Invariants of the order of signAccessMutex                              *)
(***************************************************************************)

\* What the task s, which waits before t, cannot still do to t: a sign() that
\* waits before an approval is for another message, and no sign() for the message of
\* a queued entry waits behind the request of that entry.
InOrder(g, s, t) ==
    /\ s.kind = "add" /\ t.kind = "approve" => entries[g][t.id].msg # s.msg
    /\ s.kind = "request" /\ t.kind = "add" /\ s.id \in signs[g] =>
          entries[g][s.id].msg # t.msg

\* The entry an approval waits for is the only one of its message in the queue, and a
\* message of which a sign() waits has no entry in the queue that guards were asked for.
Alone(g, t) ==
    /\ t.kind = "approve" => \A i \in signs[g] :
          entries[g][i].msg = entries[g][t.id].msg => i = t.id
    /\ t.kind = "add" => \A i \in signs[g] :
          entries[g][i].msg = t.msg => entries[g][i].request = {}

QueueInv ==
    \A g \in Guard :
        /\ \A k \in 1 .. Len(lock[g]) : Alone(g, lock[g][k])
        /\ \A j, k \in 1 .. Len(lock[g]) : j < k => InOrder(g, lock[g][j], lock[g][k])

\* The entry i of g has, or will get from the run of update() of that time, a request
\* with the timestamp ts.
Claims(g, i, ts) ==
    \/ i \in upd[g].todo /\ upd[g].ts = ts
    \/ \E k \in 1 .. Len(lock[g]) :
          lock[g][k].kind = "request" /\ lock[g][k].id = i /\ lock[g][k].ts = ts
    \/ \E r \in entries[g][i].request : r.ts = ts

\* A signing posted by the guard that asked for the approvals.
OwnPosts(g) == {p \in posts : p.by = g /\ p.req.init = g}

\* A timestamp that the next run of update() cannot use again.
Past(g, ts) == ts < now \/ Round(ts) <= lastRound[g]

RequestsMatch ==
    \A g \in Guard : \A i \in DOMAIN entries[g] : \A r \in entries[g][i].request :
        r.msg = entries[g][i].msg

ClaimsPast ==
    \A g \in Guard :
        /\ lastRound[g] <= Round(now)
        /\ \A i \in DOMAIN entries[g], ts \in Nat :
              Claims(g, i, ts) => ts <= now /\ Round(ts) <= lastRound[g]
        /\ \A p \in OwnPosts(g) : p.req.ts <= now /\ Past(g, p.req.ts)

ClaimsUnique ==
    \A g \in Guard : \A i, j \in DOMAIN entries[g], ts \in Nat :
        Claims(g, i, ts) /\ Claims(g, j, ts) /\ entries[g][i].msg = entries[g][j].msg
        => i = j

ClaimsPosted ==
    \A g \in Guard : \A p \in OwnPosts(g) : \A i \in DOMAIN entries[g] :
        Claims(g, i, p.req.ts) /\ entries[g][i].msg = p.req.msg => entries[g][i].posted

OwnUnique == \A g \in Guard : \A p, q \in OwnPosts(g) : p.req = q.req => p = q

ClaimInv == RequestsMatch /\ ClaimsPast /\ ClaimsUnique /\ ClaimsPosted /\ OwnUnique

\* The coordinator of the request itself posted a signing with these peers.
Coordinated(req, peers) ==
    \E p \in OwnPosts(req.init) : p.req = req /\ p.peers = peers

StartsCoordinated ==
    \A m \in net : m.type = "start" =>
        /\ Coordinated(m.req, ApprovedGuards(m.from, m.req, m.sigs))
        /\ \A h \in m.to : Version[h] = Version[m.from]

TasksCoordinated ==
    \A g \in Guard : \A k \in 1 .. Len(lock[g]) :
        lock[g][k].kind = "start" =>
            /\ lock[g][k].req.init # g
            /\ Coordinated(lock[g][k].req, lock[g][k].peers)

PostsCoordinated == \A p \in posts : Coordinated(p.req, p.peers)

StartInv == StartsCoordinated /\ TasksCoordinated /\ PostsCoordinated

-----------------------------------------------------------------------------
(***************************************************************************)
(* Steps that leave the entries and the order of the mutex alone           *)
(***************************************************************************)

\* No entry comes or goes or gets another request; it may be posted or settled.
EntriesCalm ==
    \A h \in Guard :
        /\ DOMAIN entries'[h] = DOMAIN entries[h]
        /\ \A i \in DOMAIN entries[h] :
              /\ entries'[h][i].msg = entries[h][i].msg
              /\ entries'[h][i].request = entries[h][i].request
              /\ entries[h][i].posted => entries'[h][i].posted

SignsShrink == \A h \in Guard : signs'[h] \subseteq signs[h]

\* Tasks that neither add an entry nor ask for or store an approval nor start.
Plain(t) == t.kind \notin {"add", "approve", "request", "start"}

\* The queue q is s, or s without its first task, with some tasks replaced by or
\* followed by plain ones.
Moved(s, q) ==
    \E d \in {0, 1} : \A k \in 1 .. Len(q) :
        Plain(q[k]) \/ (k + d \in 1 .. Len(s) /\ q[k] = s[k + d])

LEMMA MovedTail ==
    ASSUME NEW s \in Seq(Task), s # <<>> PROVE Moved(s, Tail(s))
<1>1. Tail(s) \in Seq(Task) /\ Len(Tail(s)) = Len(s) - 1
      /\ \A i \in 1 .. Len(Tail(s)) : Tail(s)[i] = s[i + 1]
  BY HeadTailProperties
<1>2. Len(s) \in Nat /\ Len(s) # 0
  BY LenProperties, EmptySeq
<1>3. \A k \in 1 .. Len(Tail(s)) : k + 1 \in 1 .. Len(s) /\ Tail(s)[k] = s[k + 1]
  BY <1>1, <1>2
<1> QED BY <1>3 DEF Moved

LEMMA MovedHead ==
    ASSUME NEW s \in Seq(Task), s # <<>>, NEW t \in Task, Plain(t)
    PROVE  Moved(s, <<t>> \o Tail(s))
<1>1. <<t>> \in Seq(Task) /\ Len(<<t>>) = 1 /\ <<t>>[1] = t
  OBVIOUS
<1>2. Tail(s) \in Seq(Task) /\ Len(Tail(s)) = Len(s) - 1
      /\ \A i \in 1 .. Len(Tail(s)) : Tail(s)[i] = s[i + 1]
  BY HeadTailProperties
<1>3. /\ Len(<<t>> \o Tail(s)) = 1 + Len(Tail(s))
      /\ \A k \in 1 .. 1 + Len(Tail(s)) :
            (<<t>> \o Tail(s))[k] = IF k <= 1 THEN <<t>>[k] ELSE Tail(s)[k - 1]
  BY <1>1, <1>2, ConcatProperties
<1>4. Len(s) \in Nat /\ Len(s) # 0
  BY LenProperties, EmptySeq
<1>5. ASSUME NEW k \in 1 .. Len(<<t>> \o Tail(s))
      PROVE  Plain((<<t>> \o Tail(s))[k])
             \/ (k + 0 \in 1 .. Len(s) /\ (<<t>> \o Tail(s))[k] = s[k + 0])
  <2>1. CASE k = 1
    BY <1>1, <1>2, <1>3, <1>4, <2>1
  <2>2. CASE k # 1
    BY <1>2, <1>3, <1>4, <1>5, <2>2
  <2> QED BY <2>1, <2>2
<1> QED BY <1>5 DEF Moved

LEMMA MovedFail ==
    ASSUME NEW s \in Seq(Task), s # <<>>, NEW t \in Task, Plain(t)
    PROVE  Moved(s, Append(Tail(s), t))
<1>1. PICK q \in Seq(Task) : q = Tail(s)
  BY HeadTailProperties
<1>2. PICK n \in Nat \ {0} : n = Len(s)
  BY LenProperties, EmptySeq
<1>3. Len(q) = n - 1 /\ \A i \in 1 .. n - 1 : q[i] = s[i + 1]
  BY <1>1, <1>2, HeadTailProperties
<1>4. /\ Len(Append(q, t)) = n
      /\ \A i \in 1 .. n - 1 : Append(q, t)[i] = q[i]
      /\ Append(q, t)[n] = t
  BY <1>2, <1>3, AppendProperties
<1>5. ASSUME NEW k \in 1 .. n
      PROVE  Plain(Append(q, t)[k]) \/ (k + 1 \in 1 .. n /\ Append(q, t)[k] = s[k + 1])
  <2>1. CASE k = n
    BY <1>4, <2>1
  <2>2. CASE k # n
    <3>1. k \in 1 .. n - 1 /\ k + 1 \in 1 .. n
      BY <1>2, <1>5, <2>2
    <3> QED BY <1>3, <1>4, <3>1
  <2> QED BY <2>1, <2>2
<1> QED BY <1>1, <1>2, <1>4, <1>5 DEF Moved

\* What waits is still alone, and in order, after the step.
StayAlone ==
    \A h \in Guard, t \in Task :
        (\E k \in 1 .. Len(lock[h]) : lock[h][k] = t) => Alone(h, t)'

StayInOrder ==
    \A h \in Guard, s, t \in Task :
        (\E j, k \in 1 .. Len(lock[h]) : j < k /\ lock[h][j] = s /\ lock[h][k] = t)
        => InOrder(h, s, t)'

\* So it is when some of it has moved up.
LEMMA QueueMoves ==
    ASSUME TypeInv, StayAlone, StayInOrder, lock' \in [Guard -> Seq(Task)],
           \A h \in Guard : Moved(lock[h], lock'[h])
    PROVE  QueueInv'
<1>1. \A h \in Guard : /\ lock[h] \in Seq(Task) /\ lock'[h] \in Seq(Task)
                       /\ Len(lock[h]) \in Nat /\ Len(lock'[h]) \in Nat
                       /\ \A k \in 1 .. Len(lock[h]) : lock[h][k] \in Task
                       /\ \A k \in 1 .. Len(lock'[h]) : lock'[h][k] \in Task
  BY LenProperties DEF TypeInv, TypeOK
<1>2. ASSUME NEW h \in Guard
      PROVE  /\ \A k \in 1 .. Len(lock'[h]) : Alone(h, lock[h][k])'
             /\ \A j, k \in 1 .. Len(lock'[h]) :
                   j < k => InOrder(h, lock[h][j], lock[h][k])'
  <2>1. PICK d \in {0, 1} : \A k \in 1 .. Len(lock'[h]) :
           Plain(lock'[h][k]) \/ (k + d \in 1 .. Len(lock[h]) /\ lock'[h][k] = lock[h][k + d])
    BY <1>2 DEF Moved
  <2>2. ASSUME NEW t \in Task, Plain(t)
        PROVE  Alone(h, t)' /\ \A s \in Task : InOrder(h, s, t)' /\ InOrder(h, t, s)'
    BY <2>2 DEF Plain, Alone, InOrder
  <2>3. ASSUME NEW k \in 1 .. Len(lock'[h]) PROVE Alone(h, lock[h][k])'
    <3>1. CASE Plain(lock'[h][k])
      BY <1>1, <2>2, <2>3, <3>1 DEF Plain, Alone
    <3>2. CASE k + d \in 1 .. Len(lock[h]) /\ lock'[h][k] = lock[h][k + d]
      <4>1. PICK t \in Task : t = lock'[h][k]
        BY <1>1, <2>3
      <4>2. Alone(h, t)'
        BY <3>2, <4>1 DEF StayAlone
      <4> QED BY <4>1, <4>2 DEF Alone
    <3> QED BY <2>1, <2>3, <3>1, <3>2
  <2>4. ASSUME NEW j \in 1 .. Len(lock'[h]), NEW k \in 1 .. Len(lock'[h]), j < k
        PROVE  InOrder(h, lock[h][j], lock[h][k])'
    <3>1. CASE Plain(lock'[h][j]) \/ Plain(lock'[h][k])
      BY <3>1 DEF Plain, InOrder
    <3>2. CASE ~Plain(lock'[h][j]) /\ ~Plain(lock'[h][k])
      <4>1. /\ j + d \in 1 .. Len(lock[h]) /\ lock'[h][j] = lock[h][j + d]
            /\ k + d \in 1 .. Len(lock[h]) /\ lock'[h][k] = lock[h][k + d]
        BY <2>1, <2>4, <3>2
      <4>2. j + d < k + d
        BY <1>1, <2>4
      <4>3. PICK s \in Task, t \in Task : s = lock'[h][j] /\ t = lock'[h][k]
        BY <1>1, <2>4
      <4>4. InOrder(h, s, t)'
        BY <4>1, <4>2, <4>3 DEF StayInOrder
      <4> QED BY <4>3, <4>4 DEF InOrder
    <3> QED BY <3>1, <3>2
  <2> QED BY <2>3, <2>4
<1> QED BY <1>2 DEF QueueInv

\* A task that enters the queue of g, last.
LEMMA QueueGrows ==
    ASSUME TypeInv, StayAlone, StayInOrder, NEW g \in Guard, NEW t \in Task,
           Acquire(g, t), Alone(g, t)',
           \A s \in Task : (\E j \in 1 .. Len(lock[g]) : lock[g][j] = s) => InOrder(g, s, t)'
    PROVE  QueueInv'
<1>1. \A h \in Guard : /\ lock[h] \in Seq(Task)
                       /\ Len(lock[h]) \in Nat
                       /\ \A k \in 1 .. Len(lock[h]) : lock[h][k] \in Task
  BY LenProperties DEF TypeInv, TypeOK
<1>2. lock'[g] = Append(lock[g], t) /\ \A h \in Guard : h # g => lock'[h] = lock[h]
  BY DEF TypeInv, TypeOK, Acquire
<1>3. /\ Len(Append(lock[g], t)) = Len(lock[g]) + 1
      /\ \A i \in 1 .. Len(lock[g]) : Append(lock[g], t)[i] = lock[g][i]
      /\ Append(lock[g], t)[Len(lock[g]) + 1] = t
  BY <1>1, AppendProperties
<1>4. ASSUME NEW h \in Guard, NEW k \in 1 .. Len(lock'[h]) PROVE Alone(h, lock[h][k])'
  <2>1. CASE h = g /\ k = Len(lock[g]) + 1
    BY <1>2, <1>3, <2>1 DEF Alone
  <2>2. CASE ~(h = g /\ k = Len(lock[g]) + 1)
    <3>1. k \in 1 .. Len(lock[h]) /\ lock'[h][k] = lock[h][k]
      BY <1>1, <1>2, <1>3, <1>4, <2>2
    <3>2. PICK s \in Task : s = lock'[h][k]
      BY <1>1, <3>1
    <3>3. Alone(h, s)'
      BY <3>1, <3>2 DEF StayAlone
    <3> QED BY <3>2, <3>3 DEF Alone
  <2> QED BY <2>1, <2>2
<1>5. ASSUME NEW h \in Guard, NEW j \in 1 .. Len(lock'[h]), NEW k \in 1 .. Len(lock'[h]), j < k
      PROVE  InOrder(h, lock[h][j], lock[h][k])'
  <2>1. j \in 1 .. Len(lock[h]) /\ lock'[h][j] = lock[h][j]
    <3>1. CASE h = g
      <4>1. j < Len(lock[g]) + 1 /\ j \in Nat /\ 1 <= j
        BY <1>1, <1>2, <1>3, <1>5, <3>1
      <4> QED BY <1>1, <1>2, <1>3, <3>1, <4>1
    <3>2. CASE h # g
      BY <1>2, <1>5, <3>2
    <3> QED BY <3>1, <3>2
  <2>2. PICK s \in Task : s = lock'[h][j]
    BY <1>1, <2>1
  <2>3. CASE h = g /\ k = Len(lock[g]) + 1
    <3>1. InOrder(h, s, t)'
      BY <2>1, <2>2, <2>3
    <3> QED BY <1>2, <1>3, <2>2, <2>3, <3>1 DEF InOrder
  <2>4. CASE ~(h = g /\ k = Len(lock[g]) + 1)
    <3>1. k \in 1 .. Len(lock[h]) /\ lock'[h][k] = lock[h][k]
      BY <1>1, <1>2, <1>3, <1>5, <2>4
    <3>2. PICK u \in Task : u = lock'[h][k]
      BY <1>1, <3>1
    <3>3. InOrder(h, s, u)'
      BY <1>5, <2>1, <2>2, <3>1, <3>2 DEF StayInOrder
    <3> QED BY <2>2, <3>2, <3>3 DEF InOrder
  <2> QED BY <2>3, <2>4
<1> QED BY <1>4, <1>5 DEF QueueInv

\* What waits stays as it is when no entry comes and no request changes.
LEMMA CalmStays ==
    ASSUME TypeInv, QueueInv, EntriesCalm, SignsShrink
    PROVE  StayAlone /\ StayInOrder
<1>1. ASSUME NEW h \in Guard, NEW t \in Task, NEW k \in 1 .. Len(lock[h]), lock[h][k] = t
      PROVE  Alone(h, t)'
  <2>1. Alone(h, t) /\ TaskRefs(h, t)
    BY <1>1 DEF QueueInv, TypeInv, RefsOK, LockRefs
  <2>2. signs'[h] \subseteq signs[h] /\ signs[h] \subseteq DOMAIN entries[h]
    BY DEF SignsShrink, TypeInv, TypeOK
  <2> QED BY <2>1, <2>2 DEF Alone, EntriesCalm, TaskRefs, WithId
<1>2. ASSUME NEW h \in Guard, NEW s \in Task, NEW t \in Task,
             NEW j \in 1 .. Len(lock[h]), NEW k \in 1 .. Len(lock[h]),
             j < k, lock[h][j] = s, lock[h][k] = t
      PROVE  InOrder(h, s, t)'
  <2>1. InOrder(h, s, t) /\ TaskRefs(h, s) /\ TaskRefs(h, t)
    BY <1>2 DEF QueueInv, TypeInv, RefsOK, LockRefs
  <2>2. signs'[h] \subseteq signs[h] /\ signs[h] \subseteq DOMAIN entries[h]
    BY DEF SignsShrink, TypeInv, TypeOK
  <2> QED BY <2>1, <2>2 DEF InOrder, EntriesCalm, TaskRefs, WithId
<1> QED BY <1>1, <1>2 DEF StayAlone, StayInOrder

\* Nothing but plain tasks enters a queue, and what waits keeps its order.
LockCalm == \A h \in Guard : Moved(lock[h], lock'[h])

LEMMA MovedSame == ASSUME NEW s PROVE Moved(s, s)
<1>1. ASSUME NEW k \in 1 .. Len(s) PROVE k + 0 \in 1 .. Len(s) /\ s[k] = s[k + 0]
  BY <1>1
<1> QED BY <1>1 DEF Moved

LEMMA MovedLast ==
    ASSUME NEW s \in Seq(Task), NEW t \in Task, Plain(t) PROVE Moved(s, Append(s, t))
<1>1. /\ Len(Append(s, t)) = Len(s) + 1
      /\ \A i \in 1 .. Len(s) : Append(s, t)[i] = s[i]
      /\ Append(s, t)[Len(s) + 1] = t
  BY AppendProperties
<1>2. PICK n \in Nat : n = Len(s)
  BY LenProperties
<1>3. ASSUME NEW k \in 1 .. n + 1
      PROVE  Plain(Append(s, t)[k]) \/ (k + 0 \in 1 .. n /\ Append(s, t)[k] = s[k + 0])
  <2>1. CASE k = n + 1
    BY <1>1, <1>2, <2>1
  <2>2. CASE k # n + 1
    <3>1. k \in 1 .. n /\ k + 0 = k
      BY <1>2, <1>3, <2>2
    <3> QED BY <1>1, <1>2, <3>1
  <2> QED BY <2>1, <2>2
<1> QED BY <1>1, <1>2, <1>3 DEF Moved

\* What a step can do to the queue of g and stay calm.
LEMMA CalmQueues ==
    ASSUME TypeInv, NEW g \in Guard,
           \/ UNCHANGED lock
           \/ lock[g] # <<>> /\ Release(g)
           \/ \E t \in Task : Plain(t) /\ Acquire(g, t)
           \/ /\ lock[g] # <<>>
              /\ \E t \in Task : Plain(t) /\ lock' = [lock EXCEPT ![g] = <<t>> \o Tail(@)]
           \/ /\ lock[g] # <<>>
              /\ \E t \in Task : Plain(t) /\ lock' = [lock EXCEPT ![g] = Append(Tail(@), t)]
    PROVE  LockCalm
<1>1. \A h \in Guard : lock[h] \in Seq(Task)
  BY DEF TypeInv, TypeOK
<1>2. \A h \in Guard : Moved(lock[h], lock[h])
  BY MovedSame
<1>3. CASE UNCHANGED lock
  BY <1>2, <1>3 DEF LockCalm
<1>4. ASSUME NEW s, lock' = [lock EXCEPT ![g] = s], Moved(lock[g], s)
      PROVE  LockCalm
  <2>1. lock'[g] = s /\ \A h \in Guard : h # g => lock'[h] = lock[h]
    BY <1>4 DEF TypeInv, TypeOK
  <2> QED BY <1>2, <1>4, <2>1 DEF LockCalm
<1>5. CASE lock[g] # <<>> /\ Release(g)
  BY <1>1, <1>4, <1>5, MovedTail DEF Release
<1>6. ASSUME NEW t \in Task, Plain(t), Acquire(g, t) PROVE LockCalm
  BY <1>1, <1>4, <1>6, MovedLast DEF Acquire
<1>7. ASSUME NEW t \in Task, Plain(t), lock[g] # <<>>,
             lock' = [lock EXCEPT ![g] = <<t>> \o Tail(@)]
      PROVE  LockCalm
  BY <1>1, <1>4, <1>7, MovedHead
<1>8. ASSUME NEW t \in Task, Plain(t), lock[g] # <<>>,
             lock' = [lock EXCEPT ![g] = Append(Tail(@), t)]
      PROVE  LockCalm
  BY <1>1, <1>4, <1>8, MovedFail
<1> QED BY <1>3, <1>5, <1>6, <1>7, <1>8

LEMMA PostingCalm ==
    ASSUME TypeInv, NEW g \in Guard, lock[g] # <<>>, NEW i \in Nat \ {0}, NEW req,
           NEW peers, Posting(g, i, req, peers)
    PROVE  LockCalm
<1>1. PICK t \in Task : t.kind = "posting"
                        /\ lock' = [lock EXCEPT ![g] = <<t>> \o Tail(@)]
  BY DEF Posting, Task
<1>2. Plain(t)
  BY <1>1 DEF Plain
<1> QED BY <1>1, <1>2, CalmQueues

\* Whatever waits after a calm step waited before it, or is plain.
LEMMA CalmTasks ==
    ASSUME LockCalm, NEW h \in Guard, NEW k \in 1 .. Len(lock'[h])
    PROVE  Plain(lock'[h][k]) \/ \E j \in 1 .. Len(lock[h]) : lock'[h][k] = lock[h][j]
<1>1. PICK d \in {0, 1} :
         Plain(lock'[h][k]) \/ (k + d \in 1 .. Len(lock[h]) /\ lock'[h][k] = lock[h][k + d])
  BY DEF LockCalm, Moved
<1> QED BY <1>1

LEMMA QueueCalm ==
    ASSUME TypeInv, TypeInv', QueueInv, EntriesCalm, SignsShrink, LockCalm
    PROVE  QueueInv'
<1>1. lock' \in [Guard -> Seq(Task)]
  BY DEF TypeInv, TypeOK
<1> QED BY <1>1, CalmStays, QueueMoves DEF LockCalm

-----------------------------------------------------------------------------
(***************************************************************************)
(* What the steps do to the entries and the mutex                          *)
(***************************************************************************)
LEMMA EntriesStay == ASSUME UNCHANGED entries PROVE EntriesCalm
BY DEF EntriesCalm

LEMMA CalmSettled ==
    ASSUME TypeInv, NEW g \in Guard,
           \/ PostFailed(g)
           \/ \E p \in awaiting[g] : ReceiveResult(g, p)
           \/ \E v \in verifying[g] : Verified(g, v)
    PROVE  EntriesCalm /\ SignsShrink /\ LockCalm
<1>1. TypeOK
  BY DEF TypeInv
<1>2. ASSUME NEW i \in DOMAIN entries[g], NEW status \in {"ok", "failed"},
             entries' = [entries EXCEPT ![g][i] = Settle(@, status)]
      PROVE  EntriesCalm
  <2>1. \A h \in Guard :
           /\ DOMAIN entries'[h] = DOMAIN entries[h]
           /\ \A j \in DOMAIN entries[h] :
                 /\ entries'[h][j].msg = entries[h][j].msg
                 /\ entries'[h][j].request = entries[h][j].request
                 /\ entries'[h][j].posted = entries[h][j].posted
    BY <1>1, <1>2, SettledEntries, Zenon
  <2> QED BY <2>1, Zenon DEF EntriesCalm
<1>3. ASSUME NEW m \in Msgs, Acquire(g, [kind |-> "remove", msg |-> m]) PROVE LockCalm
  <2>1. PICK t \in Task : t.kind = "remove" /\ Acquire(g, t)
    BY <1>3 DEF Task
  <2> QED BY <2>1, CalmQueues DEF Plain
<1>4. UNCHANGED signs => SignsShrink
  BY DEF SignsShrink
<1>5. CASE PostFailed(g)
  <2>1. lock[g] # <<>> /\ Head(lock[g]).kind = "fail" /\ LockOK
    BY <1>5 DEF PostFailed, Holds, TypeInv, TypeOK, RefsOK, LockOK
  <2>2. Head(lock[g]).id \in DOMAIN entries[g]
    BY <2>1, HeadRefs DEF TaskRefs, WithId
  <2>3. EntriesCalm
    BY <1>2, <1>5, <2>2 DEF PostFailed
  <2>4. LockCalm
    BY <1>5, <2>1, CalmQueues DEF PostFailed
  <2>5. PICK T \in SUBSET signs[g] : signs' = [signs EXCEPT ![g] = T]
    BY <1>1, <1>5 DEF PostFailed, TypeOK
  <2>6. SignsShrink
    BY <1>1, <2>5, SomeLeave DEF SignsShrink
  <2> QED BY <2>3, <2>4, <2>6
<1>6. ASSUME NEW p \in awaiting[g], ReceiveResult(g, p)
      PROVE  EntriesCalm /\ SignsShrink /\ LockCalm
  <2>1. p.req.msg \in Msgs
    BY <1>1 DEF TypeOK, Post, Request
  <2>2. GetSign(g, p.req.msg, TRUE) \subseteq DOMAIN entries[g]
    BY <1>1 DEF GetSign, SignIn, TypeOK
  <2>3. SignsShrink
    BY <1>4, <1>6 DEF ReceiveResult
  <2>4. \/ UNCHANGED <<entries, lock>>
        \/ /\ \E i \in DOMAIN entries[g] :
                 entries' = [entries EXCEPT ![g][i] = Settle(@, "failed")]
           /\ Acquire(g, [kind |-> "remove", msg |-> p.req.msg])
    BY <1>6, <2>2 DEF ReceiveResult
  <2> QED BY <1>2, <1>3, <2>1, <2>3, <2>4, EntriesStay, CalmQueues
<1>7. ASSUME NEW v \in verifying[g], Verified(g, v)
      PROVE  EntriesCalm /\ SignsShrink /\ LockCalm
  <2>1. v.id \in DOMAIN entries[g] /\ entries[g][v.id] \in Entry
    BY DEF TypeInv, TypeOK, RefsOK
  <2>2. entries[g][v.id].msg \in Msgs
    BY <2>1 DEF Entry
  <2>3. SignsShrink
    BY <1>4, <1>7 DEF Verified
  <2>4. \/ UNCHANGED <<entries, lock>>
        \/ /\ entries' = [entries EXCEPT ![g][v.id] = Settle(@, "ok")]
           /\ Acquire(g, [kind |-> "remove", msg |-> entries[g][v.id].msg])
    BY <1>7 DEF Verified
  <2> QED BY <1>2, <1>3, <2>1, <2>2, <2>3, <2>4, EntriesStay, CalmQueues
<1> QED BY <1>5, <1>6, <1>7

\* The run of update() goes on with entries it had already taken.
UpdCalm ==
    \A h \in Guard :
        \/ upd'[h].todo = {}
        \/ upd'[h].todo \subseteq upd[h].todo /\ upd'[h].ts = upd[h].ts

TimeCalm == now' \in Nat /\ now <= now' /\ UNCHANGED lastRound

NoNewStarts == \A m \in net' : m.type = "start" => m \in net

\* Steps that nothing here depends on.
CalmStep ==
    /\ EntriesCalm /\ SignsShrink /\ LockCalm /\ UpdCalm /\ TimeCalm /\ NoNewStarts
    /\ UNCHANGED posts

LEMMA CalmMark ==
    ASSUME TypeOK, NEW g \in Guard, NEW pc,
           upd' = [upd EXCEPT ![g].pc = pc] \/ upd' = [upd EXCEPT ![g] = Idle]
    PROVE  UpdCalm
<1>1. CASE upd' = [upd EXCEPT ![g] = Idle]
  BY <1>1, IdleType DEF TypeOK, UpdCalm
<1>2. CASE upd' = [upd EXCEPT ![g].pc = pc]
  <2>1. upd[g] \in Update
    BY DEF TypeOK
  <2> DEFINE u == [upd[g] EXCEPT !.pc = pc]
  <2>2. u.todo = upd[g].todo /\ u.ts = upd[g].ts
    BY <2>1 DEF Update
  <2>3. upd' = [upd EXCEPT ![g] = u]
    BY <1>2, <2>1 DEF TypeOK
  <2> HIDE DEF u
  <2> QED BY <2>2, <2>3 DEF TypeOK, UpdCalm
<1> QED BY <1>1, <1>2

LEMMA AnswersStartNothing ==
    ASSUME NEW g, NEW req, NEW q, AnswerRequest(g, req, q)
    PROVE  NoNewStarts
<1>1. CASE UNCHANGED net
  BY <1>1 DEF NoNewStarts
<1>2. ASSUME NEW m, Send(m), m.type # "start" PROVE NoNewStarts
  BY <1>2 DEF Send, NoNewStarts
<1>3. CASE Send([type |-> "cached", from |-> g, to |-> {req.init}, req |-> req,
                 sigs |-> {}])
  BY <1>2, <1>3
<1>4. CASE Send([type |-> "approve", from |-> g, to |-> {req.init}, req |-> req,
                 sigs |-> {[by |-> g, req |-> req]}])
  BY <1>2, <1>4
<1> QED BY <1>1, <1>3, <1>4 DEF AnswerRequest, SendCached, Approve, KeepPending

\* What does not change at all is calm.
LEMMA StillCalm ==
    ASSUME TypeInv
    PROVE  /\ UNCHANGED entries => EntriesCalm
           /\ UNCHANGED signs => SignsShrink
           /\ UNCHANGED lock => LockCalm
           /\ UNCHANGED upd => UpdCalm
           /\ UNCHANGED <<now, lastRound>> => TimeCalm
           /\ UNCHANGED net => NoNewStarts
<1>1. now \in Nat /\ now <= now
  BY DEF TypeInv, TypeOK
<1>2. UNCHANGED lock => LockCalm
  BY MovedSame DEF LockCalm
<1> QED BY <1>1, <1>2, EntriesStay DEF SignsShrink, UpdCalm, TimeCalm, NoNewStarts

LEMMA CalmUpdate ==
    ASSUME TypeInv, NEW g \in Guard, UpdateBegin(g) \/ Cleanup(g) \/ UpdateTurn(g)
    PROVE  CalmStep
<1>1. TypeOK /\ UNCHANGED <<entries, now, lastRound, net, posts>>
  BY DEF TypeInv, UpdateBegin, Cleanup, UpdateTurn
<1>2. UpdCalm
  <2>1. \E pc : upd' = [upd EXCEPT ![g].pc = pc] \/ upd' = [upd EXCEPT ![g] = Idle]
    BY DEF UpdateBegin, Cleanup, UpdateTurn
  <2> QED BY <1>1, <2>1, CalmMark
<1>3. LockCalm
  <2>1. CASE UpdateBegin(g)
    <3>1. now \in Nat /\ now - Timeout \in Int
      BY <1>1, ConstantsAssumption DEF TypeOK
    <3>2. GuardTurn(now) \in Guard
      BY <3>1, TurnIsGuard
    <3>3. PICK t \in Task : t.kind = "cleanup" /\ Acquire(g, t)
      BY <2>1, <3>1, <3>2 DEF UpdateBegin, Task
    <3> QED BY <3>3, CalmQueues DEF Plain
  <2>2. CASE Cleanup(g)
    BY <2>2, CalmQueues DEF Cleanup, Holds
  <2>3. CASE UpdateTurn(g)
    BY <2>3, CalmQueues DEF UpdateTurn
  <2> QED BY <2>1, <2>2, <2>3
<1>4. SignsShrink
  <2>1. CASE Cleanup(g)
    <3>1. PICK T \in SUBSET signs[g] : signs' = [signs EXCEPT ![g] = T]
      BY <1>1, <2>1 DEF Cleanup, TypeOK
    <3> QED BY <1>1, <3>1, SomeLeave DEF SignsShrink
  <2>2. CASE UNCHANGED signs
    BY <2>2, StillCalm
  <2> QED BY <2>1, <2>2 DEF UpdateBegin, UpdateTurn
<1> QED BY <1>1, <1>2, <1>3, <1>4, StillCalm DEF CalmStep

\* The other local steps that are calm: an entry leaves the queue.
LEMMA CalmRemove ==
    ASSUME TypeInv, NEW g \in Guard, RemoveSign(g) \/ PostFailed(g)
    PROVE  CalmStep
<1>1. TypeOK /\ UNCHANGED <<upd, now, lastRound, net, posts>>
  BY DEF TypeInv, RemoveSign, PostFailed
<1>2. CASE PostFailed(g)
  BY <1>1, <1>2, StillCalm, CalmSettled DEF CalmStep
<1>3. CASE RemoveSign(g)
  <2>1. LockCalm
    BY <1>3, CalmQueues DEF RemoveSign, Holds
  <2>2. PICK T \in SUBSET signs[g] : signs' = [signs EXCEPT ![g] = T]
    BY <1>1, <1>3 DEF RemoveSign, TypeOK
  <2>3. SignsShrink
    BY <1>1, <2>2, SomeLeave DEF SignsShrink
  <2>4. UNCHANGED entries
    BY <1>3 DEF RemoveSign
  <2> QED BY <1>1, <2>1, <2>3, <2>4, StillCalm DEF CalmStep
<1> QED BY <1>2, <1>3

LEMMA CalmEvents ==
    ASSUME TypeInv, NEW g \in Guard,
           \/ PostAnswered(g)
           \/ \E m \in Msgs : ExpireCache(g, m)
           \/ \E m \in net : \/ ReceiveRequest(g, m) \/ RegisterAnswered(g, m)
                             \/ ReceiveCached(g, m)
           \/ \E p \in awaiting[g] : ReceiveResult(g, p)
           \/ \E v \in verifying[g] : Verified(g, v)
    PROVE  CalmStep
<1>1. UNCHANGED <<upd, now, lastRound, posts, signs>>
  BY DEF PostAnswered, ExpireCache, ReceiveRequest, RegisterAnswered, ReceiveCached,
         ReceiveResult, Verified
<1>2. CASE \E m \in net : ReceiveRequest(g, m) \/ RegisterAnswered(g, m)
  <2>1. UNCHANGED <<entries, lock>> /\ \E m \in net : \E q : AnswerRequest(g, m.req, q)
    BY <1>2 DEF ReceiveRequest, RegisterAnswered
  <2> QED BY <1>1, <2>1, StillCalm, AnswersStartNothing DEF CalmStep
<1>3. CASE (\E m \in Msgs : ExpireCache(g, m)) \/ \E m \in net : ReceiveCached(g, m)
  <2>1. UNCHANGED <<entries, lock, net>>
    BY <1>3 DEF ExpireCache, ReceiveCached
  <2> QED BY <1>1, <2>1, StillCalm DEF CalmStep
<1>4. CASE (\E p \in awaiting[g] : ReceiveResult(g, p))
           \/ \E v \in verifying[g] : Verified(g, v)
  <2>1. UNCHANGED net
    BY <1>4 DEF ReceiveResult, Verified
  <2>2. EntriesCalm /\ SignsShrink /\ LockCalm
    BY <1>4, CalmSettled
  <2> QED BY <1>1, <2>1, <2>2, StillCalm DEF CalmStep
<1>5. CASE PostAnswered(g)
  <2>1. UNCHANGED <<entries, net>> /\ LockOK /\ lock[g] # <<>>
        /\ Head(lock[g]).kind = "posting"
    BY <1>5 DEF PostAnswered, Holds, TypeInv, TypeOK, RefsOK, LockOK
  <2>2. CASE Release(g)
    BY <1>1, <2>1, <2>2, StillCalm, CalmQueues DEF CalmStep
  <2>3. CASE lock' = [lock EXCEPT ![g] =
                        Append(Tail(@), [kind |-> "fail", id |-> Head(@).id])]
    <3>1. Head(lock[g]).id \in Nat \ {0}
      BY <2>1, HeadRefs DEF Task
    <3>2. PICK t \in Task : t.kind = "fail"
                            /\ lock' = [lock EXCEPT ![g] = Append(Tail(@), t)]
      BY <2>1, <2>3, <3>1 DEF Task
    <3>3. LockCalm
      BY <2>1, <3>2, CalmQueues DEF Plain
    <3> QED BY <1>1, <2>1, <3>3, StillCalm DEF CalmStep
  <2> QED BY <1>5, <2>2, <2>3 DEF PostAnswered
<1> QED BY <1>2, <1>3, <1>4, <1>5

LEMMA CalmTick == ASSUME TypeInv, UNCHANGED vars \/ Tick PROVE CalmStep
<1>1. UNCHANGED <<entries, signs, lock, upd, lastRound, net, posts>>
  BY DEF vars, Tick
<1>2. now' \in Nat /\ now <= now'
  <2>1. now \in Nat /\ (now' = now \/ now' = now + 1)
    BY DEF vars, Tick, TypeInv, TypeOK
  <2> QED BY <2>1
<1> QED BY <1>1, <1>2, StillCalm DEF CalmStep, TimeCalm

-----------------------------------------------------------------------------
(***************************************************************************)
(* The order of the mutex is kept                                          *)
(***************************************************************************)

\* A queue without two entries of one message: getSign finds the entry there is.
LEMMA NoneQueued ==
    ASSUME TypeOK, OneEntryPerMessage, NEW g \in Guard, NEW m, GetSign(g, m, TRUE) = {}
    PROVE  \A i \in signs[g] : entries[g][i].msg # m
<1>1. SUFFICES ASSUME NEW i \in signs[g], entries[g][i].msg = m PROVE FALSE
  OBVIOUS
<1>2. i \in Nat /\ signs[g] \subseteq Nat
  BY <1>1 DEF TypeOK
<1>3. \A j \in {k \in signs[g] : entries[g][k].msg = m} : j = i
  BY <1>1 DEF OneEntryPerMessage
<1>4. i \in GetSign(g, m, TRUE)
  BY <1>1, <1>2, <1>3 DEF GetSign, SignIn, IsFirst
<1> QED BY <1>4

LEMMA QueueInit == ASSUME Init PROVE QueueInv
<1>1. Len(<<>>) = 0
  OBVIOUS
<1> QED BY <1>1 DEF Init, QueueInv

LEMMA QueueSign ==
    ASSUME TypeInv, TypeInv', QueueInv, OneEntryPerMessage, NEW g \in Guard,
           NEW m \in Msgs, Sign(g, m)
    PROVE  QueueInv'
<1>1. EntriesCalm /\ SignsShrink /\ UNCHANGED <<entries, signs>>
  BY StillCalm DEF Sign
<1>2. CASE UNCHANGED lock
  BY <1>1, <1>2, StillCalm, QueueCalm
<1>3. CASE Acquire(g, [kind |-> "add", msg |-> m])
  <2>1. PICK t \in Task : t.kind = "add" /\ t.msg = m /\ Acquire(g, t)
    BY <1>3 DEF Task
  <2>2. \A i \in signs[g] : entries[g][i].msg # m
    BY NoneQueued DEF Sign, TypeInv
  <2>3. Alone(g, t)'
    BY <1>1, <2>1, <2>2 DEF Alone
  <2>4. \A s : InOrder(g, s, t)'
    BY <1>1, <2>1, <2>2 DEF InOrder
  <2> QED BY <1>1, <2>1, <2>3, <2>4, CalmStays, QueueGrows
<1> QED BY <1>2, <1>3 DEF Sign

LEMMA QueueReceiveApprove ==
    ASSUME TypeInv, QueueInv, OneEntryPerMessage, NEW g \in Guard, NEW m \in net,
           ReceiveApprove(g, m)
    PROVE  QueueInv'
<1>1. EntriesCalm /\ SignsShrink /\ UNCHANGED <<entries, signs>> /\ TypeOK
  BY StillCalm DEF ReceiveApprove, TypeInv
<1>2. PICK i \in GetSign(g, m.req.msg, FALSE), a \in m.sigs :
         entries[g][i].request # {} /\ Acquire(g, [kind |-> "approve", id |-> i, sig |-> a])
  BY DEF ReceiveApprove
<1>3. i \in signs[g] /\ i \in Nat \ {0} /\ a \in Approval
  BY <1>1 DEF GetSign, SignIn, TypeOK, Message
<1>4. PICK t \in Task : t.kind = "approve" /\ t.id = i /\ Acquire(g, t)
  BY <1>2, <1>3 DEF Task
<1>5. \A j \in signs[g] : entries[g][j].msg = entries[g][i].msg => j = i
  BY <1>3 DEF OneEntryPerMessage
<1>6. Alone(g, t)'
  BY <1>1, <1>4, <1>5 DEF Alone
<1>7. ASSUME NEW s \in Task, NEW j \in 1 .. Len(lock[g]), lock[g][j] = s
      PROVE  InOrder(g, s, t)'
  <2>1. Alone(g, s)
    BY <1>7 DEF QueueInv
  <2>2. s.kind = "add" => entries[g][i].msg # s.msg
    BY <1>2, <1>3, <2>1 DEF Alone
  <2> QED BY <1>1, <1>4, <2>2 DEF InOrder
<1> QED BY <1>1, <1>4, <1>6, <1>7, CalmStays, QueueGrows

\* The task of a start that arrived: the peers are counted when it arrives.
LEMMA StartTask ==
    ASSUME TypeInv, NEW g \in Guard, NEW m \in net, ReceiveStart(g, m)
    PROVE  \E t \in Task :
              /\ t.kind = "start" /\ t.req = [m.req EXCEPT !.init = m.from]
              /\ t.peers = ApprovedGuards(g, t.req, m.sigs) /\ Acquire(g, t)
<1> DEFINE req == [m.req EXCEPT !.init = m.from]
           peers == ApprovedGuards(g, req, m.sigs)
<1>1. req \in Request /\ peers \in SUBSET Guard
  <2>1. m.req \in Request /\ m.from \in Guard
    BY DEF TypeInv, TypeOK, Message
  <2>2. req \in Request
    BY <2>1 DEF Request
  <2> HIDE DEF req
  <2> QED BY <2>2 DEF ApprovedGuards, Request
<1>2. Acquire(g, [kind |-> "start", req |-> req, peers |-> peers])
  BY DEF ReceiveStart
<1> HIDE DEF req, peers
<1>3. PICK t \in Task : t.kind = "start" /\ t.req = req /\ t.peers = peers /\ Acquire(g, t)
  BY <1>1, <1>2 DEF Task
<1> QED BY <1>3 DEF req, peers

LEMMA QueueReceiveStart ==
    ASSUME TypeInv, QueueInv, NEW g \in Guard, NEW m \in net, ReceiveStart(g, m)
    PROVE  QueueInv'
<1>1. EntriesCalm /\ SignsShrink
  BY StillCalm DEF ReceiveStart
<1>2. PICK t \in Task : t.kind = "start" /\ Acquire(g, t)
  BY StartTask
<1>3. Alone(g, t)' /\ \A s : InOrder(g, s, t)'
  BY <1>2 DEF Alone, InOrder
<1> QED BY <1>1, <1>2, <1>3, CalmStays, QueueGrows

LEMMA QueueUpdateLoop ==
    ASSUME TypeInv, TypeInv', QueueInv, NEW g \in Guard, UpdateLoop(g)
    PROVE  QueueInv'
<1>1. EntriesCalm /\ SignsShrink /\ upd[g] \in Update
  BY StillCalm DEF UpdateLoop, TypeInv, TypeOK
<1>2. CASE UNCHANGED lock
  BY <1>1, <1>2, StillCalm, QueueCalm
<1>3. ASSUME NEW i \in upd[g].todo,
             Acquire(g, [kind |-> "request", id |-> i, guards |-> upd[g].guards,
                         ts |-> upd[g].ts])
      PROVE  QueueInv'
  <2>1. i \in Nat \ {0} /\ upd[g].guards \in SUBSET Guard /\ upd[g].ts \in Nat
    BY <1>1 DEF Update
  <2>2. PICK t \in Task : t.kind = "request" /\ Acquire(g, t)
    BY <1>3, <2>1 DEF Task
  <2>3. Alone(g, t)' /\ \A s : InOrder(g, s, t)'
    BY <2>2 DEF Alone, InOrder
  <2> QED BY <1>1, <2>2, <2>3, CalmStays, QueueGrows
<1> QED BY <1>2, <1>3 DEF UpdateLoop

\* The mutex is held by an approval: what storing it and starting does.
Started(g, i, req, sigs) ==
    /\ entries'[g][i].posted
    /\ Posting(g, i, req, ApprovedGuards(g, req, sigs))
    /\ Send([type |-> "start", from |-> g, to |-> ApprovedGuards(g, req, sigs) \ {g},
             req |-> req, sigs |-> sigs])

LEMMA ApproveStep ==
    ASSUME TypeInv, NEW g \in Guard, HandleApprove(g)
    PROVE  LET id == Head(lock[g]).id
           IN  /\ lock[g] # <<>> /\ Head(lock[g]).kind = "approve"
               /\ id \in DOMAIN entries[g] /\ EntriesCalm
               /\ \E req \in entries[g][id].request, sigs \in SUBSET Approval :
                     \/ Release(g) /\ UNCHANGED <<net, posts>>
                     \/ \E i \in GetSign(g, entries[g][id].msg, FALSE) :
                           Started(g, i, req, sigs)
<1> DEFINE task == Head(lock[g])
           e == entries[g][task.id]
           sigs == StoreSig(e.sigs, task.sig)
           x == [e EXCEPT !.sigs = sigs]
           stored == [entries EXCEPT ![g][task.id].sigs = sigs]
<1>1. LockOK /\ lock[g] # <<>> /\ task.kind = "approve" /\ task \in Task /\ TypeOK
  BY HeadRefs DEF HandleApprove, Holds, TypeInv, TypeOK, RefsOK, LockOK
<1>2. task.id \in DOMAIN entries[g]
  BY <1>1, HeadRefs DEF TaskRefs, WithId
<1>3. e \in Entry
  BY <1>1, <1>2 DEF TypeOK
<1>4. sigs \in SUBSET Approval
  <2>1. e.sigs \in SUBSET Approval /\ task.sig \in Approval
    BY <1>1, <1>3 DEF Entry, Task
  <2> QED BY <2>1 DEF StoreSig
<1>5. x \in Entry /\ x.request = e.request /\ x.msg = e.msg /\ x.posted = e.posted
  <2> HIDE DEF sigs
  <2> QED BY <1>3, <1>4 DEF Entry
<1>6. /\ stored \in [Guard -> Seq(Entry)]
      /\ \A h \in Guard :
            /\ DOMAIN stored[h] = DOMAIN entries[h]
            /\ \A j \in DOMAIN entries[h] :
                  /\ stored[h][j].msg = entries[h][j].msg
                  /\ stored[h][j].request = entries[h][j].request
                  /\ stored[h][j].posted = entries[h][j].posted
  <2>1. stored = [entries EXCEPT ![g] = [@ EXCEPT ![task.id] = x]]
    BY <1>1, <1>2 DEF TypeOK
  <2>2. entries[g] \in Seq(Entry) /\ task.id \in 1 .. Len(entries[g])
    BY <1>1, <1>2, LenProperties DEF TypeOK
  <2>3. [entries[g] EXCEPT ![task.id] = x] \in Seq(Entry)
    <3> HIDE DEF x, task
    <3> QED BY <1>5, <2>2, ExceptSeq
  <2>4. PICK id \in DOMAIN entries[g], y \in Entry :
           /\ stored = [entries EXCEPT ![g] = [@ EXCEPT ![id] = y]]
           /\ [entries[g] EXCEPT ![id] = y] \in Seq(Entry)
           /\ y.request = entries[g][id].request /\ y.msg = entries[g][id].msg
           /\ y.posted = entries[g][id].posted
    <3> HIDE DEF x, stored
    <3> QED BY <1>2, <1>5, <2>1, <2>3
  <2> HIDE DEF stored
  <2> QED BY <1>1, <2>4 DEF TypeOK
<1>7. PICK req \in e.request :
         \/ entries' = stored /\ Release(g) /\ UNCHANGED <<net, awaiting, posts>>
         \/ \E i \in GetSign(g, e.msg, FALSE) :
               /\ entries' = [stored EXCEPT ![g][i].posted = TRUE]
               /\ Posting(g, i, req, ApprovedGuards(g, req, sigs))
               /\ Send([type |-> "start", from |-> g,
                        to |-> ApprovedGuards(g, req, sigs) \ {g},
                        req |-> req, sigs |-> sigs])
  BY DEF HandleApprove
<1>8. CASE entries' = stored /\ Release(g) /\ UNCHANGED <<net, awaiting, posts>>
  <2>1. EntriesCalm
    <3> HIDE DEF stored
    <3> QED BY <1>6, <1>8 DEF EntriesCalm
  <2> HIDE DEF sigs
  <2> QED BY <1>1, <1>2, <1>4, <1>8, <2>1
<1>9. ASSUME NEW i \in GetSign(g, e.msg, FALSE),
             entries' = [stored EXCEPT ![g][i].posted = TRUE],
             Posting(g, i, req, ApprovedGuards(g, req, sigs)),
             Send([type |-> "start", from |-> g,
                   to |-> ApprovedGuards(g, req, sigs) \ {g},
                   req |-> req, sigs |-> sigs])
      PROVE  EntriesCalm /\ Started(g, i, req, sigs)
  <2>1. i \in DOMAIN entries[g]
    BY <1>1 DEF GetSign, SignIn, TypeOK
  <2>2. /\ EntriesCalm
        /\ entries'[g][i].posted
    <3>1. entries' = [stored EXCEPT ![g][i].posted = TRUE]
      BY <1>9
    <3> HIDE DEF stored
    <3>2. stored[g][i] \in Entry
      BY <1>6, <2>1
    <3> DEFINE y == [stored[g][i] EXCEPT !.posted = TRUE]
    <3>3. y.msg = stored[g][i].msg /\ y.request = stored[g][i].request /\ y.posted
      BY <3>2 DEF Entry
    <3>4. entries' = [stored EXCEPT ![g] = [@ EXCEPT ![i] = y]]
      BY <1>6, <2>1, <3>1
    <3> HIDE DEF y
    <3>5. \A h \in Guard :
             /\ DOMAIN entries'[h] = DOMAIN stored[h]
             /\ \A j \in DOMAIN stored[h] :
                   entries'[h][j] = IF h = g /\ j = i THEN y ELSE stored[h][j]
      BY <1>6, <2>1, <3>4
    <3>6. \A h \in Guard : \A j \in DOMAIN stored[h] :
             /\ entries'[h][j].msg = stored[h][j].msg
             /\ entries'[h][j].request = stored[h][j].request
             /\ stored[h][j].posted => entries'[h][j].posted
      BY <3>3, <3>5
    <3>7. EntriesCalm
      <4>1. ASSUME NEW h \in Guard, NEW j \in DOMAIN entries[h]
            PROVE  /\ entries'[h][j].msg = entries[h][j].msg
                   /\ entries'[h][j].request = entries[h][j].request
                   /\ entries[h][j].posted => entries'[h][j].posted
        <5>1. j \in DOMAIN stored[h]
          BY <1>6, <4>1
        <5> QED BY <1>6, <3>6, <4>1, <5>1
      <4>2. \A h \in Guard : DOMAIN entries'[h] = DOMAIN entries[h]
        BY <1>6, <3>5
      <4> QED BY <4>1, <4>2 DEF EntriesCalm
    <3>8. i \in DOMAIN stored[g] /\ g \in Guard
      BY <1>6, <2>1
    <3> QED BY <3>3, <3>5, <3>7, <3>8
  <2> QED BY <1>9, <2>2 DEF Started
<1>10. CASE \E i \in GetSign(g, e.msg, FALSE) :
               /\ entries' = [stored EXCEPT ![g][i].posted = TRUE]
               /\ Posting(g, i, req, ApprovedGuards(g, req, sigs))
               /\ Send([type |-> "start", from |-> g,
                        to |-> ApprovedGuards(g, req, sigs) \ {g},
                        req |-> req, sigs |-> sigs])
  <2>1. EntriesCalm /\ \E i \in GetSign(g, e.msg, FALSE) : Started(g, i, req, sigs)
    BY <1>9, <1>10
  <2> HIDE DEF sigs
  <2> QED BY <1>1, <1>2, <1>4, <2>1
<1> QED BY <1>7, <1>8, <1>10

LEMMA StartStep ==
    ASSUME TypeInv, NEW g \in Guard, HandleStart(g)
    PROVE  LET task == Head(lock[g])
           IN  /\ lock[g] # <<>> /\ task.kind = "start" /\ EntriesCalm
               /\ \/ Release(g) /\ UNCHANGED posts
                  \/ \E i \in Nat \ {0} : Posting(g, i, task.req, task.peers)
<1>1. lock[g] # <<>> /\ Head(lock[g]).kind = "start" /\ TypeOK
  BY DEF HandleStart, Holds, TypeInv
<1>2. CASE Release(g) /\ UNCHANGED <<entries, awaiting, posts>>
  BY <1>1, <1>2, EntriesStay
<1>3. ASSUME NEW i \in GetSign(g, Head(lock[g]).req.msg, FALSE),
             entries' = [entries EXCEPT ![g][i].posted = TRUE]
      PROVE  EntriesCalm /\ i \in Nat \ {0}
  <2>1. i \in DOMAIN entries[g] /\ i \in Nat \ {0} /\ entries[g][i] \in Entry
    BY <1>1 DEF GetSign, SignIn, TypeOK
  <2>2. PICK e \in Entry : /\ entries' = [entries EXCEPT ![g] = [@ EXCEPT ![i] = e]]
                          /\ e.request = entries[g][i].request
                          /\ e.msg = entries[g][i].msg /\ e.posted
    <3> DEFINE e == [entries[g][i] EXCEPT !.posted = TRUE]
    <3>1. entries' = [entries EXCEPT ![g] = [@ EXCEPT ![i] = e]] /\ e \in Entry
          /\ e.request = entries[g][i].request /\ e.msg = entries[g][i].msg /\ e.posted
      BY <1>1, <1>3, <2>1 DEF TypeOK, Entry
    <3> HIDE DEF e
    <3> QED BY <3>1
  <2> QED BY <1>1, <2>1, <2>2, EntryUpdate DEF TypeOK, EntriesCalm
<1> QED BY <1>1, <1>2, <1>3 DEF HandleStart

LEMMA QueueHandles ==
    ASSUME TypeInv, TypeInv', QueueInv, NEW g \in Guard, HandleApprove(g) \/ HandleStart(g)
    PROVE  QueueInv'
<1>1. SignsShrink
  BY StillCalm DEF HandleApprove, HandleStart
<1>2. CASE HandleApprove(g)
  <2> DEFINE id == Head(lock[g]).id
  <2>1. /\ lock[g] # <<>> /\ EntriesCalm
        /\ \/ Release(g)
           \/ \E req, sigs : \E i \in GetSign(g, entries[g][id].msg, FALSE) :
                 Started(g, i, req, sigs)
    BY <1>2, ApproveStep
  <2>2. LockCalm
    <3>1. CASE Release(g)
      BY <2>1, <3>1, CalmQueues
    <3>2. ASSUME NEW i \in GetSign(g, entries[g][id].msg, FALSE), NEW req, NEW sigs,
                 Started(g, i, req, sigs)
          PROVE  LockCalm
      <4>1. i \in Nat \ {0}
        BY <3>2 DEF GetSign, SignIn, TypeInv, TypeOK
      <4> QED BY <2>1, <3>2, <4>1, PostingCalm DEF Started
    <3> QED BY <2>1, <3>1, <3>2
  <2> QED BY <1>1, <2>1, <2>2, QueueCalm
<1>3. CASE HandleStart(g)
  <2>1. /\ lock[g] # <<>> /\ EntriesCalm
        /\ \/ Release(g)
           \/ \E i \in Nat \ {0} : \E req, peers : Posting(g, i, req, peers)
    BY <1>3, StartStep
  <2>2. LockCalm
    BY <2>1, CalmQueues, PostingCalm
  <2> QED BY <1>1, <2>1, <2>2, QueueCalm
<1> QED BY <1>2, <1>3

\* What AddSign does to the entries: they keep their place, and one without a request
\* comes last.
LEMMA AddStep ==
    ASSUME TypeInv, NEW g \in Guard, AddSign(g)
    PROVE  LET m == Head(lock[g]).msg
               n == Len(entries[g]) + 1
           IN  /\ lock[g] # <<>> /\ Head(lock[g]).kind = "add" /\ Release(g)
               /\ n \notin DOMAIN entries[g]
               /\ DOMAIN entries'[g] = DOMAIN entries[g] \cup {n}
               /\ entries'[g][n].msg = m /\ entries'[g][n].request = {}
               /\ \A i \in DOMAIN entries[g] : entries'[g][i] = entries[g][i]
               /\ signs'[g] = signs[g] \cup {n}
               /\ \A h \in Guard : h # g => entries'[h] = entries[h] /\ signs'[h] = signs[h]
<1> DEFINE m == Head(lock[g]).msg
           e == [msg |-> m, addedTime |-> now, posted |-> FALSE,
                 request |-> {}, sigs |-> {}, answer |-> "none"]
           es == Append(entries[g], e)
<1>1. lock[g] # <<>> /\ Head(lock[g]).kind = "add" /\ Release(g)
  BY DEF AddSign, Holds
<1>2. entries' = [entries EXCEPT ![g] = es] /\ signs' = [signs EXCEPT ![g] = @ \cup {Len(es)}]
  BY DEF AddSign
<1>3. e.msg = m /\ e.request = {} /\ entries[g] \in Seq(Entry) /\ m \in Msgs
  <2>1. LockOK
    BY DEF TypeInv, TypeOK, RefsOK, LockOK
  <2>2. Head(lock[g]) \in Task
    BY <1>1, <2>1, HeadRefs
  <2> QED BY <1>1, <2>2 DEF TypeInv, TypeOK, Task
<1>4. e \in Entry
  BY <1>3 DEF Entry, TypeInv, TypeOK
<1> HIDE DEF e
<1>5. PICK n \in Nat : n = Len(entries[g])
  BY <1>3, LenProperties
<1>6. /\ Len(es) = n + 1 /\ DOMAIN es = 1 .. n + 1 /\ DOMAIN entries[g] = 1 .. n
      /\ \A i \in 1 .. n : es[i] = entries[g][i]
      /\ es[n + 1] = e
  BY <1>3, <1>4, <1>5, AppendProperties, LenProperties
<1>7. /\ entries'[g] = es /\ signs'[g] = signs[g] \cup {n + 1}
      /\ \A h \in Guard : h # g => entries'[h] = entries[h] /\ signs'[h] = signs[h]
  BY <1>2, <1>6 DEF TypeInv, TypeOK
<1>8. 1 .. n + 1 = (1 .. n) \cup {n + 1} /\ n + 1 \notin 1 .. n
  BY <1>5
<1> HIDE DEF es, m
<1>9. entries'[g][n + 1].msg = m /\ entries'[g][n + 1].request = {}
  BY <1>3, <1>6, <1>7
<1> QED BY <1>1, <1>5, <1>6, <1>7, <1>8, <1>9 DEF m

LEMMA QueueAddSign ==
    ASSUME TypeInv, TypeInv', QueueInv, NEW g \in Guard, AddSign(g)
    PROVE  QueueInv'
<1>1. PICK m, n : /\ lock[g] # <<>> /\ Head(lock[g]).kind = "add" /\ Head(lock[g]).msg = m
                  /\ Release(g) /\ n \notin DOMAIN entries[g]
                  /\ entries'[g][n].msg = m /\ entries'[g][n].request = {}
                  /\ \A i \in DOMAIN entries[g] : entries'[g][i] = entries[g][i]
                  /\ signs'[g] = signs[g] \cup {n}
                  /\ \A h \in Guard : h # g => entries'[h] = entries[h] /\ signs'[h] = signs[h]
  BY AddStep
<1>2. lock[g] \in Seq(Task) /\ lock' \in [Guard -> Seq(Task)] /\ Len(lock[g]) \in Nat
  BY LenProperties DEF TypeInv, TypeOK
<1>3. Head(lock[g]) = lock[g][1] /\ 1 \in 1 .. Len(lock[g])
  BY <1>1, <1>2, TailTask
<1>4. \A h \in Guard : signs[h] \subseteq DOMAIN entries[h]
  BY DEF TypeInv, TypeOK
<1>5. ASSUME NEW h \in Guard, NEW t \in Task, NEW k \in 1 .. Len(lock[h]), lock[h][k] = t
      PROVE  Alone(h, t)'
  <2>1. Alone(h, t) /\ TaskRefs(h, t)
    BY <1>5 DEF QueueInv, TypeInv, RefsOK, LockRefs
  <2>2. CASE h # g
    BY <1>1, <2>1, <2>2 DEF Alone
  <2>3. CASE h = g /\ t.kind = "approve"
    <3>1. t.id \in DOMAIN entries[g]
      BY <2>1, <2>3 DEF TaskRefs, WithId
    <3>2. k # 1 /\ k \in Nat /\ 1 <= k
      BY <1>1, <1>3, <1>5, <2>3
    <3>3. 1 < k
      BY <3>2
    <3>4. InOrder(g, lock[g][1], lock[g][k])
      BY <1>3, <1>5, <2>3, <3>3 DEF QueueInv
    <3>5. entries[g][t.id].msg # m
      BY <1>1, <1>3, <1>5, <2>3, <3>4 DEF InOrder
    <3> QED BY <1>1, <1>4, <2>1, <2>3, <3>1, <3>5 DEF Alone
  <2>4. CASE h = g /\ t.kind # "approve"
    BY <1>1, <1>4, <2>1, <2>4 DEF Alone
  <2> QED BY <2>2, <2>3, <2>4
<1>6. ASSUME NEW h \in Guard, NEW s \in Task, NEW t \in Task,
             NEW j \in 1 .. Len(lock[h]), NEW k \in 1 .. Len(lock[h]),
             j < k, lock[h][j] = s, lock[h][k] = t
      PROVE  InOrder(h, s, t)'
  <2>1. InOrder(h, s, t) /\ TaskRefs(h, s) /\ TaskRefs(h, t)
    BY <1>6 DEF QueueInv, TypeInv, RefsOK, LockRefs
  <2>2. CASE h # g
    BY <1>1, <2>1, <2>2 DEF InOrder
  <2>3. CASE h = g
    BY <1>1, <2>1, <2>3 DEF InOrder, TaskRefs, WithId
  <2> QED BY <2>2, <2>3
<1>7. StayAlone /\ StayInOrder
  BY <1>5, <1>6 DEF StayAlone, StayInOrder
<1>8. LockCalm
  BY <1>1, CalmQueues
<1> QED BY <1>2, <1>7, <1>8, QueueMoves DEF LockCalm

\* What SetRequest does to the entries: one gets a request of its message.
LEMMA SetStep ==
    ASSUME TypeInv, NEW g \in Guard, SetRequest(g)
    PROVE  LET task == Head(lock[g])
           IN  /\ lock[g] # <<>> /\ task.kind = "request" /\ Release(g)
               /\ task.id \in DOMAIN entries[g] /\ task.ts \in Nat
               /\ \A h \in Guard :
                     /\ DOMAIN entries'[h] = DOMAIN entries[h]
                     /\ \A i \in DOMAIN entries[h] :
                           /\ entries'[h][i].msg = entries[h][i].msg
                           /\ entries'[h][i].posted = entries[h][i].posted
                           /\ ~(h = g /\ i = task.id) =>
                                 entries'[h][i].request = entries[h][i].request
               /\ \A r \in entries'[g][task.id].request :
                     r.ts = task.ts /\ r.msg = entries[g][task.id].msg
<1> DEFINE task == Head(lock[g])
           req == RequestOf(g, task.id, task.guards, task.ts)
           own == [by |-> g, req |-> req]
           e == [entries[g][task.id] EXCEPT !.request = {req}, !.sigs = {own}]
<1>1. LockOK /\ lock[g] # <<>> /\ task.kind = "request" /\ TypeOK /\ Release(g)
  BY DEF SetRequest, Holds, TypeInv, TypeOK, RefsOK, LockOK
<1>2. task.id \in DOMAIN entries[g] /\ task.ts \in Nat
  <2>1. task \in Task
    BY <1>1, HeadRefs
  <2> QED BY <1>1, <2>1, HeadRefs DEF TaskRefs, WithId, Task
<1>3. entries[g][task.id] \in Entry
  BY <1>1, <1>2 DEF TypeOK
<1>4. req.ts = task.ts /\ req.msg = entries[g][task.id].msg
  BY DEF RequestOf
<1>5. entries' = [entries EXCEPT ![g] = [@ EXCEPT ![task.id] = e]]
  BY <1>1, <1>2 DEF SetRequest, TypeOK
<1> HIDE DEF req, own
<1>6. /\ e.request = {req} /\ e.msg = entries[g][task.id].msg
      /\ e.posted = entries[g][task.id].posted
  BY <1>3 DEF Entry
<1> HIDE DEF e, task
<1>7. \A h \in Guard :
         /\ DOMAIN entries'[h] = DOMAIN entries[h]
         /\ \A j \in DOMAIN entries[h] :
               entries'[h][j] = IF h = g /\ j = task.id THEN e ELSE entries[h][j]
  BY <1>1, <1>2, <1>5 DEF TypeOK
<1>8. \A h \in Guard : \A i \in DOMAIN entries[h] :
         /\ entries'[h][i].msg = entries[h][i].msg
         /\ entries'[h][i].posted = entries[h][i].posted
         /\ ~(h = g /\ i = task.id) => entries'[h][i].request = entries[h][i].request
  BY <1>6, <1>7
<1>9. entries'[g][task.id] = e
  BY <1>2, <1>7
<1> QED BY <1>1, <1>2, <1>4, <1>6, <1>7, <1>8, <1>9 DEF task

LEMMA QueueSetRequest ==
    ASSUME TypeInv, TypeInv', QueueInv, NEW g \in Guard, SetRequest(g)
    PROVE  QueueInv'
<1>1. PICK id : /\ lock[g] # <<>> /\ Head(lock[g]).kind = "request"
                /\ Head(lock[g]).id = id /\ Release(g) /\ id \in DOMAIN entries[g]
                /\ \A h \in Guard :
                      /\ DOMAIN entries'[h] = DOMAIN entries[h]
                      /\ \A i \in DOMAIN entries[h] :
                            /\ entries'[h][i].msg = entries[h][i].msg
                            /\ ~(h = g /\ i = id) =>
                                  entries'[h][i].request = entries[h][i].request
  BY SetStep
<1>2. lock[g] \in Seq(Task) /\ lock' \in [Guard -> Seq(Task)] /\ Len(lock[g]) \in Nat
  BY LenProperties DEF TypeInv, TypeOK
<1>3. Head(lock[g]) = lock[g][1] /\ 1 \in 1 .. Len(lock[g])
  BY <1>1, <1>2, TailTask
<1>4. \A h \in Guard : signs[h] \subseteq DOMAIN entries[h] /\ signs'[h] = signs[h]
  BY DEF TypeInv, TypeOK, SetRequest
<1>5. ASSUME NEW h \in Guard, NEW t \in Task, NEW k \in 1 .. Len(lock[h]), lock[h][k] = t
      PROVE  Alone(h, t)'
  <2>1. Alone(h, t) /\ TaskRefs(h, t)
    BY <1>5 DEF QueueInv, TypeInv, RefsOK, LockRefs
  <2>2. CASE ~(h = g /\ t.kind = "add")
    BY <1>1, <1>4, <2>1, <2>2 DEF Alone, TaskRefs, WithId
  <2>3. CASE h = g /\ t.kind = "add"
    <3>1. k # 1 /\ k \in Nat /\ 1 <= k
      BY <1>1, <1>3, <1>5, <2>3
    <3>2. 1 < k
      BY <3>1
    <3>3. InOrder(g, lock[g][1], lock[g][k])
      BY <1>3, <1>5, <2>3, <3>2 DEF QueueInv
    <3>4. id \in signs[g] => entries[g][id].msg # t.msg
      BY <1>1, <1>3, <1>5, <2>3, <3>3 DEF InOrder
    <3> QED BY <1>1, <1>4, <2>1, <2>3, <3>4 DEF Alone
  <2> QED BY <2>2, <2>3
<1>6. ASSUME NEW h \in Guard, NEW s \in Task, NEW t \in Task,
             NEW j \in 1 .. Len(lock[h]), NEW k \in 1 .. Len(lock[h]),
             j < k, lock[h][j] = s, lock[h][k] = t
      PROVE  InOrder(h, s, t)'
  <2>1. InOrder(h, s, t) /\ TaskRefs(h, s) /\ TaskRefs(h, t)
    BY <1>6 DEF QueueInv, TypeInv, RefsOK, LockRefs
  <2> QED BY <1>1, <1>4, <2>1 DEF InOrder, TaskRefs, WithId
<1>7. StayAlone /\ StayInOrder
  BY <1>5, <1>6 DEF StayAlone, StayInOrder
<1>8. LockCalm
  BY <1>1, CalmQueues
<1> QED BY <1>2, <1>7, <1>8, QueueMoves DEF LockCalm

LEMMA QueueRestart ==
    ASSUME TypeInv, QueueInv, NEW g \in Guard, Restart(g)
    PROVE  QueueInv'
<1>1. /\ Len(lock'[g]) = 0
      /\ \A h \in Guard \ {g} : /\ entries'[h] = entries[h] /\ lock'[h] = lock[h]
                                /\ signs'[h] = signs[h]
  BY DEF Restart, TypeInv, TypeOK
<1>2. ASSUME NEW h \in Guard
      PROVE  /\ \A k \in 1 .. Len(lock'[h]) : Alone(h, lock[h][k])'
             /\ \A j, k \in 1 .. Len(lock'[h]) :
                   j < k => InOrder(h, lock[h][j], lock[h][k])'
  <2>1. CASE h = g
    BY <1>1, <2>1
  <2>2. CASE h # g
    <3>1. entries'[h] = entries[h] /\ lock'[h] = lock[h] /\ signs'[h] = signs[h]
      BY <1>1, <2>2
    <3>2. ASSUME NEW k \in 1 .. Len(lock'[h]) PROVE Alone(h, lock[h][k])'
      <4>1. Alone(h, lock[h][k])
        BY <3>1, <3>2 DEF QueueInv
      <4> QED BY <3>1, <4>1 DEF Alone
    <3>3. ASSUME NEW j \in 1 .. Len(lock'[h]), NEW k \in 1 .. Len(lock'[h]), j < k
          PROVE  InOrder(h, lock[h][j], lock[h][k])'
      <4>1. InOrder(h, lock[h][j], lock[h][k])
        BY <3>1, <3>3 DEF QueueInv
      <4> QED BY <3>1, <4>1 DEF InOrder
    <3> QED BY <3>2, <3>3
  <2> QED BY <2>1, <2>2
<1> QED BY <1>2 DEF QueueInv

LEMMA QueueNext ==
    ASSUME TypeInv, TypeInv', QueueInv, OneEntryPerMessage, [Next]_vars
    PROVE  QueueInv'
<1>1. CASE CalmStep
  BY <1>1, QueueCalm DEF CalmStep
<1>2. CASE UNCHANGED vars \/ Tick
  BY <1>1, <1>2, CalmTick
<1>3. ASSUME NEW g \in Guard, LocalStep(g) PROVE QueueInv'
  <2>1. CASE Cleanup(g) \/ UpdateTurn(g) \/ RemoveSign(g) \/ PostFailed(g)
    BY <1>1, <2>1, CalmUpdate, CalmRemove
  <2> QED BY <1>3, <2>1, QueueAddSign, QueueUpdateLoop, QueueSetRequest, QueueHandles
          DEF LocalStep
<1>4. ASSUME NEW g \in Guard, Event(g) PROVE QueueInv'
  <2>1. CASE UpdateStart(g)
    <3>1. EntriesCalm /\ SignsShrink /\ LockCalm
      BY <2>1, StillCalm DEF UpdateStart
    <3> QED BY <3>1, QueueCalm
  <2>2. CASE UpdateBegin(g) \/ PostAnswered(g) \/ \E m \in Msgs : ExpireCache(g, m)
    BY <1>1, <2>2, CalmUpdate, CalmEvents
  <2>3. CASE \E m \in net : \/ ReceiveRequest(g, m) \/ RegisterAnswered(g, m)
                           \/ ReceiveCached(g, m)
    BY <1>1, <2>3, CalmEvents
  <2>4. CASE \E m \in net : ReceiveApprove(g, m) \/ ReceiveStart(g, m)
    BY <2>4, QueueReceiveApprove, QueueReceiveStart
  <2>5. CASE (\E p \in awaiting[g] : ReceiveResult(g, p))
             \/ \E v \in verifying[g] : Verified(g, v)
    BY <1>1, <2>5, CalmEvents
  <2> QED BY <1>4, <2>1, <2>2, <2>3, <2>4, <2>5 DEF Event, OwnEvent
<1> QED BY <1>2, <1>3, <1>4, QueueSign, QueueRestart DEF Next

-----------------------------------------------------------------------------
(***************************************************************************)
(* Claims are not made twice                                               *)
(***************************************************************************)
NoNewClaims ==
    \A h \in Guard : \A i \in DOMAIN entries'[h] : \A ts \in Nat :
        Claims(h, i, ts)' => i \in DOMAIN entries[h] /\ Claims(h, i, ts)

\* An entry that stays keeps its message and its mark.
MarksStay ==
    \A h \in Guard : \A i \in DOMAIN entries[h] :
        i \in DOMAIN entries'[h] =>
            /\ entries'[h][i].msg = entries[h][i].msg
            /\ entries[h][i].posted => entries'[h][i].posted

OwnPostsStay == \A h \in Guard : OwnPosts(h)' = OwnPosts(h)

LEMMA PostTimes ==
    ASSUME TypeOK, NEW h \in Guard, NEW p \in OwnPosts(h)
    PROVE  p.req \in Request /\ p.req.ts \in Nat
BY DEF OwnPosts, TypeOK, Post, Request

LEMMA UniqueStays ==
    ASSUME TypeInv, ClaimInv, NoNewClaims, MarksStay
    PROVE  ClaimsUnique'
<1>1. ASSUME NEW h \in Guard, NEW i \in DOMAIN entries'[h], NEW j \in DOMAIN entries'[h],
             NEW ts \in Nat, Claims(h, i, ts)', Claims(h, j, ts)',
             entries'[h][i].msg = entries'[h][j].msg
      PROVE  i = j
  <2>1. /\ i \in DOMAIN entries[h] /\ Claims(h, i, ts)
        /\ j \in DOMAIN entries[h] /\ Claims(h, j, ts)
    BY <1>1 DEF NoNewClaims
  <2>2. entries[h][i].msg = entries[h][j].msg
    BY <1>1, <2>1 DEF MarksStay
  <2> QED BY <2>1, <2>2 DEF ClaimInv, ClaimsUnique
<1> QED BY <1>1 DEF ClaimsUnique

\* Who has a claim on what was posted before is still marked.
LEMMA MarkedStay ==
    ASSUME TypeInv, ClaimInv, NoNewClaims, MarksStay, NEW h \in Guard, NEW p \in OwnPosts(h),
           NEW i \in DOMAIN entries'[h], Claims(h, i, p.req.ts)',
           entries'[h][i].msg = p.req.msg
    PROVE  entries'[h][i].posted
<1>1. PICK ts \in Nat : ts = p.req.ts
  BY PostTimes DEF TypeInv
<1>2. Claims(h, i, ts)'
  BY <1>1
<1>3. i \in DOMAIN entries[h] /\ Claims(h, i, ts)
  BY <1>2 DEF NoNewClaims
<1>4. entries[h][i].posted
  BY <1>1, <1>3 DEF MarksStay, ClaimInv, ClaimsPosted
<1> QED BY <1>3, <1>4 DEF MarksStay

LEMMA RoundsStay ==
    ASSUME TypeInv, ClaimInv, NoNewClaims, TimeCalm, NEW h \in Guard
    PROVE  /\ lastRound'[h] <= Round(now)'
           /\ \A i \in DOMAIN entries'[h], ts \in Nat :
                 Claims(h, i, ts)' => ts <= now' /\ Round(ts) <= lastRound'[h]
           /\ \A p \in OwnPosts(h) : p.req.ts <= now' /\ Past(h, p.req.ts)'
<1>1. now \in Nat /\ now' \in Nat /\ now <= now' /\ lastRound[h] \in Nat
  BY DEF TypeInv, TypeOK, TimeCalm
<1>2. Round(now) <= Round(now') /\ Round(now) \in Nat /\ Round(now') \in Nat
  BY <1>1, RoundGrows
<1>3. \A t : Round(t)' = Round(t')
  BY DEF Round
<1>4. lastRound'[h] <= Round(now')
  BY <1>1, <1>2 DEF ClaimInv, ClaimsPast, TimeCalm
<1>5. ASSUME NEW i \in DOMAIN entries'[h], NEW ts \in Nat, Claims(h, i, ts)'
      PROVE  ts <= now' /\ Round(ts) <= lastRound'[h]
  <2>1. i \in DOMAIN entries[h] /\ Claims(h, i, ts)
    BY <1>5 DEF NoNewClaims
  <2>2. ts <= now /\ Round(ts) <= lastRound[h]
    BY <2>1 DEF ClaimInv, ClaimsPast
  <2> QED BY <1>1, <2>2 DEF TimeCalm
<1>6. ASSUME NEW p \in OwnPosts(h)
      PROVE  p.req.ts <= now' /\ Past(h, p.req.ts)'
  <2>1. PICK t \in Nat : t = p.req.ts
    BY PostTimes DEF TypeInv
  <2>2. t <= now /\ (t < now \/ Round(t) <= lastRound[h])
    BY <2>1 DEF ClaimInv, ClaimsPast, Past
  <2>3. t <= now' /\ (t < now' \/ Round(t) <= lastRound'[h])
    BY <1>1, <2>2 DEF TimeCalm
  <2> QED BY <2>1, <2>3 DEF Past, Round
<1> QED BY <1>3, <1>4, <1>5, <1>6

\* Steps that claim and post nothing for a request of the guard itself.
LEMMA ClaimsStay ==
    ASSUME TypeInv, ClaimInv, NoNewClaims, MarksStay, OwnPostsStay, TimeCalm, RequestsMatch'
    PROVE  ClaimInv'
<1>1. ClaimsPosted'
  <2>1. ASSUME NEW h \in Guard, NEW p \in OwnPosts(h)', NEW i \in DOMAIN entries'[h],
               Claims(h, i, p.req.ts)', entries'[h][i].msg = p.req.msg
        PROVE  entries'[h][i].posted
    <3>1. p \in OwnPosts(h)
      BY <2>1 DEF OwnPostsStay
    <3> QED BY <2>1, <3>1, MarkedStay
  <2> QED BY <2>1 DEF ClaimsPosted
<1>2. OwnUnique'
  BY DEF OwnPostsStay, ClaimInv, OwnUnique
<1>3. ClaimsPast'
  BY RoundsStay DEF ClaimsPast, OwnPostsStay, Round
<1> QED BY <1>1, <1>2, <1>3, UniqueStays DEF ClaimInv

\* What a claim can come from.
LEMMA ClaimSources ==
    ASSUME TypeInv, UpdCalm,
           \A h \in Guard : \A k \in 1 .. Len(lock'[h]) : lock'[h][k].kind = "request" =>
              \E j \in 1 .. Len(lock[h]) : lock'[h][k] = lock[h][j],
           \A h \in Guard : \A i \in DOMAIN entries'[h] :
              \/ i \in DOMAIN entries[h] /\ entries'[h][i].request = entries[h][i].request
              \/ entries'[h][i].request = {}
    PROVE  NoNewClaims
<1>1. ASSUME NEW h \in Guard, NEW i \in DOMAIN entries'[h], NEW ts \in Nat,
             Claims(h, i, ts)'
      PROVE  i \in DOMAIN entries[h] /\ Claims(h, i, ts)
  <2>1. CASE i \in upd'[h].todo /\ upd'[h].ts = ts
    <3>1. i \in upd[h].todo /\ upd[h].ts = ts
      BY <2>1 DEF UpdCalm
    <3> QED BY <3>1 DEF Claims, TypeInv, RefsOK
  <2>2. ASSUME NEW k \in 1 .. Len(lock'[h]), lock'[h][k].kind = "request",
               lock'[h][k].id = i, lock'[h][k].ts = ts
        PROVE  i \in DOMAIN entries[h] /\ Claims(h, i, ts)
    <3>1. PICK j \in 1 .. Len(lock[h]) : lock'[h][k] = lock[h][j]
      BY <2>2
    <3>2. TaskRefs(h, lock[h][j])
      BY DEF TypeInv, RefsOK, LockRefs
    <3> QED BY <2>2, <3>1, <3>2 DEF Claims, TaskRefs, WithId
  <2>3. CASE \E r \in entries'[h][i].request : r.ts = ts
    <3>1. i \in DOMAIN entries[h] /\ entries'[h][i].request = entries[h][i].request
      BY <2>3
    <3> QED BY <2>3, <3>1 DEF Claims
  <2> QED BY <1>1, <2>1, <2>2, <2>3 DEF Claims
<1> QED BY <1>1 DEF NoNewClaims

\* A request task of a calm queue waited before.
LEMMA CalmRequests ==
    ASSUME LockCalm
    PROVE  \A h \in Guard : \A k \in 1 .. Len(lock'[h]) : lock'[h][k].kind = "request" =>
              \E j \in 1 .. Len(lock[h]) : lock'[h][k] = lock[h][j]
BY CalmTasks DEF Plain

LEMMA NewTaskClaims ==
    ASSUME NEW g \in Guard, NEW t, t.kind # "request", OnlyNewTask(g, t)
    PROVE  \A h \in Guard : \A k \in 1 .. Len(lock'[h]) : lock'[h][k].kind = "request" =>
              \E j \in 1 .. Len(lock[h]) : lock'[h][k] = lock[h][j]
BY DEF OnlyNewTask

\* Steps on entries that claim, post and mark nothing.
LEMMA ClaimsCalm ==
    ASSUME TypeInv, ClaimInv, EntriesCalm, UpdCalm, TimeCalm, OwnPostsStay,
           \A h \in Guard : \A k \in 1 .. Len(lock'[h]) : lock'[h][k].kind = "request" =>
              \E j \in 1 .. Len(lock[h]) : lock'[h][k] = lock[h][j]
    PROVE  ClaimInv' /\ NoNewClaims
<1>1. NoNewClaims
  BY ClaimSources DEF EntriesCalm
<1>2. MarksStay
  BY DEF EntriesCalm, MarksStay
<1>3. RequestsMatch'
  BY DEF EntriesCalm, ClaimInv, RequestsMatch
<1> QED BY <1>1, <1>2, <1>3, ClaimsStay

LEMMA OwnPostsKept == ASSUME UNCHANGED posts PROVE OwnPostsStay
BY DEF OwnPostsStay, OwnPosts

LEMMA ClaimInit == ASSUME Init PROVE ClaimInv
<1>1. DOMAIN <<>> = {} /\ now \in Nat
  BY ConstantsAssumption DEF Init
<1>2. Round(now) \in Nat
  BY <1>1, TurnIsGuard
<1>3. \A g \in Guard : DOMAIN entries[g] = {} /\ OwnPosts(g) = {} /\ lastRound[g] = 0
  BY <1>1 DEF Init, OwnPosts
<1> QED BY <1>2, <1>3 DEF ClaimInv, RequestsMatch, ClaimsPast, ClaimsUnique, ClaimsPosted,
                         OwnUnique

LEMMA ClaimCalmStep == ASSUME TypeInv, ClaimInv, CalmStep PROVE ClaimInv'
BY ClaimsCalm, CalmRequests, OwnPostsKept DEF CalmStep

\* Tasks that enter the queue without a claim.
LEMMA ClaimNewTasks ==
    ASSUME TypeInv, ClaimInv, NEW g \in Guard,
           \/ \E m \in Msgs : Sign(g, m)
           \/ \E m \in net : ReceiveApprove(g, m) \/ ReceiveStart(g, m)
    PROVE  ClaimInv'
<1>1. UNCHANGED <<entries, upd, now, lastRound, posts>> /\ TypeOK
  BY DEF Sign, ReceiveApprove, ReceiveStart, TypeInv
<1>2. EntriesCalm /\ UpdCalm /\ TimeCalm /\ OwnPostsStay
  BY <1>1, StillCalm, OwnPostsKept
<1>3. CASE LockCalm
  BY <1>2, <1>3, ClaimsCalm, CalmRequests
<1>4. ASSUME NEW t \in Task, t.kind # "request", Acquire(g, t) PROVE ClaimInv'
  BY <1>1, <1>2, <1>4, AcquireTasks, NewTaskClaims, ClaimsCalm
<1>5. ASSUME NEW m \in Msgs, Sign(g, m) PROVE ClaimInv'
  <2>1. CASE UNCHANGED lock
    BY <1>3, <2>1, StillCalm
  <2>2. CASE Acquire(g, [kind |-> "add", msg |-> m])
    <3>1. PICK t \in Task : t.kind = "add" /\ Acquire(g, t)
      BY <2>2 DEF Task
    <3> QED BY <1>4, <3>1
  <2> QED BY <1>5, <2>1, <2>2 DEF Sign
<1>6. ASSUME NEW m \in net, ReceiveApprove(g, m) PROVE ClaimInv'
  <2>1. PICK i \in GetSign(g, m.req.msg, FALSE), a \in m.sigs :
           Acquire(g, [kind |-> "approve", id |-> i, sig |-> a])
    BY <1>6 DEF ReceiveApprove
  <2>2. i \in Nat \ {0} /\ a \in Approval
    BY <1>1 DEF GetSign, SignIn, TypeOK, Message
  <2>3. PICK t \in Task : t.kind = "approve" /\ Acquire(g, t)
    BY <2>1, <2>2 DEF Task
  <2> QED BY <1>4, <2>3
<1>7. ASSUME NEW m \in net, ReceiveStart(g, m) PROVE ClaimInv'
  <2>1. \E t \in Task : t.kind = "start" /\ Acquire(g, t)
    BY <1>7, StartTask
  <2> QED BY <1>4, <2>1
<1> QED BY <1>5, <1>6, <1>7

LEMMA ClaimAddSign ==
    ASSUME TypeInv, ClaimInv, NEW g \in Guard, AddSign(g)
    PROVE  ClaimInv'
<1>1. UNCHANGED <<upd, now, lastRound, posts>>
  BY DEF AddSign
<1>2. UpdCalm /\ TimeCalm /\ OwnPostsStay
  BY <1>1, StillCalm, OwnPostsKept
<1>3. PICK n : /\ lock[g] # <<>> /\ Release(g)
               /\ DOMAIN entries'[g] = DOMAIN entries[g] \cup {n}
               /\ n \notin DOMAIN entries[g] /\ entries'[g][n].request = {}
               /\ \A i \in DOMAIN entries[g] : entries'[g][i] = entries[g][i]
               /\ \A h \in Guard : h # g => entries'[h] = entries[h]
  BY AddStep
<1>4. \A h \in Guard : \A i \in DOMAIN entries'[h] :
         \/ i \in DOMAIN entries[h] /\ entries'[h][i] = entries[h][i]
         \/ entries'[h][i].request = {}
  BY <1>3
<1>5. NoNewClaims
  BY <1>2, <1>3, <1>4, ClaimSources, CalmQueues, CalmRequests
<1>6. MarksStay
  BY <1>3 DEF MarksStay
<1>7. RequestsMatch'
  BY <1>4 DEF ClaimInv, RequestsMatch
<1> QED BY <1>2, <1>5, <1>6, <1>7, ClaimsStay

LEMMA ClaimSetRequest ==
    ASSUME TypeInv, ClaimInv, NEW g \in Guard, SetRequest(g)
    PROVE  ClaimInv'
<1>1. UNCHANGED <<now, lastRound, posts>> /\ upd' = [upd EXCEPT ![g].pc = "loop"]
  BY DEF SetRequest
<1>2. UpdCalm /\ TimeCalm /\ OwnPostsStay
  BY <1>1, StillCalm, OwnPostsKept, CalmMark DEF TypeInv
<1>3. PICK id, t : /\ lock[g] # <<>> /\ Head(lock[g]).kind = "request"
                   /\ Head(lock[g]).id = id /\ Head(lock[g]).ts = t /\ Release(g)
                   /\ id \in DOMAIN entries[g]
                   /\ \A h \in Guard :
                         /\ DOMAIN entries'[h] = DOMAIN entries[h]
                         /\ \A i \in DOMAIN entries[h] :
                               /\ entries'[h][i].msg = entries[h][i].msg
                               /\ entries'[h][i].posted = entries[h][i].posted
                               /\ ~(h = g /\ i = id) =>
                                     entries'[h][i].request = entries[h][i].request
                   /\ \A r \in entries'[g][id].request : r.ts = t /\ r.msg = entries[g][id].msg
  BY SetStep
<1>4. Head(lock[g]) = lock[g][1] /\ 1 \in 1 .. Len(lock[g])
  BY <1>3, TailTask DEF TypeInv, TypeOK
<1>5. Claims(g, id, t)
  BY <1>3, <1>4 DEF Claims
<1>6. \A h \in Guard : \A k \in 1 .. Len(lock'[h]) : lock'[h][k].kind = "request" =>
         \E j \in 1 .. Len(lock[h]) : lock'[h][k] = lock[h][j]
  BY <1>3, CalmQueues, CalmRequests
<1>7. ASSUME NEW h \in Guard, NEW i \in DOMAIN entries'[h], NEW ts \in Nat,
             Claims(h, i, ts)'
      PROVE  i \in DOMAIN entries[h] /\ Claims(h, i, ts)
  <2>1. i \in DOMAIN entries[h]
    BY <1>3, <1>7
  <2>2. CASE i \in upd'[h].todo /\ upd'[h].ts = ts
    BY <1>2, <2>1, <2>2 DEF UpdCalm, Claims
  <2>3. ASSUME NEW k \in 1 .. Len(lock'[h]), lock'[h][k].kind = "request",
               lock'[h][k].id = i, lock'[h][k].ts = ts
        PROVE  Claims(h, i, ts)
    BY <1>6, <2>3 DEF Claims
  <2>4. CASE \E r \in entries'[h][i].request : r.ts = ts
    <3>1. CASE h = g /\ i = id
      BY <1>3, <1>5, <2>4, <3>1
    <3>2. CASE ~(h = g /\ i = id)
      BY <1>3, <2>1, <2>4, <3>2 DEF Claims
    <3> QED BY <3>1, <3>2
  <2> QED BY <1>7, <2>1, <2>2, <2>3, <2>4 DEF Claims
<1>8. NoNewClaims
  BY <1>7 DEF NoNewClaims
<1>9. MarksStay
  BY <1>3 DEF MarksStay
<1>10. RequestsMatch'
  <2>1. ASSUME NEW h \in Guard, NEW i \in DOMAIN entries'[h], NEW r \in entries'[h][i].request
        PROVE  r.msg = entries'[h][i].msg
    <3>1. CASE h = g /\ i = id
      BY <1>3, <2>1, <3>1
    <3>2. CASE ~(h = g /\ i = id)
      BY <1>3, <2>1, <3>2 DEF ClaimInv, RequestsMatch
    <3> QED BY <3>1, <3>2
  <2> QED BY <2>1 DEF RequestsMatch
<1> QED BY <1>2, <1>8, <1>9, <1>10, ClaimsStay

LEMMA ClaimUpdateLoop ==
    ASSUME TypeInv, ClaimInv, NEW g \in Guard, UpdateLoop(g)
    PROVE  ClaimInv'
<1>1. UNCHANGED <<entries, now, lastRound, posts>> /\ upd[g] \in Update /\ TypeOK
  BY DEF UpdateLoop, TypeInv, TypeOK
<1>2. EntriesCalm /\ TimeCalm /\ OwnPostsStay
  BY <1>1, StillCalm, OwnPostsKept
<1>3. UpdCalm
  <2>1. CASE upd' = [upd EXCEPT ![g] = Idle]
    BY <1>1, <2>1, CalmMark
  <2>2. ASSUME NEW u, upd' = [upd EXCEPT ![g] = u], u.todo \subseteq upd[g].todo,
               u.ts = upd[g].ts
        PROVE  UpdCalm
    BY <1>1, <2>2 DEF TypeOK, UpdCalm
  <2>3. ASSUME NEW i, NEW pc, upd' = [upd EXCEPT ![g].pc = pc, ![g].todo = @ \ {i}]
        PROVE  UpdCalm
    <3> DEFINE u == [upd[g] EXCEPT !.pc = pc, !.todo = @ \ {i}]
    <3>1. u.todo \subseteq upd[g].todo /\ u.ts = upd[g].ts
      BY <1>1 DEF Update
    <3>2. upd' = [upd EXCEPT ![g] = u]
      BY <1>1, <2>3 DEF TypeOK
    <3> HIDE DEF u
    <3> QED BY <2>2, <3>1, <3>2
  <2>4. ASSUME NEW i, upd' = [upd EXCEPT ![g].todo = @ \ {i}]
        PROVE  UpdCalm
    <3> DEFINE u == [upd[g] EXCEPT !.todo = @ \ {i}]
    <3>1. u.todo \subseteq upd[g].todo /\ u.ts = upd[g].ts
      BY <1>1 DEF Update
    <3>2. upd' = [upd EXCEPT ![g] = u]
      BY <1>1, <2>4 DEF TypeOK
    <3> HIDE DEF u
    <3> QED BY <2>2, <3>1, <3>2
  <2> QED BY <2>1, <2>3, <2>4 DEF UpdateLoop
<1>4. CASE UNCHANGED lock
  BY <1>2, <1>3, <1>4, StillCalm, ClaimsCalm, CalmRequests
<1>5. ASSUME NEW c \in upd[g].todo,
             Acquire(g, [kind |-> "request", id |-> c, guards |-> upd[g].guards,
                         ts |-> upd[g].ts])
      PROVE  ClaimInv'
  <2>1. c \in Nat \ {0} /\ upd[g].guards \in SUBSET Guard /\ upd[g].ts \in Nat
    BY <1>1 DEF Update
  <2>2. PICK t \in Task : t.kind = "request" /\ t.id = c /\ t.ts = upd[g].ts /\ Acquire(g, t)
    BY <1>5, <2>1 DEF Task
  <2>3. OnlyNewTask(g, t)
    BY <1>1, <2>2, AcquireTasks
  <2>4. ASSUME NEW h \in Guard, NEW i \in DOMAIN entries'[h], NEW ts \in Nat,
               Claims(h, i, ts)'
        PROVE  i \in DOMAIN entries[h] /\ Claims(h, i, ts)
    <3>1. i \in DOMAIN entries[h]
      BY <1>1, <2>4
    <3>2. CASE i \in upd'[h].todo /\ upd'[h].ts = ts
      BY <1>3, <3>1, <3>2 DEF UpdCalm, Claims
    <3>3. ASSUME NEW k \in 1 .. Len(lock'[h]), lock'[h][k].kind = "request",
                 lock'[h][k].id = i, lock'[h][k].ts = ts
          PROVE  Claims(h, i, ts)
      <4>1. CASE h = g /\ lock'[h][k] = t
        BY <1>5, <2>2, <3>3, <4>1 DEF Claims
      <4>2. CASE \E j \in 1 .. Len(lock[h]) : lock'[h][k] = lock[h][j]
        BY <3>3, <4>2 DEF Claims
      <4> QED BY <2>3, <3>3, <4>1, <4>2 DEF OnlyNewTask
    <3>4. CASE \E r \in entries'[h][i].request : r.ts = ts
      BY <1>1, <3>4 DEF Claims
    <3> QED BY <2>4, <3>1, <3>2, <3>3, <3>4 DEF Claims
  <2>5. NoNewClaims
    BY <2>4 DEF NoNewClaims
  <2>6. MarksStay /\ RequestsMatch'
    BY <1>1 DEF MarksStay, ClaimInv, RequestsMatch
  <2> QED BY <1>2, <2>5, <2>6, ClaimsStay
<1> QED BY <1>4, <1>5 DEF UpdateLoop

\* A new run of update() claims its own time, which nothing has claimed before.
LEMMA ClaimUpdateStart ==
    ASSUME TypeInv, ClaimInv, OneEntryPerMessage, NEW g \in Guard, UpdateStart(g)
    PROVE  ClaimInv'
<1>1. UNCHANGED <<entries, signs, lock, now, posts>> /\ TypeOK /\ now \in Nat
  BY DEF UpdateStart, TypeInv, TypeOK
<1>2. EntriesCalm /\ OwnPostsStay /\ LockCalm
  BY <1>1, StillCalm, OwnPostsKept
<1>3. CASE upd' = [upd EXCEPT ![g] = Idle] /\ UNCHANGED lastRound
  <2>1. UpdCalm /\ TimeCalm
    BY <1>1, <1>3, CalmMark, StillCalm
  <2> QED BY <1>2, <2>1, ClaimsCalm, CalmRequests
<1>4. ASSUME NEW active \in SUBSET Guard, NewRound(g),
             lastRound' = [lastRound EXCEPT ![g] = Round(now)],
             upd' = [upd EXCEPT ![g] =
                       [pc |-> "loop", guards |-> active, ts |-> now,
                        todo |-> Firsts(signs[g], SignPerRound)]]
      PROVE  ClaimInv'
  <2>1. PICK r \in Nat : r = Round(now)
    BY <1>1, TurnIsGuard
  <2>2. PICK u : /\ u.ts = now /\ u.todo \subseteq signs[g] /\ upd' = [upd EXCEPT ![g] = u]
    BY <1>4 DEF Firsts
  <2>3. /\ upd'[g] = u /\ lastRound'[g] = r
        /\ \A h \in Guard : h # g => upd'[h] = upd[h] /\ lastRound'[h] = lastRound[h]
    BY <1>1, <1>4, <2>1, <2>2 DEF TypeOK
  <2>4. lastRound[g] \in Nat /\ lastRound[g] < r
    BY <1>1, <1>4, <2>1 DEF TypeOK, ClaimInv, ClaimsPast, NewRound
  <2>5. \A t \in Nat : Round(t) \in Nat /\ (t <= now => Round(t) <= r)
    BY <1>1, <2>1, RoundGrows, TurnIsGuard
  <2>6. ASSUME NEW h \in Guard, NEW i \in DOMAIN entries[h], NEW ts \in Nat, Claims(h, i, ts)'
        PROVE  Claims(h, i, ts) \/ (h = g /\ i \in signs[g] /\ ts = now)
    <3>1. CASE h = g
      BY <1>1, <2>2, <2>3, <2>6, <3>1 DEF Claims
    <3>2. CASE h # g
      BY <1>1, <2>3, <2>6, <3>2 DEF Claims
    <3> QED BY <3>1, <3>2
  <2>7. ASSUME NEW i \in DOMAIN entries[g], Claims(g, i, now)
        PROVE  FALSE
    <3>1. Round(now) <= lastRound[g]
      BY <1>1, <2>7 DEF ClaimInv, ClaimsPast
    <3> QED BY <2>1, <2>4, <3>1
  <2>8. ASSUME NEW h \in Guard, NEW i \in DOMAIN entries[h], NEW j \in DOMAIN entries[h],
               NEW ts \in Nat, Claims(h, i, ts)', Claims(h, j, ts)',
               entries[h][i].msg = entries[h][j].msg
        PROVE  i = j
    <3>1. CASE Claims(h, i, ts) /\ Claims(h, j, ts)
      BY <2>8, <3>1 DEF ClaimInv, ClaimsUnique
    <3>2. CASE h = g /\ i \in signs[g] /\ ts = now
      <4>1. j \in signs[g]
        BY <2>6, <2>7, <2>8, <3>2
      <4> QED BY <2>8, <3>2, <4>1 DEF OneEntryPerMessage
    <3>3. CASE h = g /\ j \in signs[g] /\ ts = now
      <4>1. i \in signs[g]
        BY <2>6, <2>7, <2>8, <3>3
      <4> QED BY <2>8, <3>3, <4>1 DEF OneEntryPerMessage
    <3> QED BY <2>6, <2>8, <3>1, <3>2, <3>3
  <2>9. ClaimsUnique'
    BY <1>1, <2>8 DEF ClaimsUnique
  <2>10. ASSUME NEW h \in Guard, NEW p \in OwnPosts(h), NEW i \in DOMAIN entries[h],
                Claims(h, i, p.req.ts)', entries[h][i].msg = p.req.msg
         PROVE  entries[h][i].posted
    <3>1. PICK ts \in Nat : ts = p.req.ts
      BY <1>1, PostTimes
    <3>2. Claims(h, i, ts)'
      BY <2>10, <3>1
    <3>3. CASE Claims(h, i, ts)
      BY <2>10, <3>1, <3>3 DEF ClaimInv, ClaimsPosted
    <3>4. CASE h = g /\ ts = now
      <4>1. ts < now \/ Round(ts) <= lastRound[g]
        BY <3>1, <3>4 DEF ClaimInv, ClaimsPast, Past
      <4> QED BY <1>1, <2>1, <2>4, <3>4, <4>1
    <3> QED BY <2>6, <3>2, <3>3, <3>4
  <2>11. ClaimsPosted'
    BY <1>1, <1>2, <2>10 DEF ClaimsPosted, OwnPostsStay
  <2>12. \A h \in Guard : lastRound[h] \in Nat /\ lastRound[h] <= lastRound'[h]
    <3>1. ASSUME NEW h \in Guard PROVE lastRound[h] \in Nat /\ lastRound[h] <= lastRound'[h]
      <4>1. CASE h = g
        BY <2>1, <2>3, <2>4, <4>1
      <4>2. CASE h # g
        BY <1>1, <2>3, <4>2 DEF TypeOK
      <4> QED BY <4>1, <4>2
    <3> QED BY <3>1
  <2>13. ASSUME NEW h \in Guard
         PROVE  /\ lastRound'[h] <= r
                /\ \A i \in DOMAIN entries[h], ts \in Nat :
                      Claims(h, i, ts)' => ts <= now /\ Round(ts) <= lastRound'[h]
                /\ \A p \in OwnPosts(h) :
                      p.req.ts <= now /\ (p.req.ts < now \/ Round(p.req.ts) <= lastRound'[h])
    <3>1. lastRound'[h] <= r
      BY <2>1, <2>3 DEF ClaimInv, ClaimsPast
    <3>2. ASSUME NEW i \in DOMAIN entries[h], NEW ts \in Nat, Claims(h, i, ts)'
          PROVE  ts <= now /\ Round(ts) <= lastRound'[h]
      <4>1. CASE Claims(h, i, ts)
        <5>1. ts <= now /\ Round(ts) <= lastRound[h]
          BY <4>1 DEF ClaimInv, ClaimsPast
        <5> QED BY <2>3, <2>5, <2>12, <5>1
      <4>2. CASE h = g /\ ts = now
        BY <1>1, <2>1, <2>3, <4>2
      <4> QED BY <2>6, <3>2, <4>1, <4>2
    <3>3. ASSUME NEW p \in OwnPosts(h)
          PROVE  p.req.ts <= now /\ (p.req.ts < now \/ Round(p.req.ts) <= lastRound'[h])
      <4>1. PICK ts \in Nat : ts = p.req.ts
        BY <1>1, PostTimes
      <4>2. ts <= now /\ (ts < now \/ Round(ts) <= lastRound[h])
        BY <4>1 DEF ClaimInv, ClaimsPast, Past
      <4>3. ts < now \/ Round(ts) <= lastRound'[h]
        BY <2>3, <2>5, <2>12, <4>2
      <4> QED BY <4>1, <4>2, <4>3
    <3> QED BY <3>1, <3>2, <3>3
  <2>14. ClaimsPast'
    BY <1>1, <1>2, <2>1, <2>13 DEF ClaimsPast, OwnPostsStay, Past, Round
  <2>15. RequestsMatch' /\ OwnUnique'
    BY <1>1, <1>2 DEF ClaimInv, RequestsMatch, OwnUnique, OwnPostsStay
  <2> QED BY <2>9, <2>11, <2>14, <2>15 DEF ClaimInv
<1> QED BY <1>3, <1>4 DEF UpdateStart

\* What a guard is told to start it posts for a request of another.
LEMMA ClaimHandleStart ==
    ASSUME TypeInv, ClaimInv, TasksCoordinated, NEW g \in Guard, HandleStart(g)
    PROVE  ClaimInv'
<1>1. UpdCalm /\ TimeCalm
  BY StillCalm DEF HandleStart
<1>2. PICK req, peers :
         /\ lock[g] # <<>> /\ Head(lock[g]).kind = "start" /\ Head(lock[g]).req = req
         /\ EntriesCalm
         /\ \/ Release(g) /\ UNCHANGED posts
            \/ \E i \in Nat \ {0} : Posting(g, i, req, peers)
  BY StartStep
<1>3. CASE Release(g) /\ UNCHANGED posts
  BY <1>1, <1>2, <1>3, CalmQueues, CalmRequests, OwnPostsKept, ClaimsCalm
<1>4. ASSUME NEW i \in Nat \ {0}, Posting(g, i, req, peers) PROVE ClaimInv'
  <2>1. req.init # g
    <3>1. Head(lock[g]) = lock[g][1] /\ 1 \in 1 .. Len(lock[g])
      BY <1>2, TailTask DEF TypeInv, TypeOK
    <3> QED BY <1>2, <3>1 DEF TasksCoordinated
  <2>2. OwnPostsStay
    <3> DEFINE p == [by |-> g, req |-> req, peers |-> peers]
    <3>1. posts' = posts \cup {p} /\ p.by = g /\ p.req = req
      BY <1>4 DEF Posting
    <3> HIDE DEF p
    <3> QED BY <2>1, <3>1 DEF OwnPostsStay, OwnPosts
  <2> QED BY <1>1, <1>2, <1>4, <2>2, PostingCalm, CalmRequests, ClaimsCalm
<1> QED BY <1>2, <1>3, <1>4

\* The coordinator posts a request once: whoever claims it is marked then.
LEMMA ClaimHandleApprove ==
    ASSUME TypeInv, PartyInv, QueueInv, ClaimInv, NEW g \in Guard, HandleApprove(g)
    PROVE  ClaimInv'
<1>1. UpdCalm /\ TimeCalm /\ UNCHANGED <<now, lastRound>>
  BY StillCalm DEF HandleApprove
<1>2. PICK id, req, sigs :
         /\ lock[g] # <<>> /\ Head(lock[g]).kind = "approve" /\ Head(lock[g]).id = id
         /\ id \in DOMAIN entries[g] /\ EntriesCalm /\ req \in entries[g][id].request
         /\ \/ Release(g) /\ UNCHANGED <<net, posts>>
            \/ \E i \in GetSign(g, entries[g][id].msg, FALSE) : Started(g, i, req, sigs)
  BY ApproveStep
<1>3. CASE Release(g) /\ UNCHANGED <<net, posts>>
  BY <1>1, <1>2, <1>3, CalmQueues, CalmRequests, OwnPostsKept, ClaimsCalm
<1>4. ASSUME NEW i \in GetSign(g, entries[g][id].msg, FALSE), Started(g, i, req, sigs)
      PROVE  ClaimInv'
  <2>1. i \in signs[g] /\ entries[g][i].msg = entries[g][id].msg /\ ~entries[g][i].posted
        /\ i \in Nat \ {0}
    BY DEF GetSign, SignIn, TypeInv, TypeOK
  <2>2. Head(lock[g]) = lock[g][1] /\ 1 \in 1 .. Len(lock[g])
    BY <1>2, TailTask DEF TypeInv, TypeOK
  <2>3. i = id
    <3>1. Alone(g, lock[g][1])
      BY <2>2 DEF QueueInv
    <3> QED BY <1>2, <2>1, <2>2, <3>1 DEF Alone
  <2>4. PICK p : /\ p = [by |-> g, req |-> req, peers |-> ApprovedGuards(g, req, sigs)]
                 /\ posts' = posts \cup {p} /\ p.by = g /\ p.req = req
    <3> DEFINE pp == [by |-> g, req |-> req, peers |-> ApprovedGuards(g, req, sigs)]
    <3>1. posts' = posts \cup {pp}
      BY <1>4 DEF Started, Posting
    <3>2. pp.by = g /\ pp.req = req
      OBVIOUS
    <3>3. pp = [by |-> g, req |-> req, peers |-> ApprovedGuards(g, req, sigs)]
      OBVIOUS
    <3> HIDE DEF pp
    <3> QED BY <3>1, <3>2, <3>3
  <2>5. NoNewClaims
    <3>1. LockCalm
      BY <1>2, <1>4, <2>1, PostingCalm DEF Started
    <3> QED BY <1>1, <1>2, <3>1, CalmRequests, ClaimSources DEF EntriesCalm
  <2>6. MarksStay /\ RequestsMatch' /\ entries'[g][id].posted
    BY <1>2, <1>4, <2>3 DEF EntriesCalm, MarksStay, ClaimInv, RequestsMatch, Started
  <2>7. req.msg = entries[g][id].msg /\ req.init = g
    <3>1. req.msg = entries[g][id].msg
      BY <1>2 DEF ClaimInv, RequestsMatch
    <3>2. EntryParty(g, entries[g][id])
      BY <1>2 DEF PartyInv, EntriesParty
    <3> QED BY <1>2, <3>1, <3>2 DEF EntryParty
  <2>8. PICK ts \in Nat : ts = req.ts
    <3>1. entries[g][id] \in Entry
      BY <1>2 DEF TypeInv, TypeOK
    <3>2. req \in Request
      BY <1>2, <3>1 DEF Entry
    <3> QED BY <3>2 DEF Request
  <2>9. Claims(g, id, ts)
    BY <1>2, <2>8 DEF Claims
  <2>10. \A h \in Guard : OwnPosts(h)' = OwnPosts(h) \cup {q \in {p} : h = g}
    BY <2>4, <2>7 DEF OwnPosts
  <2>11. \A q \in OwnPosts(g) : q.req # req
    <3>1. ASSUME NEW q \in OwnPosts(g), q.req = req PROVE FALSE
      BY <1>2, <2>1, <2>3, <2>7, <2>8, <2>9, <3>1 DEF ClaimInv, ClaimsPosted
    <3> QED BY <3>1
  <2>12. ClaimsPosted'
    <3>1. ASSUME NEW h \in Guard, NEW q \in OwnPosts(h)', NEW j \in DOMAIN entries'[h],
                 Claims(h, j, q.req.ts)', entries'[h][j].msg = q.req.msg
          PROVE  entries'[h][j].posted
      <4>1. CASE q \in OwnPosts(h)
        BY <2>5, <2>6, <3>1, <4>1, MarkedStay
      <4>2. CASE h = g /\ q = p
        <5>1. Claims(g, j, ts)'
          BY <2>4, <2>8, <3>1, <4>2
        <5>2. j \in DOMAIN entries[g] /\ Claims(g, j, ts)
          BY <1>2, <2>5, <3>1, <4>2, <5>1 DEF NoNewClaims, EntriesCalm
        <5>3. entries[g][j].msg = entries[g][id].msg
          BY <1>2, <2>4, <2>7, <3>1, <4>2, <5>2 DEF EntriesCalm
        <5>4. j = id
          BY <1>2, <2>9, <5>2, <5>3 DEF ClaimInv, ClaimsUnique
        <5> QED BY <2>6, <4>2, <5>4
      <4> QED BY <2>10, <3>1, <4>1, <4>2
    <3> QED BY <3>1 DEF ClaimsPosted
  <2>13. ClaimsPast'
    <3>1. /\ p.req.ts <= now' /\ Past(g, p.req.ts)'
      <4>1. ts <= now /\ Round(ts) <= lastRound[g]
        BY <1>2, <2>9 DEF ClaimInv, ClaimsPast
      <4> QED BY <1>1, <2>4, <2>8, <4>1 DEF Past, Round
    <3> QED BY <1>1, <2>5, <2>10, <3>1, RoundsStay DEF ClaimsPast
  <2>14. OwnUnique'
    BY <2>4, <2>10, <2>11 DEF ClaimInv, OwnUnique
  <2> QED BY <2>5, <2>6, <2>12, <2>13, <2>14, UniqueStays DEF ClaimInv
<1> QED BY <1>2, <1>3, <1>4

LEMMA ClaimRestart ==
    ASSUME TypeInv, ClaimInv, NEW g \in Guard, Restart(g)
    PROVE  ClaimInv'
<1>1. /\ DOMAIN entries'[g] = {} /\ Len(lock'[g]) = 0 /\ upd'[g].todo = {} /\ lastRound'[g] = 0
      /\ \A h \in Guard : h # g => /\ entries'[h] = entries[h] /\ lock'[h] = lock[h]
                                   /\ upd'[h] = upd[h] /\ lastRound'[h] = lastRound[h]
      /\ UNCHANGED posts /\ now' = now + 1 /\ now \in Nat
  BY IdleType DEF Restart, TypeInv, TypeOK
<1>2. OwnPostsStay
  BY <1>1, OwnPostsKept
<1>3. ASSUME NEW h \in Guard, NEW i \in DOMAIN entries'[h], NEW ts \in Nat, Claims(h, i, ts)'
      PROVE  h # g /\ i \in DOMAIN entries[h] /\ Claims(h, i, ts)
  BY <1>1, <1>3 DEF Claims
<1>4. NoNewClaims
  BY <1>3 DEF NoNewClaims
<1>5. MarksStay /\ RequestsMatch'
  BY <1>1 DEF MarksStay, ClaimInv, RequestsMatch
<1>6. /\ Round(now) <= Round(now') /\ Round(now) \in Nat /\ Round(now') \in Nat
      /\ now <= now' /\ now' \in Nat
  <2>1. now <= now' /\ now' \in Nat
    BY <1>1
  <2> QED BY <1>1, <2>1, RoundGrows
<1>7. \A h \in Guard : lastRound[h] \in Nat
  BY DEF TypeInv, TypeOK
<1>8. ASSUME NEW h \in Guard
      PROVE  /\ lastRound'[h] <= Round(now')
             /\ \A i \in DOMAIN entries'[h], ts \in Nat :
                   Claims(h, i, ts)' => ts <= now' /\ Round(ts) <= lastRound'[h]
             /\ \A p \in OwnPosts(h) : p.req.ts <= now' /\ p.req.ts < now'
  <2>1. lastRound'[h] <= Round(now')
    <3>1. CASE h = g
      BY <1>1, <1>6, <3>1
    <3>2. CASE h # g
      BY <1>1, <1>6, <1>7, <3>2 DEF ClaimInv, ClaimsPast
    <3> QED BY <3>1, <3>2
  <2>2. ASSUME NEW i \in DOMAIN entries'[h], NEW ts \in Nat, Claims(h, i, ts)'
        PROVE  ts <= now' /\ Round(ts) <= lastRound'[h]
    <3>1. h # g /\ i \in DOMAIN entries[h] /\ Claims(h, i, ts)
      BY <1>3, <2>2
    <3>2. ts <= now /\ Round(ts) <= lastRound[h]
      BY <3>1 DEF ClaimInv, ClaimsPast
    <3> QED BY <1>1, <3>1, <3>2
  <2>3. ASSUME NEW p \in OwnPosts(h) PROVE p.req.ts <= now' /\ p.req.ts < now'
    <3>1. PICK ts \in Nat : ts = p.req.ts
      BY PostTimes DEF TypeInv
    <3>2. ts <= now
      BY <3>1 DEF ClaimInv, ClaimsPast
    <3>3. ts <= now' /\ ts < now'
      BY <1>1, <3>2
    <3> QED BY <3>1, <3>3
  <2> QED BY <2>1, <2>2, <2>3
<1>9. ClaimsPast'
  BY <1>2, <1>8 DEF ClaimsPast, OwnPostsStay, Past, Round
<1>10. ClaimsPosted'
  <2>1. ASSUME NEW h \in Guard, NEW p \in OwnPosts(h)', NEW i \in DOMAIN entries'[h],
               Claims(h, i, p.req.ts)', entries'[h][i].msg = p.req.msg
        PROVE  entries'[h][i].posted
    <3>1. p \in OwnPosts(h)
      BY <1>2, <2>1 DEF OwnPostsStay
    <3> QED BY <1>4, <1>5, <2>1, <3>1, MarkedStay
  <2> QED BY <2>1 DEF ClaimsPosted
<1>11. OwnUnique'
  BY <1>2 DEF OwnPostsStay, ClaimInv, OwnUnique
<1> QED BY <1>4, <1>5, <1>9, <1>10, <1>11, UniqueStays DEF ClaimInv

LEMMA ClaimNext ==
    ASSUME TypeInv, PartyInv, QueueInv, ClaimInv, TasksCoordinated, OneEntryPerMessage,
           [Next]_vars
    PROVE  ClaimInv'
<1>1. CASE CalmStep
  BY <1>1, ClaimCalmStep
<1>2. CASE UNCHANGED vars \/ Tick
  BY <1>1, <1>2, CalmTick
<1>3. ASSUME NEW g \in Guard, LocalStep(g) PROVE ClaimInv'
  <2>1. CASE Cleanup(g) \/ UpdateTurn(g) \/ RemoveSign(g) \/ PostFailed(g)
    BY <1>1, <2>1, CalmUpdate, CalmRemove
  <2> QED BY <1>3, <2>1, ClaimAddSign, ClaimUpdateLoop, ClaimSetRequest, ClaimHandleApprove,
             ClaimHandleStart DEF LocalStep
<1>4. ASSUME NEW g \in Guard, Event(g) PROVE ClaimInv'
  <2>1. CASE UpdateBegin(g) \/ PostAnswered(g) \/ \E m \in Msgs : ExpireCache(g, m)
    BY <1>1, <2>1, CalmUpdate, CalmEvents
  <2>2. CASE \E m \in net : \/ ReceiveRequest(g, m) \/ RegisterAnswered(g, m)
                           \/ ReceiveCached(g, m)
    BY <1>1, <2>2, CalmEvents
  <2>3. CASE \E m \in net : ReceiveApprove(g, m) \/ ReceiveStart(g, m)
    BY <2>3, ClaimNewTasks
  <2>4. CASE (\E p \in awaiting[g] : ReceiveResult(g, p))
             \/ \E v \in verifying[g] : Verified(g, v)
    BY <1>1, <2>4, CalmEvents
  <2> QED BY <1>4, <2>1, <2>2, <2>3, <2>4, ClaimUpdateStart DEF Event, OwnEvent
<1>5. ASSUME NEW g \in Guard, NEW m \in Msgs, Sign(g, m) PROVE ClaimInv'
  BY <1>5, ClaimNewTasks
<1> QED BY <1>2, <1>3, <1>4, <1>5, ClaimRestart DEF Next

-----------------------------------------------------------------------------
(***************************************************************************)
(* Everybody starts with the peers of the coordinator                      *)
(***************************************************************************)

\* No task of a start is new.
NoNewStartTasks ==
    \A h \in Guard : \A k \in 1 .. Len(lock'[h]) : lock'[h][k].kind = "start" =>
        \E j \in 1 .. Len(lock[h]) : lock'[h][k] = lock[h][j]

LEMMA CoordinatedStays ==
    ASSUME posts \subseteq posts', NEW req, NEW peers, Coordinated(req, peers)
    PROVE  Coordinated(req, peers)'
BY DEF Coordinated, OwnPosts

\* What was coordinated stays so; a step need only account for what is new.
LEMMA StartsStay ==
    ASSUME StartInv, posts \subseteq posts'
    PROVE  /\ \A m \in net : m.type = "start" =>
                 /\ Coordinated(m.req, ApprovedGuards(m.from, m.req, m.sigs))'
                 /\ \A h \in m.to : Version[h] = Version[m.from]
           /\ \A h \in Guard : \A k \in 1 .. Len(lock[h]) : \A t :
                 t = lock[h][k] /\ t.kind = "start" =>
                    t.req.init # h /\ Coordinated(t.req, t.peers)'
           /\ \A p \in posts : Coordinated(p.req, p.peers)'
<1>1. \A req, peers : Coordinated(req, peers) => Coordinated(req, peers)'
  BY CoordinatedStays
<1>2. StartsCoordinated /\ TasksCoordinated /\ PostsCoordinated
  BY DEF StartInv
<1>3. ASSUME NEW m \in net, m.type = "start"
      PROVE  /\ Coordinated(m.req, ApprovedGuards(m.from, m.req, m.sigs))'
             /\ \A h \in m.to : Version[h] = Version[m.from]
  <2>1. Coordinated(m.req, ApprovedGuards(m.from, m.req, m.sigs))
    BY <1>2, <1>3 DEF StartsCoordinated
  <2> QED BY <1>1, <1>2, <1>3, <2>1 DEF StartsCoordinated
<1>4. ASSUME NEW h \in Guard, NEW k \in 1 .. Len(lock[h]), NEW t, t = lock[h][k],
             t.kind = "start"
      PROVE  t.req.init # h /\ Coordinated(t.req, t.peers)'
  <2>1. t.req.init # h /\ Coordinated(t.req, t.peers)
    BY <1>2, <1>4 DEF TasksCoordinated
  <2> QED BY <1>1, <2>1
<1>5. \A p \in posts : Coordinated(p.req, p.peers)'
  BY <1>1, <1>2 DEF PostsCoordinated
<1> QED BY <1>3, <1>4, <1>5

LEMMA StartsCalm ==
    ASSUME StartInv, posts \subseteq posts', NoNewStarts, NoNewStartTasks,
           \A p \in posts' \ posts : Coordinated(p.req, p.peers)'
    PROVE  StartInv'
<1>1. StartsCoordinated'
  BY StartsStay DEF NoNewStarts, StartsCoordinated
<1>2. ASSUME NEW h \in Guard, NEW k \in 1 .. Len(lock'[h]), NEW t, t = lock'[h][k],
             t.kind = "start"
      PROVE  t.req.init # h /\ Coordinated(t.req, t.peers)'
  <2>1. PICK j \in 1 .. Len(lock[h]) : t = lock[h][j]
    BY <1>2 DEF NoNewStartTasks
  <2> QED BY <1>2, <2>1, StartsStay
<1>3. TasksCoordinated'
  BY <1>2 DEF TasksCoordinated
<1>4. PostsCoordinated'
  BY StartsStay DEF PostsCoordinated
<1> QED BY <1>1, <1>3, <1>4 DEF StartInv

LEMMA StartInit == ASSUME Init PROVE StartInv
<1>1. Len(<<>>) = 0
  OBVIOUS
<1> QED BY <1>1 DEF Init, StartInv, StartsCoordinated, TasksCoordinated, PostsCoordinated

LEMMA CalmStarts == ASSUME LockCalm PROVE NoNewStartTasks
BY CalmTasks DEF NoNewStartTasks, Plain

LEMMA NewTaskStarts ==
    ASSUME NEW g \in Guard, NEW t, t.kind # "start", OnlyNewTask(g, t)
    PROVE  NoNewStartTasks
BY DEF OnlyNewTask, NoNewStartTasks

LEMMA StartCalmStep == ASSUME StartInv, CalmStep PROVE StartInv'
BY CalmStarts, StartsCalm DEF CalmStep

\* Steps that neither start nor are told to.
LEMMA StartOthers ==
    ASSUME TypeInv, StartInv, NEW g \in Guard,
           \/ AddSign(g) \/ UpdateLoop(g) \/ SetRequest(g) \/ UpdateStart(g) \/ Restart(g)
           \/ \E m \in Msgs : Sign(g, m)
           \/ \E m \in net : ReceiveApprove(g, m)
    PROVE  StartInv'
<1>1. UNCHANGED posts /\ TypeOK
  BY DEF AddSign, UpdateLoop, SetRequest, UpdateStart, Restart, Sign, ReceiveApprove, TypeInv
<1>2. ASSUME NoNewStarts, NoNewStartTasks PROVE StartInv'
  BY <1>1, <1>2, StartsCalm
<1>3. UNCHANGED net => NoNewStarts
  BY DEF NoNewStarts
<1>4. UNCHANGED lock => NoNewStartTasks
  BY DEF NoNewStartTasks
<1>5. ASSUME lock[g] # <<>>, Release(g) PROVE NoNewStartTasks
  BY <1>1, <1>5, ReleaseTasks DEF NoNewTask, NoNewStartTasks
<1>6. ASSUME NEW t \in Task, t.kind # "start", Acquire(g, t) PROVE NoNewStartTasks
  BY <1>1, <1>6, AcquireTasks, NewTaskStarts
<1>7. CASE AddSign(g)
  <2>1. NoNewStartTasks
    BY <1>5, <1>7 DEF AddSign, Holds
  <2>2. NoNewStarts
    <3>1. UNCHANGED net \/ \E p, q : AnswerRequest(g, p, q)
      BY <1>7 DEF AddSign
    <3> QED BY <1>3, <3>1, AnswersStartNothing
  <2> QED BY <1>2, <2>1, <2>2
<1>8. CASE UpdateLoop(g)
  <2>1. CASE UNCHANGED <<lock, net>>
    BY <1>2, <1>3, <1>4, <2>1
  <2>2. ASSUME NEW i \in upd[g].todo,
               Acquire(g, [kind |-> "request", id |-> i, guards |-> upd[g].guards,
                           ts |-> upd[g].ts]),
               Send([type |-> "request", from |-> g, to |-> Guard \ {g},
                     req |-> RequestOf(g, i, upd[g].guards, upd[g].ts), sigs |-> {}])
        PROVE  StartInv'
    <3>1. i \in Nat \ {0} /\ upd[g].guards \in SUBSET Guard /\ upd[g].ts \in Nat
      BY <1>1 DEF TypeOK, Update
    <3>2. PICK t \in Task : t.kind = "request" /\ Acquire(g, t)
      BY <2>2, <3>1 DEF Task
    <3>3. PICK m : m.type = "request" /\ net' = net \cup {m}
      BY <2>2 DEF Send
    <3>4. NoNewStarts
      BY <3>3 DEF NoNewStarts
    <3> QED BY <1>2, <1>6, <3>2, <3>4
  <2> QED BY <1>8, <2>1, <2>2 DEF UpdateLoop
<1>9. CASE SetRequest(g)
  BY <1>2, <1>3, <1>5, <1>9 DEF SetRequest, Holds
<1>10. CASE UpdateStart(g)
  BY <1>2, <1>3, <1>4, <1>10 DEF UpdateStart
<1>11. CASE Restart(g)
  <2>1. Len(lock'[g]) = 0 /\ \A h \in Guard : h # g => lock'[h] = lock[h]
    BY <1>1, <1>11 DEF Restart, TypeOK
  <2>2. NoNewStartTasks
    <3>1. ASSUME NEW h \in Guard, NEW k \in 1 .. Len(lock'[h])
          PROVE  \E j \in 1 .. Len(lock[h]) : lock'[h][k] = lock[h][j]
      <4>1. CASE h = g
        BY <2>1, <3>1, <4>1
      <4>2. CASE h # g
        BY <2>1, <3>1, <4>2
      <4> QED BY <4>1, <4>2
    <3> QED BY <3>1 DEF NoNewStartTasks
  <2> QED BY <1>2, <1>3, <1>11, <2>2 DEF Restart
<1>12. ASSUME NEW m \in Msgs, Sign(g, m) PROVE StartInv'
  <2>1. CASE UNCHANGED lock
    BY <1>2, <1>3, <1>4, <1>12, <2>1 DEF Sign
  <2>2. CASE Acquire(g, [kind |-> "add", msg |-> m])
    <3>1. PICK t \in Task : t.kind = "add" /\ Acquire(g, t)
      BY <2>2 DEF Task
    <3> QED BY <1>2, <1>3, <1>6, <1>12, <3>1 DEF Sign
  <2> QED BY <1>12, <2>1, <2>2 DEF Sign
<1>13. ASSUME NEW m \in net, ReceiveApprove(g, m) PROVE StartInv'
  <2>1. PICK i \in GetSign(g, m.req.msg, FALSE), a \in m.sigs :
           Acquire(g, [kind |-> "approve", id |-> i, sig |-> a])
    BY <1>13 DEF ReceiveApprove
  <2>2. i \in Nat \ {0} /\ a \in Approval
    BY <1>1 DEF GetSign, SignIn, TypeOK, Message
  <2>3. PICK t \in Task : t.kind = "approve" /\ Acquire(g, t)
    BY <2>1, <2>2 DEF Task
  <2> QED BY <1>2, <1>3, <1>6, <1>13, <2>3 DEF ReceiveApprove
<1> QED BY <1>7, <1>8, <1>9, <1>10, <1>11, <1>12, <1>13

\* The coordinator posts what it tells the others, who approved, so that they have
\* its version.
LEMMA StartHandleApprove ==
    ASSUME TypeInv, PartyInv, StartInv, NEW g \in Guard, HandleApprove(g)
    PROVE  StartInv'
<1>1. PICK id, req, sigs :
         /\ lock[g] # <<>> /\ id \in DOMAIN entries[g] /\ req \in entries[g][id].request
         /\ \/ Release(g) /\ UNCHANGED <<net, posts>>
            \/ \E i \in GetSign(g, entries[g][id].msg, FALSE) : Started(g, i, req, sigs)
  BY ApproveStep
<1>2. CASE Release(g) /\ UNCHANGED <<net, posts>>
  <2>1. NoNewStartTasks /\ NoNewStarts
    BY <1>1, <1>2, CalmQueues, CalmStarts DEF NoNewStarts
  <2> QED BY <1>2, <2>1, StartsCalm
<1>3. ASSUME NEW i \in GetSign(g, entries[g][id].msg, FALSE), Started(g, i, req, sigs)
      PROVE  StartInv'
  <2>1. req.init = g
    <3>1. EntryParty(g, entries[g][id])
      BY <1>1 DEF PartyInv, EntriesParty
    <3> QED BY <1>1, <3>1 DEF EntryParty
  <2>2. PICK peers : peers = ApprovedGuards(g, req, sigs)
    OBVIOUS
  <2>3. PICK p : p.by = g /\ p.req = req /\ p.peers = peers /\ posts' = posts \cup {p}
    <3> DEFINE pp == [by |-> g, req |-> req, peers |-> peers]
    <3>1. posts' = posts \cup {pp}
      BY <1>3, <2>2 DEF Started, Posting
    <3>2. pp.by = g /\ pp.req = req /\ pp.peers = peers
      OBVIOUS
    <3> HIDE DEF pp
    <3> QED BY <3>1, <3>2
  <2>4. PICK n : /\ n.type = "start" /\ n.from = g /\ n.to = peers \ {g}
                 /\ n.req = req /\ n.sigs = sigs /\ net' = net \cup {n}
    <3> DEFINE nn == [type |-> "start", from |-> g, to |-> peers \ {g}, req |-> req,
                      sigs |-> sigs]
    <3>1. net' = net \cup {nn}
      BY <1>3, <2>2 DEF Started, Send
    <3>2. /\ nn.type = "start" /\ nn.from = g /\ nn.to = peers \ {g}
          /\ nn.req = req /\ nn.sigs = sigs
      OBVIOUS
    <3> HIDE DEF nn
    <3> QED BY <3>1, <3>2
  <2>5. Coordinated(req, peers)'
    BY <2>1, <2>3 DEF Coordinated, OwnPosts
  <2>6. posts \subseteq posts'
    BY <2>3
  <2>7. StartsCoordinated'
    <3>1. \A h \in n.to : Version[h] = Version[n.from]
      BY <2>2, <2>4 DEF ApprovedGuards
    <3>2. ASSUME NEW m \in net', m.type = "start"
          PROVE  /\ Coordinated(m.req, ApprovedGuards(m.from, m.req, m.sigs))'
                 /\ \A h \in m.to : Version[h] = Version[m.from]
      <4>1. CASE m \in net
        BY <2>6, <3>2, <4>1, StartsStay
      <4>2. CASE m = n
        BY <2>2, <2>4, <2>5, <3>1, <4>2
      <4> QED BY <2>4, <3>2, <4>1, <4>2
    <3> QED BY <3>2 DEF StartsCoordinated
  <2>8. NoNewStartTasks
    <3>1. i \in Nat \ {0}
      BY DEF GetSign, SignIn, TypeInv, TypeOK
    <3> QED BY <1>1, <1>3, <3>1, PostingCalm, CalmStarts DEF Started
  <2>9. TasksCoordinated'
    <3>1. ASSUME NEW h \in Guard, NEW k \in 1 .. Len(lock'[h]), NEW t, t = lock'[h][k],
                 t.kind = "start"
          PROVE  t.req.init # h /\ Coordinated(t.req, t.peers)'
      <4>1. PICK j \in 1 .. Len(lock[h]) : t = lock[h][j]
        BY <2>8, <3>1 DEF NoNewStartTasks
      <4> QED BY <2>6, <3>1, <4>1, StartsStay
    <3> QED BY <3>1 DEF TasksCoordinated
  <2>10. PostsCoordinated'
    BY <2>3, <2>5, <2>6, StartsStay DEF PostsCoordinated
  <2> QED BY <2>7, <2>9, <2>10 DEF StartInv
<1> QED BY <1>1, <1>2, <1>3

\* Who is told to start counts the approvals that the coordinator counted.
LEMMA StartReceiveStart ==
    ASSUME TypeInv, PartyInv, StartInv, NEW g \in Guard, NEW m \in net, ReceiveStart(g, m)
    PROVE  StartInv'
<1>1. UNCHANGED <<posts, net>> /\ g \in m.to /\ m.type = "start"
  BY DEF ReceiveStart, Receivable, Addressed
<1>2. PICK t \in Task : /\ t.kind = "start" /\ t.req = [m.req EXCEPT !.init = m.from]
                        /\ t.peers = ApprovedGuards(g, t.req, m.sigs) /\ Acquire(g, t)
  BY StartTask
<1>3. m.req \in Request
  BY DEF TypeInv, TypeOK, Message
<1>4. m.req.init = m.from /\ m.from # g
  BY <1>1 DEF PartyInv, NetParty, MsgParty
<1>5. t.req = m.req
  <2>1. [m.req EXCEPT !.init = m.from] = m.req
    BY <1>3, <1>4 DEF Request
  <2> QED BY <1>2, <2>1
<1>6. Version[g] = Version[m.from]
      /\ Coordinated(m.req, ApprovedGuards(m.from, m.req, m.sigs))
  BY <1>1 DEF StartInv, StartsCoordinated
<1>7. t.peers = ApprovedGuards(m.from, m.req, m.sigs)
  BY <1>2, <1>5, <1>6 DEF ApprovedGuards
<1>8. t.req.init # g /\ Coordinated(t.req, t.peers)'
  BY <1>1, <1>4, <1>5, <1>6, <1>7, CoordinatedStays
<1>9. OnlyNewTask(g, t)
  BY <1>2, AcquireTasks DEF TypeInv
<1>10. TasksCoordinated'
  <2>1. ASSUME NEW h \in Guard, NEW k \in 1 .. Len(lock'[h]), NEW s, s = lock'[h][k],
               s.kind = "start"
        PROVE  s.req.init # h /\ Coordinated(s.req, s.peers)'
    <3>1. CASE h = g /\ s = t
      BY <1>8, <3>1
    <3>2. ASSUME NEW j \in 1 .. Len(lock[h]), s = lock[h][j]
          PROVE  s.req.init # h /\ Coordinated(s.req, s.peers)'
      BY <1>1, <2>1, <3>2, StartsStay
    <3> QED BY <1>9, <2>1, <3>1, <3>2 DEF OnlyNewTask
  <2> QED BY <2>1 DEF TasksCoordinated
<1>11. StartsCoordinated' /\ PostsCoordinated'
  BY <1>1, StartsStay DEF StartsCoordinated, PostsCoordinated
<1> QED BY <1>10, <1>11 DEF StartInv

LEMMA StartHandleStart ==
    ASSUME TypeInv, StartInv, NEW g \in Guard, HandleStart(g)
    PROVE  StartInv'
<1>1. UNCHANGED net
  BY DEF HandleStart
<1>2. PICK req, peers :
         /\ lock[g] # <<>> /\ Head(lock[g]).kind = "start" /\ Head(lock[g]).req = req
         /\ Head(lock[g]).peers = peers
         /\ \/ Release(g) /\ UNCHANGED posts
            \/ \E i \in Nat \ {0} : Posting(g, i, req, peers)
  BY StartStep
<1>3. Head(lock[g]) = lock[g][1] /\ 1 \in 1 .. Len(lock[g])
  BY <1>2, TailTask DEF TypeInv, TypeOK
<1>4. Coordinated(req, peers)
  BY <1>2, <1>3 DEF StartInv, TasksCoordinated
<1>5. NoNewStarts /\ NoNewStartTasks
  BY <1>1, <1>2, CalmQueues, PostingCalm, CalmStarts DEF NoNewStarts
<1>6. posts \subseteq posts' /\ \A p \in posts' \ posts : p.req = req /\ p.peers = peers
  <2>1. CASE UNCHANGED posts
    BY <2>1
  <2>2. CASE posts' = posts \cup {[by |-> g, req |-> req, peers |-> peers]}
    BY <2>2
  <2> QED BY <1>2, <2>1, <2>2 DEF Posting
<1> QED BY <1>4, <1>5, <1>6, CoordinatedStays, StartsCalm

LEMMA StartNext ==
    ASSUME TypeInv, PartyInv, StartInv, [Next]_vars
    PROVE  StartInv'
<1>1. CASE CalmStep
  BY <1>1, StartCalmStep
<1>2. CASE UNCHANGED vars \/ Tick
  BY <1>1, <1>2, CalmTick
<1>3. ASSUME NEW g \in Guard, LocalStep(g) PROVE StartInv'
  <2>1. CASE Cleanup(g) \/ UpdateTurn(g) \/ RemoveSign(g) \/ PostFailed(g)
    BY <1>1, <2>1, CalmUpdate, CalmRemove
  <2> QED BY <1>3, <2>1, StartOthers, StartHandleApprove, StartHandleStart DEF LocalStep
<1>4. ASSUME NEW g \in Guard, Event(g) PROVE StartInv'
  <2>1. CASE UpdateBegin(g) \/ PostAnswered(g) \/ \E m \in Msgs : ExpireCache(g, m)
    BY <1>1, <2>1, CalmUpdate, CalmEvents
  <2>2. CASE \E m \in net : \/ ReceiveRequest(g, m) \/ RegisterAnswered(g, m)
                           \/ ReceiveCached(g, m)
    BY <1>1, <2>2, CalmEvents
  <2>3. CASE \E m \in net : ReceiveApprove(g, m) \/ ReceiveStart(g, m)
    BY <2>3, StartOthers, StartReceiveStart
  <2>4. CASE (\E p \in awaiting[g] : ReceiveResult(g, p))
             \/ \E v \in verifying[g] : Verified(g, v)
    BY <1>1, <2>4, CalmEvents
  <2> QED BY <1>4, <2>1, <2>2, <2>3, <2>4, StartOthers DEF Event, OwnEvent
<1> QED BY <1>2, <1>3, <1>4, StartOthers DEF Next

-----------------------------------------------------------------------------
(***************************************************************************)
(* Agreement                                                               *)
(***************************************************************************)

\* The inductive invariant behind StartAgreement.
AgreeInv == QueueInv /\ ClaimInv /\ StartInv

\* Both posts of a request have the peers of the only one by its coordinator.
LEMMA AgreeOnPeers == ASSUME TypeOK, AgreeInv PROVE StartAgreement
<1>1. ASSUME NEW p \in posts, NEW q \in posts, p.req = q.req PROVE p.peers = q.peers
  <2>1. p.req \in Request
    BY DEF TypeOK, Post
  <2>2. PICK h \in Guard : h = p.req.init
    BY <2>1 DEF Request
  <2>3. PICK c \in OwnPosts(h) : c.req = p.req /\ c.peers = p.peers
    BY <2>2 DEF AgreeInv, StartInv, PostsCoordinated, Coordinated
  <2>4. PICK d \in OwnPosts(h) : d.req = q.req /\ d.peers = q.peers
    BY <1>1, <2>2 DEF AgreeInv, StartInv, PostsCoordinated, Coordinated
  <2> QED BY <1>1, <2>3, <2>4 DEF AgreeInv, ClaimInv, OwnUnique
<1> QED BY <1>1 DEF StartAgreement

LEMMA AgreeInit == ASSUME Init PROVE AgreeInv
BY QueueInit, ClaimInit, StartInit DEF AgreeInv

LEMMA AgreeNext ==
    ASSUME TypeInv, TypeInv', PartyInv, OneEntryPerMessage, AgreeInv, [Next]_vars
    PROVE  AgreeInv'
BY QueueNext, ClaimNext, StartNext DEF AgreeInv, StartInv

\* Whoever posts a signing posts it with peers with which the guard that asked for the
\* approvals has posted it: nobody counts other peers than its coordinator has counted,
\* whatever is late, lost, repeated or restarted, and of whatever version the guards are.
THEOREM CoordinatedCorrect == Spec => []PostsCoordinated
<1>1. Init => TypeInv /\ PartyInv /\ StartInv
  BY TypeInit, PartyInit, StartInit
<1>2. TypeInv /\ [Next]_vars => TypeInv'
  BY TypeNext
<1>3. TypeInv /\ PartyInv /\ [Next]_vars => PartyInv'
  BY PartyNext
<1>4. TypeInv /\ PartyInv /\ StartInv /\ [Next]_vars => StartInv'
  BY StartNext
<1>5. StartInv => PostsCoordinated
  BY DEF StartInv
<1> QED BY <1>1, <1>2, <1>3, <1>4, <1>5, PTL DEF Spec

LEMMA AgreeCorrect == Spec /\ []OneEntryPerMessage => [](TypeInv /\ AgreeInv)
<1>1. Init => TypeInv /\ PartyInv /\ AgreeInv
  BY TypeInit, PartyInit, AgreeInit
<1>2. TypeInv /\ [Next]_vars => TypeInv'
  BY TypeNext
<1>3. TypeInv /\ PartyInv /\ [Next]_vars => PartyInv'
  BY PartyNext
<1>4. TypeInv /\ TypeInv' /\ PartyInv /\ OneEntryPerMessage /\ AgreeInv /\ [Next]_vars
      => AgreeInv'
  BY AgreeNext
<1> QED BY <1>1, <1>2, <1>3, <1>4, PTL DEF Spec

\* A guard posts a signing of its own request once, however many approvals arrive and
\* however late, as long as no guard has two entries of one message in its queue, which
\* is what sign() checks for.
THEOREM StartsOnceCorrect == Spec /\ []OneEntryPerMessage => []OwnUnique
<1>1. TypeInv /\ AgreeInv => OwnUnique
  BY DEF AgreeInv, ClaimInv
<1> QED BY <1>1, AgreeCorrect, PTL

\* Every two tss-api instances started for one request get the same list of peers, under
\* the same assumption: all have the peers of the only start of the coordinator.
THEOREM AgreementCorrect == Spec /\ []OneEntryPerMessage => []StartAgreement
<1>1. TypeInv /\ AgreeInv => StartAgreement
  BY AgreeOnPeers DEF TypeInv
<1> QED BY <1>1, AgreeCorrect, PTL

-----------------------------------------------------------------------------
(***************************************************************************)
(* An application that asks once never has a message queued twice          *)
(***************************************************************************)

\* A message comes to the queue once: by one waiting sign() or with one entry.
AddedOnce ==
    \A g \in Guard :
        /\ \A i, j \in DOMAIN entries[g] : entries[g][i].msg = entries[g][j].msg => i = j
        /\ \A k \in 1 .. Len(lock[g]) : lock[g][k].kind = "add" =>
              \A i \in DOMAIN entries[g] : entries[g][i].msg # lock[g][k].msg
        /\ \A j, k \in 1 .. Len(lock[g]) :
              /\ lock[g][j].kind = "add" /\ lock[g][k].kind = "add"
              /\ lock[g][j].msg = lock[g][k].msg
              => j = k

LEMMA AddedOnceQueue == ASSUME TypeOK, AddedOnce PROVE OneEntryPerMessage
BY DEF TypeOK, AddedOnce, OneEntryPerMessage

LEMMA AddedInit == ASSUME Init PROVE AddedOnce
<1>1. Len(<<>>) = 0 /\ DOMAIN <<>> = {}
  OBVIOUS
<1> QED BY <1>1 DEF Init, AddedOnce

\* The sign() calls in the queue q waited in s, in this order.
AddsMoved(s, q) ==
    \E d \in {0, 1} : \A k \in 1 .. Len(q) :
        q[k].kind # "add" \/ (k + d \in 1 .. Len(s) /\ q[k] = s[k + d])

\* No entry comes, and none gets another message.
NoNewEntries ==
    \A h \in Guard : \A i \in DOMAIN entries'[h] :
        i \in DOMAIN entries[h] /\ entries'[h][i].msg = entries[h][i].msg

LEMMA AddedStays ==
    ASSUME TypeInv, AddedOnce, NoNewEntries, \A h \in Guard : AddsMoved(lock[h], lock'[h])
    PROVE  AddedOnce'
<1>1. ASSUME NEW h \in Guard
      PROVE  /\ \A k \in 1 .. Len(lock'[h]) : lock'[h][k].kind = "add" =>
                   \A i \in DOMAIN entries'[h] : entries'[h][i].msg # lock'[h][k].msg
             /\ \A j, k \in 1 .. Len(lock'[h]) :
                   /\ lock'[h][j].kind = "add" /\ lock'[h][k].kind = "add"
                   /\ lock'[h][j].msg = lock'[h][k].msg
                   => j = k
  <2>1. PICK d \in {0, 1} : \A k \in 1 .. Len(lock'[h]) :
           lock'[h][k].kind # "add"
           \/ (k + d \in 1 .. Len(lock[h]) /\ lock'[h][k] = lock[h][k + d])
    BY DEF AddsMoved
  <2>2. ASSUME NEW k \in 1 .. Len(lock'[h]), lock'[h][k].kind = "add",
               NEW i \in DOMAIN entries'[h]
        PROVE  entries'[h][i].msg # lock'[h][k].msg
    <3>1. k + d \in 1 .. Len(lock[h]) /\ lock'[h][k] = lock[h][k + d]
      BY <2>1, <2>2
    <3> QED BY <2>2, <3>1 DEF AddedOnce, NoNewEntries
  <2>3. ASSUME NEW j \in 1 .. Len(lock'[h]), NEW k \in 1 .. Len(lock'[h]),
               lock'[h][j].kind = "add", lock'[h][k].kind = "add",
               lock'[h][j].msg = lock'[h][k].msg
        PROVE  j = k
    <3>1. /\ j + d \in 1 .. Len(lock[h]) /\ lock'[h][j] = lock[h][j + d]
          /\ k + d \in 1 .. Len(lock[h]) /\ lock'[h][k] = lock[h][k + d]
      BY <2>1, <2>3
    <3>2. j + d = k + d
      BY <2>3, <3>1 DEF AddedOnce
    <3> QED BY <2>1, <3>2
  <2> QED BY <2>2, <2>3
<1>2. \A h \in Guard : \A i, j \in DOMAIN entries'[h] :
         entries'[h][i].msg = entries'[h][j].msg => i = j
  BY DEF AddedOnce, NoNewEntries
<1> QED BY <1>1, <1>2 DEF AddedOnce

LEMMA CalmAdds == ASSUME LockCalm, NEW h \in Guard PROVE AddsMoved(lock[h], lock'[h])
<1>1. PICK d \in {0, 1} : \A k \in 1 .. Len(lock'[h]) :
         Plain(lock'[h][k]) \/ (k + d \in 1 .. Len(lock[h]) /\ lock'[h][k] = lock[h][k + d])
  BY DEF LockCalm, Moved
<1> QED BY <1>1 DEF AddsMoved, Plain

\* A queue with a task behind it.
LEMMA BehindTasks ==
    ASSUME TypeInv, NEW g \in Guard, NEW t \in Task, Acquire(g, t)
    PROVE  \E n \in Nat :
              /\ Len(lock[g]) = n /\ Len(lock'[g]) = n + 1 /\ lock'[g][n + 1] = t
              /\ \A k \in 1 .. n : lock'[g][k] = lock[g][k]
              /\ \A h \in Guard : h # g => lock'[h] = lock[h]
<1>1. lock[g] \in Seq(Task) /\ Len(lock[g]) \in Nat
  BY LenProperties DEF TypeInv, TypeOK
<1>2. lock'[g] = Append(lock[g], t) /\ \A h \in Guard : h # g => lock'[h] = lock[h]
  BY DEF TypeInv, TypeOK, Acquire
<1>3. /\ Len(Append(lock[g], t)) = Len(lock[g]) + 1
      /\ \A i \in 1 .. Len(lock[g]) : Append(lock[g], t)[i] = lock[g][i]
      /\ Append(lock[g], t)[Len(lock[g]) + 1] = t
  BY <1>1, AppendProperties
<1> QED BY <1>1, <1>2, <1>3

LEMMA BehindAdds ==
    ASSUME TypeInv, NEW g \in Guard, NEW t \in Task, t.kind # "add", Acquire(g, t)
    PROVE  \A h \in Guard : AddsMoved(lock[h], lock'[h])
<1>1. PICK n \in Nat :
         /\ Len(lock[g]) = n /\ Len(lock'[g]) = n + 1 /\ lock'[g][n + 1] = t
         /\ \A k \in 1 .. n : lock'[g][k] = lock[g][k]
         /\ \A h \in Guard : h # g => lock'[h] = lock[h]
  BY BehindTasks
<1>2. ASSUME NEW k \in 1 .. n + 1
      PROVE  lock'[g][k].kind # "add" \/ (k + 0 \in 1 .. n /\ lock'[g][k] = lock[g][k + 0])
  <2>1. CASE k = n + 1
    BY <1>1, <2>1
  <2>2. CASE k # n + 1
    <3>1. k \in 1 .. n /\ k + 0 = k
      BY <1>2, <2>2
    <3> QED BY <1>1, <3>1
  <2> QED BY <2>1, <2>2
<1>3. AddsMoved(lock[g], lock'[g])
  BY <1>1, <1>2 DEF AddsMoved
<1>4. ASSUME NEW h \in Guard, h # g PROVE AddsMoved(lock[h], lock'[h])
  <2>1. lock'[h] = lock[h]
    BY <1>1, <1>4
  <2>2. \A k \in 1 .. Len(lock[h]) : k + 0 \in 1 .. Len(lock[h]) /\ lock[h][k] = lock[h][k + 0]
    OBVIOUS
  <2> QED BY <2>1, <2>2 DEF AddsMoved
<1> QED BY <1>3, <1>4

\* The only call finds neither a waiting one nor an entry of its message.
LEMMA AddedSign ==
    ASSUME MaxCalls <= 1, TypeInv, AskedInv, AddedOnce, NEW g \in Guard, NEW m \in Msgs,
           Sign(g, m)
    PROVE  AddedOnce'
<1>1. asked[g][m] = 0
  <2>1. asked[g][m] \in Nat /\ asked[g][m] < MaxCalls /\ MaxCalls \in Nat
    BY ConstantsAssumption DEF Sign, TypeInv, TypeOK
  <2> QED BY <2>1
<1>2. UNCHANGED entries
  BY DEF Sign
<1>3. CASE UNCHANGED lock
  BY <1>2, <1>3 DEF AddedOnce
<1>4. CASE Acquire(g, [kind |-> "add", msg |-> m])
  <2>1. PICK t \in Task : t.kind = "add" /\ t.msg = m /\ Acquire(g, t)
    BY <1>4 DEF Task
  <2>2. PICK n \in Nat :
           /\ Len(lock[g]) = n /\ Len(lock'[g]) = n + 1 /\ lock'[g][n + 1] = t
           /\ \A k \in 1 .. n : lock'[g][k] = lock[g][k]
           /\ \A h \in Guard : h # g => lock'[h] = lock[h]
    BY <2>1, BehindTasks
  <2>3. \A i \in DOMAIN entries[g] : entries[g][i].msg # m
    BY <1>1 DEF AskedInv, EntriesAsked, Asked
  <2>4. \A k \in 1 .. n : lock[g][k].kind = "add" => lock[g][k].msg # m
    BY <1>1, <2>2 DEF AskedInv, LockAsked, Asked
  <2>5. ASSUME NEW k \in 1 .. n + 1, lock'[g][k].kind = "add", NEW i \in DOMAIN entries[g]
        PROVE  entries[g][i].msg # lock'[g][k].msg
    <3>1. CASE k = n + 1
      BY <2>1, <2>2, <2>3, <3>1
    <3>2. CASE k # n + 1
      <4>1. k \in 1 .. n
        BY <2>5, <3>2
      <4>2. k \in 1 .. Len(lock[g]) /\ lock[g][k].kind = "add" /\ lock'[g][k] = lock[g][k]
        BY <2>2, <2>5, <4>1
      <4> QED BY <2>5, <4>2, Zenon DEF AddedOnce
    <3> QED BY <3>1, <3>2
  <2>6. ASSUME NEW j \in 1 .. n + 1, NEW k \in 1 .. n + 1,
               lock'[g][j].kind = "add", lock'[g][k].kind = "add",
               lock'[g][j].msg = lock'[g][k].msg
        PROVE  j = k
    <3>1. CASE j = n + 1 /\ k # n + 1
      <4>1. k \in 1 .. n
        BY <2>6, <3>1
      <4> QED BY <2>1, <2>2, <2>4, <2>6, <3>1, <4>1
    <3>2. CASE j # n + 1 /\ k = n + 1
      <4>1. j \in 1 .. n
        BY <2>6, <3>2
      <4> QED BY <2>1, <2>2, <2>4, <2>6, <3>2, <4>1
    <3>3. CASE j # n + 1 /\ k # n + 1
      <4>1. j \in 1 .. n /\ k \in 1 .. n
        BY <2>6, <3>3
      <4>2. /\ j \in 1 .. Len(lock[g]) /\ lock'[g][j] = lock[g][j]
            /\ k \in 1 .. Len(lock[g]) /\ lock'[g][k] = lock[g][k]
        BY <2>2, <4>1
      <4> QED BY <2>6, <4>2, Zenon DEF AddedOnce
    <3> QED BY <3>1, <3>2, <3>3
  <2>7. ASSUME NEW h \in Guard
        PROVE  /\ \A k \in 1 .. Len(lock'[h]) : lock'[h][k].kind = "add" =>
                     \A i \in DOMAIN entries[h] : entries[h][i].msg # lock'[h][k].msg
               /\ \A j, k \in 1 .. Len(lock'[h]) :
                     /\ lock'[h][j].kind = "add" /\ lock'[h][k].kind = "add"
                     /\ lock'[h][j].msg = lock'[h][k].msg
                     => j = k
    <3>1. CASE h = g
      BY <2>2, <2>5, <2>6, <3>1
    <3>2. CASE h # g
      BY <2>2, <3>2 DEF AddedOnce
    <3> QED BY <3>1, <3>2
  <2> QED BY <1>2, <2>7 DEF AddedOnce
<1> QED BY <1>3, <1>4 DEF Sign

\* The waiting call becomes the entry.
LEMMA AddedAddSign ==
    ASSUME TypeInv, AddedOnce, NEW g \in Guard, AddSign(g)
    PROVE  AddedOnce'
<1>1. PICK m, n : /\ lock[g] # <<>> /\ Head(lock[g]).kind = "add" /\ Head(lock[g]).msg = m
                  /\ Release(g) /\ n \notin DOMAIN entries[g]
                  /\ DOMAIN entries'[g] = DOMAIN entries[g] \cup {n}
                  /\ entries'[g][n].msg = m
                  /\ \A i \in DOMAIN entries[g] : entries'[g][i] = entries[g][i]
                  /\ \A h \in Guard : h # g => entries'[h] = entries[h]
  BY AddStep
<1>2. PICK s \in Seq(Task) : s = lock[g]
  BY DEF TypeInv, TypeOK
<1>3. PICK len \in Nat \ {0} : len = Len(s)
  BY <1>1, <1>2, LenProperties, EmptySeq
<1>4. /\ Len(lock'[g]) = len - 1 /\ \A k \in 1 .. len - 1 : lock'[g][k] = s[k + 1]
      /\ \A h \in Guard : h # g => lock'[h] = lock[h]
  <2>1. lock'[g] = Tail(s) /\ \A h \in Guard : h # g => lock'[h] = lock[h]
    BY <1>1, <1>2 DEF Release, TypeInv, TypeOK
  <2>2. Len(Tail(s)) = Len(s) - 1 /\ \A i \in 1 .. Len(Tail(s)) : Tail(s)[i] = s[i + 1]
    BY <1>1, <1>2, HeadTailProperties
  <2> QED BY <1>3, <2>1, <2>2
<1>5. s[1].kind = "add" /\ s[1].msg = m /\ 1 \in 1 .. len
  BY <1>1, <1>2, <1>3, TailTask
<1>6. ASSUME NEW k \in 1 .. len - 1
      PROVE  k + 1 \in 1 .. len /\ k + 1 # 1 /\ lock'[g][k] = s[k + 1]
  BY <1>3, <1>4, <1>6
<1>7. \A i \in DOMAIN entries[g] : entries[g][i].msg # m
  BY <1>2, <1>3, <1>5 DEF AddedOnce
<1>8. ASSUME NEW k \in 1 .. len - 1, lock'[g][k].kind = "add", NEW i \in DOMAIN entries'[g]
      PROVE  entries'[g][i].msg # lock'[g][k].msg
  <2>1. CASE i = n
    BY <1>1, <1>2, <1>3, <1>5, <1>6, <1>8, <2>1 DEF AddedOnce
  <2>2. CASE i \in DOMAIN entries[g]
    <3>1. k + 1 \in 1 .. Len(lock[g]) /\ lock'[g][k] = lock[g][k + 1]
      BY <1>2, <1>3, <1>6
    <3> QED BY <1>1, <1>8, <2>2, <3>1 DEF AddedOnce
  <2> QED BY <1>1, <1>8, <2>1, <2>2
<1>9. ASSUME NEW j \in 1 .. len - 1, NEW k \in 1 .. len - 1,
             lock'[g][j].kind = "add", lock'[g][k].kind = "add",
             lock'[g][j].msg = lock'[g][k].msg
      PROVE  j = k
  <2>1. j + 1 = k + 1
    <3>1. /\ j + 1 \in 1 .. Len(lock[g]) /\ lock'[g][j] = lock[g][j + 1]
          /\ k + 1 \in 1 .. Len(lock[g]) /\ lock'[g][k] = lock[g][k + 1]
      BY <1>2, <1>3, <1>6
    <3> QED BY <1>9, <3>1 DEF AddedOnce
  <2> QED BY <1>3, <2>1
<1>10. ASSUME NEW i \in DOMAIN entries'[g], NEW j \in DOMAIN entries'[g],
              entries'[g][i].msg = entries'[g][j].msg
       PROVE  i = j
  BY <1>1, <1>7, <1>10 DEF AddedOnce
<1>11. ASSUME NEW h \in Guard
       PROVE  /\ \A i, j \in DOMAIN entries'[h] :
                    entries'[h][i].msg = entries'[h][j].msg => i = j
              /\ \A k \in 1 .. Len(lock'[h]) : lock'[h][k].kind = "add" =>
                    \A i \in DOMAIN entries'[h] : entries'[h][i].msg # lock'[h][k].msg
              /\ \A j, k \in 1 .. Len(lock'[h]) :
                    /\ lock'[h][j].kind = "add" /\ lock'[h][k].kind = "add"
                    /\ lock'[h][j].msg = lock'[h][k].msg
                    => j = k
  <2>1. CASE h = g
    <3>1. 1 .. Len(lock'[g]) = 1 .. len - 1
      BY <1>4
    <3>2. \A i, j \in DOMAIN entries'[g] :
             entries'[g][i].msg = entries'[g][j].msg => i = j
      BY <1>10
    <3>3. \A k \in 1 .. Len(lock'[g]) : lock'[g][k].kind = "add" =>
             \A i \in DOMAIN entries'[g] : entries'[g][i].msg # lock'[g][k].msg
      BY <1>8, <3>1
    <3>4. \A j, k \in 1 .. Len(lock'[g]) :
             /\ lock'[g][j].kind = "add" /\ lock'[g][k].kind = "add"
             /\ lock'[g][j].msg = lock'[g][k].msg
             => j = k
      BY <1>9, <3>1
    <3> QED BY <2>1, <3>2, <3>3, <3>4
  <2>2. CASE h # g
    <3>1. entries'[h] = entries[h] /\ lock'[h] = lock[h]
      BY <1>1, <1>4, <2>2
    <3> QED BY <3>1, Zenon DEF AddedOnce
  <2> QED BY <2>1, <2>2
<1> QED BY <1>11 DEF AddedOnce

\* The other steps bring no entry and no call.
LEMMA AddedOthers ==
    ASSUME TypeInv, AddedOnce, NEW g \in Guard,
           \/ UpdateLoop(g) \/ SetRequest(g) \/ UpdateStart(g)
           \/ HandleApprove(g) \/ HandleStart(g)
           \/ \E m \in net : ReceiveApprove(g, m) \/ ReceiveStart(g, m)
    PROVE  AddedOnce'
<1>1. TypeOK /\ (UNCHANGED entries => NoNewEntries) /\ (EntriesCalm => NoNewEntries)
  BY DEF TypeInv, NoNewEntries, EntriesCalm
<1>2. ASSUME LockCalm, NoNewEntries PROVE AddedOnce'
  BY <1>2, AddedStays, CalmAdds
<1>3. ASSUME NEW t \in Task, t.kind # "add", Acquire(g, t), NoNewEntries PROVE AddedOnce'
  BY <1>3, AddedStays, BehindAdds
<1>4. CASE UpdateLoop(g)
  <2>1. CASE UNCHANGED lock
    BY <1>1, <1>2, <1>4, <2>1, StillCalm DEF UpdateLoop
  <2>2. ASSUME NEW i \in upd[g].todo,
               Acquire(g, [kind |-> "request", id |-> i, guards |-> upd[g].guards,
                           ts |-> upd[g].ts])
        PROVE  AddedOnce'
    <3>1. i \in Nat \ {0} /\ upd[g].guards \in SUBSET Guard /\ upd[g].ts \in Nat
      BY <1>1 DEF TypeOK, Update
    <3>2. PICK t \in Task : t.kind = "request" /\ Acquire(g, t)
      BY <2>2, <3>1 DEF Task
    <3> QED BY <1>1, <1>3, <1>4, <3>2 DEF UpdateLoop
  <2> QED BY <1>4, <2>1, <2>2 DEF UpdateLoop
<1>5. CASE SetRequest(g)
  <2>1. /\ lock[g] # <<>> /\ Release(g)
        /\ \A h \in Guard :
              /\ DOMAIN entries'[h] = DOMAIN entries[h]
              /\ \A i \in DOMAIN entries[h] : entries'[h][i].msg = entries[h][i].msg
    BY <1>5, SetStep
  <2>2. LockCalm
    BY <2>1, CalmQueues
  <2> QED BY <1>2, <2>1, <2>2 DEF NoNewEntries
<1>6. CASE UpdateStart(g)
  BY <1>1, <1>2, <1>6, StillCalm DEF UpdateStart
<1>7. CASE HandleApprove(g)
  <2>1. PICK id, req, sigs :
           /\ lock[g] # <<>> /\ EntriesCalm
           /\ \/ Release(g)
              \/ \E i \in GetSign(g, entries[g][id].msg, FALSE) : Started(g, i, req, sigs)
    BY <1>7, ApproveStep
  <2>2. LockCalm
    <3>1. CASE Release(g)
      BY <2>1, <3>1, CalmQueues
    <3>2. ASSUME NEW i \in GetSign(g, entries[g][id].msg, FALSE), Started(g, i, req, sigs)
          PROVE  LockCalm
      <4>1. i \in Nat \ {0}
        BY <1>1 DEF GetSign, SignIn, TypeOK
      <4> QED BY <2>1, <3>2, <4>1, PostingCalm DEF Started
    <3> QED BY <2>1, <3>1, <3>2
  <2> QED BY <1>1, <1>2, <2>1, <2>2
<1>8. CASE HandleStart(g)
  <2>1. PICK req, peers :
           /\ lock[g] # <<>> /\ EntriesCalm
           /\ \/ Release(g)
              \/ \E i \in Nat \ {0} : Posting(g, i, req, peers)
    BY <1>8, StartStep
  <2>2. LockCalm
    BY <2>1, CalmQueues, PostingCalm
  <2> QED BY <1>1, <1>2, <2>1, <2>2
<1>9. ASSUME NEW m \in net, ReceiveApprove(g, m) PROVE AddedOnce'
  <2>1. PICK i \in GetSign(g, m.req.msg, FALSE), a \in m.sigs :
           Acquire(g, [kind |-> "approve", id |-> i, sig |-> a])
    BY <1>9 DEF ReceiveApprove
  <2>2. i \in Nat \ {0} /\ a \in Approval
    BY <1>1 DEF GetSign, SignIn, TypeOK, Message
  <2>3. PICK t \in Task : t.kind = "approve" /\ Acquire(g, t)
    BY <2>1, <2>2 DEF Task
  <2> QED BY <1>1, <1>3, <1>9, <2>3 DEF ReceiveApprove
<1>10. ASSUME NEW m \in net, ReceiveStart(g, m) PROVE AddedOnce'
  <2>1. PICK t \in Task : t.kind = "start" /\ Acquire(g, t)
    BY <1>10, StartTask
  <2> QED BY <1>1, <1>3, <1>10, <2>1 DEF ReceiveStart
<1> QED BY <1>4, <1>5, <1>6, <1>7, <1>8, <1>9, <1>10

\* What a restarted guard forgets cannot come again: it was asked for.
LEMMA AddedRestart ==
    ASSUME TypeInv, AddedOnce, NEW g \in Guard, Restart(g)
    PROVE  AddedOnce'
<1>1. /\ DOMAIN entries'[g] = {} /\ Len(lock'[g]) = 0
      /\ \A h \in Guard : h # g => entries'[h] = entries[h] /\ lock'[h] = lock[h]
  BY DEF Restart, TypeInv, TypeOK
<1>2. NoNewEntries
  BY <1>1 DEF NoNewEntries
<1>3. ASSUME NEW h \in Guard PROVE AddsMoved(lock[h], lock'[h])
  <2>1. CASE h = g
    BY <1>1, <2>1 DEF AddsMoved
  <2>2. CASE h # g
    <3>1. \A k \in 1 .. Len(lock[h]) : k + 0 \in 1 .. Len(lock[h]) /\ lock[h][k] = lock[h][k + 0]
      OBVIOUS
    <3> QED BY <1>1, <2>2, <3>1 DEF AddsMoved
  <2> QED BY <2>1, <2>2
<1> QED BY <1>2, <1>3, AddedStays

LEMMA AddedNext ==
    ASSUME MaxCalls <= 1, TypeInv, AskedInv, AddedOnce, [Next]_vars
    PROVE  AddedOnce'
<1>1. CASE CalmStep
  <2>1. NoNewEntries
    BY <1>1 DEF CalmStep, EntriesCalm, NoNewEntries
  <2> QED BY <1>1, <2>1, CalmAdds, AddedStays DEF CalmStep
<1>2. CASE UNCHANGED vars \/ Tick
  BY <1>1, <1>2, CalmTick
<1>3. ASSUME NEW g \in Guard, LocalStep(g) PROVE AddedOnce'
  <2>1. CASE Cleanup(g) \/ UpdateTurn(g) \/ RemoveSign(g) \/ PostFailed(g)
    BY <1>1, <2>1, CalmUpdate, CalmRemove
  <2> QED BY <1>3, <2>1, AddedAddSign, AddedOthers DEF LocalStep
<1>4. ASSUME NEW g \in Guard, Event(g) PROVE AddedOnce'
  <2>1. CASE UpdateBegin(g) \/ PostAnswered(g) \/ \E m \in Msgs : ExpireCache(g, m)
    BY <1>1, <2>1, CalmUpdate, CalmEvents
  <2>2. CASE \E m \in net : \/ ReceiveRequest(g, m) \/ RegisterAnswered(g, m)
                           \/ ReceiveCached(g, m)
    BY <1>1, <2>2, CalmEvents
  <2>3. CASE (\E p \in awaiting[g] : ReceiveResult(g, p))
             \/ \E v \in verifying[g] : Verified(g, v)
    BY <1>1, <2>3, CalmEvents
  <2> QED BY <1>4, <2>1, <2>2, <2>3, AddedOthers DEF Event, OwnEvent
<1> QED BY <1>2, <1>3, <1>4, AddedSign, AddedRestart DEF Next

\* A guard whose application asks once for a message never has two entries of it.
THEOREM SingleCallQueue == ASSUME MaxCalls <= 1 PROVE Spec => []OneEntryPerMessage
<1>1. Init => TypeInv /\ AskedInv /\ AddedOnce
  BY TypeInit, AskedInit, AddedInit
<1>2. TypeInv /\ [Next]_vars => TypeInv'
  BY TypeNext
<1>3. TypeInv /\ AskedInv /\ [Next]_vars => AskedInv'
  BY AskedNext
<1>4. TypeInv /\ AskedInv /\ AddedOnce /\ [Next]_vars => AddedOnce'
  BY AddedNext
<1>5. TypeInv /\ AddedOnce => OneEntryPerMessage
  BY AddedOnceQueue DEF TypeInv
<1> QED BY <1>1, <1>2, <1>3, <1>4, <1>5, PTL DEF Spec

\* So every two tss-api instances started for one request get the same list of peers when
\* the applications ask once for each message.
THEOREM SingleCallAgreement == ASSUME MaxCalls <= 1 PROVE Spec => []StartAgreement
<1>1. Spec => []OneEntryPerMessage
  BY SingleCallQueue
<1> QED BY <1>1, AgreementCorrect, PTL
================================================================================
