--------------------------- MODULE TssService_proofs ---------------------------
(***************************************************************************)
(* Proofs that the guards only sign what their applications asked for,     *)
(* that what they hand out are signatures, and that with this TssSigner    *)
(* implements SigningService.                                              *)
(***************************************************************************)
EXTENDS TssSafety_proofs

Asked(g, m) == asked[g][m] > 0

-----------------------------------------------------------------------------
(***************************************************************************)
(* What a step does to the entries                                         *)
(***************************************************************************)

\* The entries of before, with their messages; new requests are for the same
\* message.
EntriesKept ==
    \A h \in Guard :
        /\ DOMAIN entries'[h] = DOMAIN entries[h]
        /\ \A j \in DOMAIN entries[h] :
              /\ entries'[h][j].msg = entries[h][j].msg
              /\ \A r \in entries'[h][j].request :
                    r \in entries[h][j].request \/ r.msg = entries[h][j].msg

\* No caller is told that its message is signed.
OkKept ==
    \A h \in Guard : \A j \in DOMAIN entries[h] :
        entries'[h][j].answer = "ok" <=> entries[h][j].answer = "ok"

\* Replacing one entry by one with the same message and answer.
LEMMA ReplacedKept ==
    ASSUME TypeOK, NEW g \in Guard, NEW i \in DOMAIN entries[g], NEW e,
           entries' = [entries EXCEPT ![g] = [@ EXCEPT ![i] = e]],
           e.msg = entries[g][i].msg, e.answer = entries[g][i].answer,
           \A r \in e.request : r \in entries[g][i].request \/ r.msg = entries[g][i].msg
    PROVE  EntriesKept /\ OkKept
<1>1. \A h \in Guard :
         /\ DOMAIN entries'[h] = DOMAIN entries[h]
         /\ \A j \in DOMAIN entries[h] :
               entries'[h][j] = IF h = g /\ j = i THEN e ELSE entries[h][j]
  BY DEF TypeOK
<1> QED BY <1>1 DEF EntriesKept, OkKept

\* At most the promise of entry i of g was settled, with this status.
OnlySettled(g, i, status) ==
    \A h \in Guard : \A j \in DOMAIN entries[h] :
        \/ entries'[h][j].answer = entries[h][j].answer
        \/ h = g /\ j = i /\ entries'[h][j].answer = status

LEMMA SettledKept ==
    ASSUME TypeOK, NEW g \in Guard, NEW i \in DOMAIN entries[g],
           NEW status \in {"ok", "failed"},
           entries' = [entries EXCEPT ![g][i] = Settle(@, status)]
    PROVE  /\ EntriesKept
           /\ status = "failed" => OkKept
           /\ OnlySettled(g, i, status)
<1> DEFINE e == Settle(entries[g][i], status)
<1>1. entries[g][i] \in Entry
  BY DEF TypeOK
<1>2. /\ e.msg = entries[g][i].msg /\ e.request = entries[g][i].request
      /\ \/ e.answer = entries[g][i].answer
         \/ e.answer = status /\ entries[g][i].answer = "none"
  BY <1>1 DEF Settle, Entry
<1>3. entries' = [entries EXCEPT ![g] = [@ EXCEPT ![i] = e]]
  BY DEF TypeOK
<1> HIDE DEF e
<1>4. \A h \in Guard :
         /\ DOMAIN entries'[h] = DOMAIN entries[h]
         /\ \A j \in DOMAIN entries[h] :
               entries'[h][j] = IF h = g /\ j = i THEN e ELSE entries[h][j]
  BY <1>3 DEF TypeOK
<1> QED BY <1>2, <1>4 DEF EntriesKept, OkKept, OnlySettled

LEMMA KeptUnchanged == ASSUME UNCHANGED entries PROVE EntriesKept /\ OkKept
BY DEF EntriesKept, OkKept

LEMMA KeptPostFailed ==
    ASSUME TypeInv, NEW g \in Guard, PostFailed(g)
    PROVE  EntriesKept /\ OkKept
<1>1. lock[g] # <<>> /\ Head(lock[g]).kind = "fail" /\ LockOK
  BY DEF PostFailed, Holds, TypeInv, TypeOK, RefsOK, LockOK
<1>2. Head(lock[g]).id \in DOMAIN entries[g]
  BY <1>1, HeadRefs DEF TaskRefs, WithId
<1>3. PICK i \in DOMAIN entries[g] : entries' = [entries EXCEPT ![g][i] = Settle(@, "failed")]
  BY <1>2 DEF PostFailed
<1> QED BY <1>3, SettledKept DEF TypeInv

LEMMA KeptReceiveResult ==
    ASSUME TypeInv, NEW g \in Guard, NEW p \in awaiting[g], ReceiveResult(g, p)
    PROVE  EntriesKept /\ OkKept
<1>1. GetSign(g, p.req.msg, TRUE) \subseteq DOMAIN entries[g]
  BY DEF GetSign, SignIn, TypeInv, TypeOK
<1>2. \/ UNCHANGED entries
      \/ \E i \in DOMAIN entries[g] : entries' = [entries EXCEPT ![g][i] = Settle(@, "failed")]
  BY <1>1 DEF ReceiveResult
<1> QED BY <1>2, KeptUnchanged, SettledKept DEF TypeInv

LEMMA KeptSetRequest ==
    ASSUME TypeInv, NEW g \in Guard, SetRequest(g)
    PROVE  /\ EntriesKept /\ OkKept
           /\ \E i \in DOMAIN entries[g], req \in Request :
                 /\ req.msg = entries[g][i].msg
                 /\ approvals' = approvals \cup {[by |-> g, req |-> req]}
<1> DEFINE t == Head(lock[g])
           req == RequestOf(g, t.id, t.guards, t.ts)
           own == [by |-> g, req |-> req]
           e == [entries[g][t.id] EXCEPT !.request = {req}, !.sigs = {own}]
<1>1. lock[g] # <<>> /\ t.kind = "request" /\ LockOK
  BY DEF SetRequest, Holds, TypeInv, TypeOK, RefsOK, LockOK
<1>2. t.id \in DOMAIN entries[g] /\ t \in Task
  BY <1>1, HeadRefs DEF TaskRefs, WithId
<1>3. entries[g][t.id] \in Entry
  BY <1>2 DEF TypeInv, TypeOK
<1>4. req \in Request /\ req.msg = entries[g][t.id].msg
  <2>1. t.guards \in SUBSET Guard /\ t.ts \in Nat
    BY <1>1, <1>2 DEF Task
  <2>2. entries[g][t.id].msg \in Msgs
    BY <1>3 DEF Entry
  <2> QED BY <2>1, <2>2 DEF RequestOf, Request
<1>5. entries' = [entries EXCEPT ![g] = [@ EXCEPT ![t.id] = e]]
      /\ approvals' = approvals \cup {own}
  BY <1>2 DEF SetRequest, TypeInv, TypeOK
<1>6. e.msg = entries[g][t.id].msg /\ e.answer = entries[g][t.id].answer
      /\ e.request = {req}
  BY <1>3 DEF Entry
<1> HIDE DEF e, req
<1>7. EntriesKept /\ OkKept
  <2>1. \A r \in e.request : r.msg = entries[g][t.id].msg
    BY <1>4, <1>6
  <2>2. TypeOK
    BY DEF TypeInv
  <2> HIDE DEF t
  <2>3. PICK i \in DOMAIN entries[g] : i = t.id
    BY <1>2
  <2>4. PICK f : f = e
    OBVIOUS
  <2>5. entries' = [entries EXCEPT ![g] = [@ EXCEPT ![i] = f]]
    BY <1>5, <2>3, <2>4
  <2>6. /\ f.msg = entries[g][i].msg /\ f.answer = entries[g][i].answer
        /\ \A r \in f.request : r \in entries[g][i].request \/ r.msg = entries[g][i].msg
    BY <1>6, <2>1, <2>3, <2>4
  <2> QED BY <2>2, <2>5, <2>6, ReplacedKept
<1> QED BY <1>2, <1>4, <1>5, <1>7

\* What posting a signing adds, and to which entries.
LEMMA KeptHandleStart ==
    ASSUME TypeInv, NEW g \in Guard, HandleStart(g)
    PROVE  /\ EntriesKept /\ OkKept
           /\ \/ UNCHANGED posts
              \/ \E i \in DOMAIN entries[g], p \in Post :
                    /\ p.by = g /\ p.req.msg = entries[g][i].msg
                    /\ posts' = posts \cup {p}
<1> DEFINE t == Head(lock[g])
<1>1. lock[g] # <<>> /\ t.kind = "start" /\ LockOK
  BY DEF HandleStart, Holds, TypeInv, TypeOK, RefsOK, LockOK
<1>2. t \in Task
  BY <1>1, HeadRefs
<1>3. CASE UNCHANGED <<entries, posts>>
  BY <1>3, KeptUnchanged
<1>4. ASSUME NEW i \in GetSign(g, t.req.msg, FALSE),
             entries' = [entries EXCEPT ![g][i].posted = TRUE],
             Posting(g, i, t.req, t.peers)
      PROVE  /\ EntriesKept /\ OkKept
             /\ i \in DOMAIN entries[g]
             /\ \E p \in Post : /\ p.by = g /\ p.req.msg = entries[g][i].msg
                                /\ posts' = posts \cup {p}
  <2>1. i \in DOMAIN entries[g] /\ entries[g][i] \in Entry
        /\ entries[g][i].msg = t.req.msg
    BY DEF GetSign, SignIn, TypeInv, TypeOK
  <2> DEFINE e == [entries[g][i] EXCEPT !.posted = TRUE]
             p == [by |-> g, req |-> t.req, peers |-> t.peers]
  <2>2. e.msg = entries[g][i].msg /\ e.answer = entries[g][i].answer
        /\ e.request = entries[g][i].request
    BY <2>1 DEF Entry
  <2>3. entries' = [entries EXCEPT ![g] = [@ EXCEPT ![i] = e]]
    BY <1>4, <2>1 DEF TypeInv, TypeOK
  <2>4. t.req \in Request /\ t.peers \in SUBSET Guard
    BY <1>1, <1>2 DEF Task
  <2>5. p \in Post /\ p.by = g /\ p.req = t.req /\ posts' = posts \cup {p}
    BY <1>4, <2>4 DEF Post, Posting
  <2> HIDE DEF e, p
  <2>6. EntriesKept /\ OkKept
    BY <2>1, <2>2, <2>3, ReplacedKept DEF TypeInv
  <2> QED BY <2>1, <2>5, <2>6
<1> QED BY <1>3, <1>4 DEF HandleStart

LEMMA KeptHandleApprove ==
    ASSUME TypeInv, NEW g \in Guard, HandleApprove(g)
    PROVE  /\ EntriesKept /\ OkKept
           /\ \/ UNCHANGED <<posts, net>>
              \/ /\ \E i \in DOMAIN entries[g], p \in Post :
                       /\ p.by = g /\ p.req \in entries[g][i].request
                       /\ posts' = posts \cup {p}
                 /\ \E m : m.type = "start" /\ Send(m)
<1> DEFINE t == Head(lock[g])
           e == entries[g][t.id]
           sigs == StoreSig(e.sigs, t.sig)
           x == [e EXCEPT !.sigs = sigs]
           stored == [entries EXCEPT ![g][t.id].sigs = sigs]
<1>1. lock[g] # <<>> /\ t.kind = "approve" /\ LockOK
  BY DEF HandleApprove, Holds, TypeInv, TypeOK, RefsOK, LockOK
<1>2. t.id \in DOMAIN entries[g] /\ t \in Task
  BY <1>1, HeadRefs DEF TaskRefs, WithId
<1>3. e \in Entry
  BY <1>2 DEF TypeInv, TypeOK
<1>4. \A h \in Guard :
         /\ DOMAIN stored[h] = DOMAIN entries[h]
         /\ \A j \in DOMAIN entries[h] :
               /\ stored[h][j].msg = entries[h][j].msg
               /\ stored[h][j].answer = entries[h][j].answer
               /\ stored[h][j].request = entries[h][j].request
  <2>1. x.msg = e.msg /\ x.answer = e.answer /\ x.request = e.request
    BY <1>3 DEF Entry
  <2>2. stored = [entries EXCEPT ![g] = [@ EXCEPT ![t.id] = x]]
    BY <1>2 DEF TypeInv, TypeOK
  <2> HIDE DEF x, stored
  <2>3. \A h \in Guard :
           /\ DOMAIN stored[h] = DOMAIN entries[h]
           /\ \A j \in DOMAIN entries[h] :
                 stored[h][j] = IF h = g /\ j = t.id THEN x ELSE entries[h][j]
    BY <1>2, <2>2 DEF TypeInv, TypeOK
  <2> QED BY <2>1, <2>3
<1>5. PICK req \in e.request :
         \/ entries' = stored /\ UNCHANGED <<net, posts>>
         \/ /\ \E i \in GetSign(g, e.msg, FALSE) :
                  /\ entries' = [stored EXCEPT ![g][i].posted = TRUE]
                  /\ Posting(g, i, req, ApprovedGuards(g, req, sigs))
            /\ Send([type |-> "start", from |-> g,
                     to |-> ApprovedGuards(g, req, sigs) \ {g},
                     req |-> req, sigs |-> sigs])
  BY DEF HandleApprove
<1>6. CASE entries' = stored /\ UNCHANGED <<net, posts>>
  <2> HIDE DEF stored
  <2> QED BY <1>4, <1>6 DEF EntriesKept, OkKept
<1>7. ASSUME NEW i \in GetSign(g, e.msg, FALSE),
             entries' = [stored EXCEPT ![g][i].posted = TRUE],
             Posting(g, i, req, ApprovedGuards(g, req, sigs)),
             Send([type |-> "start", from |-> g,
                   to |-> ApprovedGuards(g, req, sigs) \ {g},
                   req |-> req, sigs |-> sigs])
      PROVE  /\ EntriesKept /\ OkKept
             /\ \E p \in Post : /\ p.by = g /\ p.req \in e.request
                                /\ posts' = posts \cup {p}
             /\ \E m : m.type = "start" /\ Send(m)
  <2>1. i \in DOMAIN entries[g]
    BY DEF GetSign, SignIn, TypeInv, TypeOK
  <2>2. stored \in [Guard -> Seq(Entry)]
    <3>1. entries[g] \in Seq(Entry) /\ t.id \in 1 .. Len(entries[g])
      BY <1>2, LenProperties DEF TypeInv, TypeOK
    <3>2. x \in Entry
      <4>1. sigs \in SUBSET Approval
        <5>1. e.sigs \in SUBSET Approval /\ t.sig \in Approval
          BY <1>1, <1>2, <1>3 DEF Entry, Task
        <5> QED BY <5>1 DEF StoreSig
      <4> HIDE DEF sigs
      <4> QED BY <1>3, <4>1 DEF Entry
    <3>3. stored = [entries EXCEPT ![g] = [@ EXCEPT ![t.id] = x]]
      BY <1>2 DEF TypeInv, TypeOK
    <3>4. [entries[g] EXCEPT ![t.id] = x] \in Seq(Entry)
      <4> HIDE DEF x
      <4> QED BY <3>1, <3>2, ExceptSeq
    <3> HIDE DEF x, stored
    <3> QED BY <3>3, <3>4 DEF TypeInv, TypeOK
  <2> DEFINE y == [stored[g][i] EXCEPT !.posted = TRUE]
  <2>3. entries' = [stored EXCEPT ![g] = [@ EXCEPT ![i] = y]]
    <3> HIDE DEF stored
    <3> QED BY <1>4, <1>7, <2>1, <2>2
  <2>4. y.msg = stored[g][i].msg /\ y.answer = stored[g][i].answer
        /\ y.request = stored[g][i].request
    <3> HIDE DEF stored
    <3>1. stored[g][i] \in Entry
      BY <1>4, <2>1, <2>2
    <3> QED BY <3>1 DEF Entry
  <2>5. EntriesKept /\ OkKept
    <3> HIDE DEF stored, y
    <3>1. \A h \in Guard :
             /\ DOMAIN entries'[h] = DOMAIN stored[h]
             /\ \A j \in DOMAIN stored[h] :
                   entries'[h][j] = IF h = g /\ j = i THEN y ELSE stored[h][j]
      BY <1>4, <2>1, <2>2, <2>3
    <3> QED BY <1>4, <2>4, <3>1 DEF EntriesKept, OkKept
  <2>6. \E p \in Post : /\ p.by = g /\ p.req \in e.request
                        /\ posts' = posts \cup {p}
    <3> DEFINE peers == ApprovedGuards(g, req, sigs)
               p == [by |-> g, req |-> req, peers |-> peers]
    <3>1. req \in Request
      BY <1>3 DEF Entry
    <3>2. peers \in SUBSET Guard
      BY <3>1 DEF ApprovedGuards, Request
    <3>3. posts' = posts \cup {p}
      BY <1>7 DEF Posting
    <3> HIDE DEF peers
    <3>4. p \in Post /\ p.by = g /\ p.req = req
      BY <3>1, <3>2 DEF Post
    <3> HIDE DEF p
    <3> QED BY <3>3, <3>4
  <2>7. \E m : m.type = "start" /\ Send(m)
    BY <1>7
  <2> QED BY <2>5, <2>6, <2>7
<1> HIDE DEF t, sigs, stored
<1> QED BY <1>2, <1>5, <1>6, <1>7

\* A verified result: the only step that tells a caller its message is signed.
LEMMA KeptVerified ==
    ASSUME TypeInv, NEW g \in Guard, NEW v \in verifying[g], Verified(g, v)
    PROVE  /\ EntriesKept
           /\ \/ OkKept /\ UNCHANGED cache
              \/ /\ v.good /\ v.id \in DOMAIN entries[g]
                 /\ OnlySettled(g, v.id, "ok")
                 /\ cache' = [cache EXCEPT ![g] = @ \cup {entries[g][v.id].msg}]
<1>1. v.id \in DOMAIN entries[g]
  BY DEF TypeInv, RefsOK
<1>2. CASE UNCHANGED <<entries, cache>>
  BY <1>2, KeptUnchanged
<1>3. CASE /\ v.good
           /\ entries' = [entries EXCEPT ![g][v.id] = Settle(@, "ok")]
           /\ cache' = [cache EXCEPT ![g] = @ \cup {entries[g][v.id].msg}]
  <2>1. PICK i \in DOMAIN entries[g] :
           i = v.id /\ entries' = [entries EXCEPT ![g][i] = Settle(@, "ok")]
    BY <1>1, <1>3
  <2>2. TypeOK
    BY DEF TypeInv
  <2>3. EntriesKept /\ OnlySettled(g, i, "ok")
    BY <2>1, <2>2, SettledKept
  <2> QED BY <1>1, <1>3, <2>1, <2>3
<1> QED BY <1>2, <1>3 DEF Verified, SignVerified

-----------------------------------------------------------------------------
(***************************************************************************)
(* Only what the application asked for is queued, approved or started      *)
(***************************************************************************)

\* Queued and waiting messages were asked for, and so was everything a guard
\* approved or started; the request of an entry is for its message.
EntriesAsked ==
    \A g \in Guard : \A i \in DOMAIN entries[g] :
        /\ Asked(g, entries[g][i].msg)
        /\ \A r \in entries[g][i].request : r.msg = entries[g][i].msg

LockAsked ==
    \A g \in Guard : \A k \in 1 .. Len(lock[g]) :
        lock[g][k].kind = "add" => Asked(g, lock[g][k].msg)

AskedInv == EntriesAsked /\ LockAsked /\ OnlyAskedIsSigned

\* What the application asked for stays asked for.
AskedGrows == \A g \in Guard : \A m \in Msgs : asked[g][m] > 0 => asked'[g][m] > 0

LEMMA AskedInit == ASSUME Init PROVE AskedInv
<1>1. Len(<<>>) = 0 /\ DOMAIN <<>> = {}
  OBVIOUS
<1> QED BY <1>1 DEF Init, AskedInv, EntriesAsked, LockAsked, OnlyAskedIsSigned

\* A step adds at most one task, and queues only what was asked for.
NewTasksAsked ==
    \/ UNCHANGED lock
    \/ NoNewTask
    \/ \E g \in Guard, t \in Task :
          /\ t.kind = "add" => asked'[g][t.msg] > 0
          /\ OnlyNewTask(g, t)

LEMMA LockAskedKept ==
    ASSUME TypeOK, LockAsked, AskedGrows,
           NewTasksAsked
    PROVE  LockAsked'
<1>1. \A g \in Guard : \A k \in 1 .. Len(lock[g]) :
         lock[g][k].kind = "add" => lock[g][k].msg \in Msgs
  <2>1. ASSUME NEW g \in Guard, NEW k \in 1 .. Len(lock[g])
        PROVE  lock[g][k] \in Task
    BY LenProperties DEF TypeOK
  <2> QED BY <2>1 DEF Task
<1>2. \A g \in Guard : \A k \in 1 .. Len(lock[g]) :
         lock[g][k].kind = "add" => asked'[g][lock[g][k].msg] > 0
  BY <1>1 DEF LockAsked, AskedGrows, Asked
<1>3. CASE UNCHANGED lock
  BY <1>2, <1>3 DEF LockAsked, Asked
<1>4. CASE NoNewTask
  <2>1. ASSUME NEW h \in Guard, NEW k \in 1 .. Len(lock'[h]), lock'[h][k].kind = "add"
        PROVE  asked'[h][lock'[h][k].msg] > 0
    BY <1>2, <1>4, <2>1 DEF NoNewTask
  <2> QED BY <2>1 DEF LockAsked, Asked
<1>5. ASSUME NEW g \in Guard, NEW t \in Task, t.kind = "add" => asked'[g][t.msg] > 0,
             OnlyNewTask(g, t)
      PROVE  LockAsked'
  <2>1. ASSUME NEW h \in Guard, NEW k \in 1 .. Len(lock'[h]), lock'[h][k].kind = "add"
        PROVE  asked'[h][lock'[h][k].msg] > 0
    <3>1. CASE h = g /\ lock'[h][k] = t
      BY <1>5, <2>1, <3>1
    <3>2. CASE \E j \in 1 .. Len(lock[h]) : lock'[h][k] = lock[h][j]
      BY <1>2, <2>1, <3>2
    <3> QED BY <1>5, <2>1, <3>1, <3>2 DEF OnlyNewTask
  <2> QED BY <2>1 DEF LockAsked, Asked
<1> QED BY <1>3, <1>4, <1>5 DEF NewTasksAsked

\* A step of g approves at most one request, and starts at most one signing,
\* for messages its application asked for.
LEMMA HistoryKept ==
    ASSUME TypeOK, OnlyAskedIsSigned, AskedGrows,
           \/ UNCHANGED approvals
           \/ \E g \in Guard, r \in Request :
                 /\ asked'[g][r.msg] > 0
                 /\ approvals' = approvals \cup {[by |-> g, req |-> r]},
           \/ UNCHANGED posts
           \/ \E p \in Post : asked'[p.by][p.req.msg] > 0 /\ posts' = posts \cup {p}
    PROVE  OnlyAskedIsSigned'
<1>1. \A a \in approvals : a.by \in Guard /\ a.req.msg \in Msgs
  BY DEF TypeOK, Approval, Request
<1>2. \A p \in posts : p.by \in Guard /\ p.req.msg \in Msgs
  BY DEF TypeOK, Post, Request
<1>3. \A a \in approvals' : asked'[a.by][a.req.msg] > 0
  BY <1>1 DEF OnlyAskedIsSigned, AskedGrows
<1>4. \A p \in posts' : asked'[p.by][p.req.msg] > 0
  BY <1>2 DEF OnlyAskedIsSigned, AskedGrows
<1> QED BY <1>3, <1>4 DEF OnlyAskedIsSigned

\* The entries of a step that adds none.
LEMMA EntriesAskedKept ==
    ASSUME TypeOK, EntriesAsked, AskedGrows, EntriesKept
    PROVE  EntriesAsked'
<1>1. \A g \in Guard : \A i \in DOMAIN entries[g] :
         entries[g][i].msg \in Msgs /\ asked'[g][entries[g][i].msg] > 0
  <2>1. ASSUME NEW g \in Guard, NEW i \in DOMAIN entries[g]
        PROVE  entries[g][i].msg \in Msgs
    <3>1. entries[g][i] \in Entry
      BY DEF TypeOK
    <3> QED BY <3>1 DEF Entry
  <2> QED BY <2>1 DEF EntriesAsked, AskedGrows, Asked
<1> QED BY <1>1 DEF EntriesAsked, EntriesKept, Asked

LEMMA TasksOther ==
    ASSUME TypeOK, NEW g \in Guard, NEW t \in Task, t.kind # "add", Acquire(g, t)
    PROVE  NewTasksAsked
BY AcquireTasks DEF NewTasksAsked

\* Every step takes at most one place in a queue; only sign() queues an "add".
LEMMA TasksLocal ==
    ASSUME TypeInv, NEW g \in Guard, LocalStep(g)
    PROVE  NewTasksAsked
<1>1. TypeOK /\ LockOK
  BY DEF TypeInv, TypeOK, RefsOK, LockOK
<1>2. CASE lock[g] # <<>> /\ Release(g)
  BY <1>1, <1>2, ReleaseTasks DEF NewTasksAsked
<1>3. ASSUME NEW i \in DOMAIN entries[g], NEW req, NEW peers, lock[g] # <<>>,
             Posting(g, i, req, peers)
      PROVE  NewTasksAsked
  <2>1. i \in Nat \ {0}
    BY <1>1 DEF TypeOK
  <2>2. PICK t \in Task : t.kind = "posting" /\ OnlyNewTask(g, t)
    BY <1>1, <1>3, <2>1, PostingTasks
  <2> QED BY <2>2 DEF NewTasksAsked
<1>4. \A m : GetSign(g, m, FALSE) \subseteq DOMAIN entries[g]
  BY <1>1 DEF GetSign, SignIn, TypeOK
<1>5. CASE HandleApprove(g)
  BY <1>2, <1>3, <1>4, <1>5 DEF HandleApprove, Holds
<1>6. CASE HandleStart(g)
  BY <1>2, <1>3, <1>4, <1>6 DEF HandleStart, Holds
<1>7. CASE UpdateTurn(g)
  BY <1>7 DEF UpdateTurn, NewTasksAsked
<1>8. CASE UpdateLoop(g)
  <2>1. CASE UNCHANGED lock
    BY <2>1 DEF NewTasksAsked
  <2>2. ASSUME NEW i \in upd[g].todo,
               Acquire(g, [kind |-> "request", id |-> i,
                           guards |-> upd[g].guards, ts |-> upd[g].ts])
        PROVE  NewTasksAsked
    <3>1. upd[g] \in Update /\ i \in Nat \ {0}
      BY <1>1 DEF TypeOK, Update
    <3>2. PICK t \in Task : t.kind = "request" /\ Acquire(g, t)
      BY <2>2, <3>1 DEF Task, Update
    <3> QED BY <1>1, <3>2, TasksOther
  <2> QED BY <1>8, <2>1, <2>2 DEF UpdateLoop
<1>9. CASE AddSign(g) \/ Cleanup(g) \/ SetRequest(g) \/ PostFailed(g) \/ RemoveSign(g)
  BY <1>2, <1>9 DEF AddSign, Cleanup, SetRequest, PostFailed, RemoveSign, Holds
<1> QED BY <1>5, <1>6, <1>7, <1>8, <1>9 DEF LocalStep

LEMMA TasksEvent ==
    ASSUME TypeInv, NEW g \in Guard, Event(g)
    PROVE  NewTasksAsked
<1>1. TypeOK
  BY DEF TypeInv
<1>2. CASE UNCHANGED lock
  BY <1>2 DEF NewTasksAsked
<1>3. ASSUME NEW m \in Msgs, Acquire(g, [kind |-> "remove", msg |-> m])
      PROVE  NewTasksAsked
  <2>1. PICK t \in Task : t.kind = "remove" /\ Acquire(g, t)
    BY <1>3 DEF Task
  <2> QED BY <1>1, <2>1, TasksOther
<1>4. CASE UpdateBegin(g)
  <2>1. now \in Nat /\ now - Timeout \in Int
    BY <1>1, ConstantsAssumption DEF TypeOK
  <2>2. GuardTurn(now) \in Guard
    BY <2>1, TurnIsGuard
  <2>3. PICK t \in Task : t.kind = "cleanup" /\ Acquire(g, t)
    BY <1>4, <2>1, <2>2 DEF UpdateBegin, Task
  <2> QED BY <1>1, <2>3, TasksOther
<1>5. CASE PostAnswered(g)
  BY <1>5, AnsweredTasks DEF NewTasksAsked
<1>6. CASE UpdateStart(g) \/ \E m \in Msgs : ExpireCache(g, m)
  BY <1>2, <1>6 DEF UpdateStart, ExpireCache
<1>7. ASSUME NEW m \in net,
             ReceiveRequest(g, m) \/ RegisterAnswered(g, m) \/ ReceiveCached(g, m)
      PROVE  NewTasksAsked
  BY <1>2, <1>7 DEF ReceiveRequest, RegisterAnswered, ReceiveCached
<1>8. ASSUME NEW m \in net, ReceiveApprove(g, m) PROVE NewTasksAsked
  <2>1. PICK i \in GetSign(g, m.req.msg, FALSE), a \in m.sigs :
           Acquire(g, [kind |-> "approve", id |-> i, sig |-> a])
    BY <1>8 DEF ReceiveApprove
  <2>2. i \in Nat \ {0} /\ a \in Approval
    BY <1>1 DEF GetSign, SignIn, TypeOK, Message
  <2>3. PICK t \in Task : t.kind = "approve" /\ Acquire(g, t)
    BY <2>1, <2>2 DEF Task
  <2> QED BY <1>1, <2>3, TasksOther
<1>9. ASSUME NEW m \in net, ReceiveStart(g, m) PROVE NewTasksAsked
  <2> DEFINE req == [m.req EXCEPT !.init = m.from]
             peers == ApprovedGuards(g, req, m.sigs)
  <2>1. req \in Request
    <3>1. m.req \in Request /\ m.from \in Guard
      BY <1>1 DEF TypeOK, Message
    <3> QED BY <3>1 DEF Request
  <2>2. peers \in SUBSET Guard
    BY <2>1 DEF ApprovedGuards, Request
  <2>3. Acquire(g, [kind |-> "start", req |-> req, peers |-> peers])
    BY <1>9 DEF ReceiveStart
  <2> HIDE DEF req, peers
  <2>4. PICK t \in Task : t.kind = "start" /\ Acquire(g, t)
    BY <2>1, <2>2, <2>3 DEF Task
  <2> QED BY <1>1, <2>4, TasksOther
<1>10. ASSUME NEW p \in awaiting[g], ReceiveResult(g, p) PROVE NewTasksAsked
  <2>1. p.req.msg \in Msgs
    BY <1>1 DEF TypeOK, Post, Request
  <2> QED BY <1>2, <1>3, <1>10, <2>1 DEF ReceiveResult
<1>11. ASSUME NEW v \in verifying[g], Verified(g, v) PROVE NewTasksAsked
  <2>1. entries[g][v.id] \in Entry
    BY DEF TypeInv, TypeOK, RefsOK
  <2>2. entries[g][v.id].msg \in Msgs
    BY <2>1 DEF Entry
  <2> QED BY <1>2, <1>3, <1>11, <2>2 DEF Verified
<1> QED BY <1>4, <1>5, <1>6, <1>7, <1>8, <1>9, <1>10, <1>11 DEF Event, OwnEvent

\* What answering a request adds to the history.
LEMMA AnswerHistory ==
    ASSUME NEW g, NEW req, NEW q, AnswerRequest(g, req, q)
    PROVE  \/ UNCHANGED approvals
           \/ q /\ approvals' = approvals \cup {[by |-> g, req |-> req]}
BY DEF AnswerRequest, SendCached, Approve, KeepPending

\* The message of a queued sign was asked for.
LEMMA QueuedAsked ==
    ASSUME TypeOK, EntriesAsked, NEW g \in Guard, NEW m, GetSign(g, m, FALSE) # {}
    PROVE  Asked(g, m)
<1>1. PICK i \in GetSign(g, m, FALSE) : TRUE
  OBVIOUS
<1>2. i \in DOMAIN entries[g] /\ entries[g][i].msg = m
  BY <1>1 DEF GetSign, SignIn, TypeOK
<1> QED BY <1>2 DEF EntriesAsked

\* sign(): what it queues was just asked for.
LEMMA AskedSign ==
    ASSUME TypeInv, AskedInv, NEW g \in Guard, NEW m \in Msgs, Sign(g, m)
    PROVE  AskedInv'
<1>1. TypeOK /\ EntriesAsked /\ LockAsked /\ OnlyAskedIsSigned
  BY DEF TypeInv, AskedInv
<1>2. asked[g] \in [Msgs -> Nat] /\ asked' = [asked EXCEPT ![g][m] = @ + 1]
  BY <1>1 DEF TypeOK, Sign
<1>3. AskedGrows /\ asked'[g][m] > 0
  BY <1>1, <1>2 DEF TypeOK, AskedGrows
<1>4. NewTasksAsked
  <2>1. CASE UNCHANGED lock
    BY <2>1 DEF NewTasksAsked
  <2>2. CASE Acquire(g, [kind |-> "add", msg |-> m])
    <3>1. PICK t \in Task : t.msg = m /\ Acquire(g, t)
      BY <2>2 DEF Task
    <3> QED BY <1>1, <1>3, <3>1, AcquireTasks DEF NewTasksAsked
  <2> QED BY <2>1, <2>2 DEF Sign
<1>5. UNCHANGED <<entries, approvals, posts>>
  BY DEF Sign
<1> QED BY <1>1, <1>3, <1>4, <1>5, LockAskedKept, EntriesAskedKept, HistoryKept,
           KeptUnchanged DEF AskedInv

\* The rest of sign(): the new entry is for a message asked for.
LEMMA AskedAddSign ==
    ASSUME TypeInv, AskedInv, NEW g \in Guard, AddSign(g)
    PROVE  AskedInv'
<1>1. TypeOK /\ EntriesAsked /\ LockAsked /\ OnlyAskedIsSigned /\ LockOK
  BY DEF TypeInv, TypeOK, RefsOK, LockOK, AskedInv
<1> DEFINE m == Head(lock[g]).msg
<1>2. lock[g] # <<>> /\ Head(lock[g]).kind = "add" /\ UNCHANGED <<asked, posts>>
  BY DEF AddSign, Holds
<1>3. Asked(g, m)
  BY <1>1, <1>2, TailTask DEF LockAsked, LockOK
<1>4. AskedGrows
  BY <1>2 DEF AskedGrows
<1>5. LockAsked'
  <2>1. LocalStep(g)
    BY DEF LocalStep
  <2> QED BY <1>1, <1>4, <2>1, TasksLocal, LockAskedKept
<1>6. OnlyAskedIsSigned'
  <2>1. CASE UNCHANGED approvals
    BY <1>1, <1>2, <1>4, <2>1, HistoryKept
  <2>2. ASSUME NEW p \in PendingOf(g, m),
               approvals' = approvals \cup {[by |-> g, req |-> p]}
        PROVE  OnlyAskedIsSigned'
    <3>1. p \in Request /\ p.msg = m
      BY <1>1 DEF PendingOf, TypeOK
    <3>2. asked'[g][p.msg] > 0
      BY <1>2, <1>3, <3>1 DEF Asked
    <3> QED BY <1>1, <1>2, <1>4, <2>2, <3>1, <3>2, HistoryKept
  <2> QED BY <2>1, <2>2, AnswerHistory DEF AddSign
<1>7. PICK e : /\ e.msg = m /\ e.request = {}
               /\ entries' = [entries EXCEPT ![g] = Append(entries[g], e)]
  BY DEF AddSign
<1>8. EntriesAsked'
  <2>1. entries[g] \in Seq(Entry) /\ entries'[g] = Append(entries[g], e)
        /\ \A h \in Guard : h # g => entries'[h] = entries[h]
    BY <1>1, <1>7 DEF TypeOK
  <2>2. \A i \in DOMAIN entries'[g] :
           \/ entries'[g][i] = e
           \/ i \in DOMAIN entries[g] /\ entries'[g][i] = entries[g][i]
    BY <2>1
  <2> HIDE DEF m
  <2>3. \A i \in DOMAIN entries'[g] :
           /\ asked'[g][entries'[g][i].msg] > 0
           /\ \A r \in entries'[g][i].request : r.msg = entries'[g][i].msg
    BY <1>1, <1>2, <1>3, <1>7, <2>2 DEF EntriesAsked, Asked
  <2>4. \A h \in Guard : h # g => \A i \in DOMAIN entries'[h] :
           /\ asked'[h][entries'[h][i].msg] > 0
           /\ \A r \in entries'[h][i].request : r.msg = entries'[h][i].msg
    BY <1>1, <1>2, <2>1 DEF EntriesAsked, Asked
  <2> QED BY <2>3, <2>4 DEF EntriesAsked, Asked
<1> QED BY <1>5, <1>6, <1>8 DEF AskedInv

\* Steps that keep the entries and sign, or start, at most what is queued.
LEMMA AskedKept ==
    ASSUME TypeInv, AskedInv, NewTasksAsked, EntriesKept, UNCHANGED asked,
           \/ UNCHANGED approvals
           \/ \E g \in Guard, r \in Request :
                 /\ asked[g][r.msg] > 0
                 /\ approvals' = approvals \cup {[by |-> g, req |-> r]},
           \/ UNCHANGED posts
           \/ \E p \in Post : asked[p.by][p.req.msg] > 0 /\ posts' = posts \cup {p}
    PROVE  AskedInv'
<1>1. TypeOK /\ EntriesAsked /\ LockAsked /\ OnlyAskedIsSigned
  BY DEF TypeInv, AskedInv
<1>2. AskedGrows
  BY DEF AskedGrows
<1>3. EntriesAsked' /\ LockAsked'
  BY <1>1, <1>2, LockAskedKept, EntriesAskedKept
<1>4. OnlyAskedIsSigned'
  BY <1>1, <1>2, HistoryKept
<1> QED BY <1>3, <1>4 DEF AskedInv

\* Which history a step of g other than sign() makes.
ApprovesAsked(g) ==
    \/ UNCHANGED approvals
    \/ \E r \in Request : /\ asked[g][r.msg] > 0
                          /\ approvals' = approvals \cup {[by |-> g, req |-> r]}

StartsAsked(g) ==
    \/ UNCHANGED posts
    \/ \E p \in Post : /\ p.by = g /\ asked[g][p.req.msg] > 0
                       /\ posts' = posts \cup {p}

LEMMA HistoryLocal ==
    ASSUME TypeInv, AskedInv, NEW g \in Guard, LocalStep(g), ~AddSign(g)
    PROVE  /\ EntriesKept /\ UNCHANGED asked
           /\ ApprovesAsked(g) /\ StartsAsked(g)
<1>1. TypeOK /\ EntriesAsked
  BY DEF TypeInv, AskedInv
<1>2. CASE Cleanup(g) \/ UpdateTurn(g) \/ UpdateLoop(g) \/ RemoveSign(g)
  <2>1. UNCHANGED <<entries, asked, approvals, posts>>
    BY <1>2 DEF Cleanup, UpdateTurn, UpdateLoop, RemoveSign
  <2> QED BY <2>1, KeptUnchanged DEF ApprovesAsked, StartsAsked
<1>3. CASE SetRequest(g)
  <2>1. UNCHANGED <<asked, posts>>
    BY <1>3 DEF SetRequest
  <2>2. EntriesKept
    BY <1>3, KeptSetRequest
  <2>3. PICK i \in DOMAIN entries[g], req \in Request :
           /\ req.msg = entries[g][i].msg
           /\ approvals' = approvals \cup {[by |-> g, req |-> req]}
    BY <1>3, KeptSetRequest
  <2>4. asked[g][req.msg] > 0
    BY <1>1, <2>3 DEF EntriesAsked, Asked
  <2> QED BY <2>1, <2>2, <2>3, <2>4 DEF ApprovesAsked, StartsAsked
<1>4. CASE HandleApprove(g)
  <2>1. UNCHANGED <<asked, approvals>>
    BY <1>4 DEF HandleApprove
  <2>2. EntriesKept
    BY <1>4, KeptHandleApprove
  <2>3. \/ UNCHANGED posts
        \/ \E i \in DOMAIN entries[g], p \in Post :
              /\ p.by = g /\ p.req \in entries[g][i].request
              /\ posts' = posts \cup {p}
    BY <1>4, KeptHandleApprove
  <2>4. \A i \in DOMAIN entries[g] : \A r \in entries[g][i].request : asked[g][r.msg] > 0
    BY <1>1 DEF EntriesAsked, Asked
  <2> QED BY <2>1, <2>2, <2>3, <2>4 DEF ApprovesAsked, StartsAsked
<1>5. CASE HandleStart(g)
  <2>1. UNCHANGED <<asked, approvals>>
    BY <1>5 DEF HandleStart
  <2>2. EntriesKept
    BY <1>5, KeptHandleStart
  <2>3. \/ UNCHANGED posts
        \/ \E i \in DOMAIN entries[g], p \in Post :
              /\ p.by = g /\ p.req.msg = entries[g][i].msg
              /\ posts' = posts \cup {p}
    BY <1>5, KeptHandleStart
  <2>4. \A i \in DOMAIN entries[g] : asked[g][entries[g][i].msg] > 0
    BY <1>1 DEF EntriesAsked, Asked
  <2> QED BY <2>1, <2>2, <2>3, <2>4 DEF ApprovesAsked, StartsAsked
<1>6. CASE PostFailed(g)
  BY <1>6, KeptPostFailed DEF PostFailed, ApprovesAsked, StartsAsked
<1> QED BY <1>2, <1>3, <1>4, <1>5, <1>6 DEF LocalStep

LEMMA HistoryEvent ==
    ASSUME TypeInv, AskedInv, NEW g \in Guard, Event(g)
    PROVE  /\ EntriesKept /\ UNCHANGED asked
           /\ ApprovesAsked(g) /\ StartsAsked(g)
<1>1. TypeOK /\ EntriesAsked
  BY DEF TypeInv, AskedInv
<1>2. CASE OwnEvent(g) \/ \E m \in Msgs : ExpireCache(g, m)
  <2>1. UNCHANGED <<entries, asked, approvals, posts>>
    BY <1>2 DEF OwnEvent, UpdateBegin, UpdateStart, PostAnswered, ExpireCache
  <2> QED BY <2>1, KeptUnchanged DEF ApprovesAsked, StartsAsked
<1>3. ASSUME NEW m \in net,
             ReceiveApprove(g, m) \/ ReceiveStart(g, m) \/ ReceiveCached(g, m)
      PROVE  UNCHANGED <<entries, asked, approvals, posts>>
  BY <1>3 DEF ReceiveApprove, ReceiveStart, ReceiveCached
<1>4. ASSUME NEW m \in net, ReceiveRequest(g, m) \/ RegisterAnswered(g, m)
      PROVE  /\ EntriesKept /\ UNCHANGED asked
             /\ ApprovesAsked(g) /\ StartsAsked(g)
  <2>1. UNCHANGED <<entries, asked, posts>>
        /\ AnswerRequest(g, m.req, GetSign(g, m.req.msg, FALSE) # {})
    BY <1>4 DEF ReceiveRequest, RegisterAnswered
  <2>2. m.req \in Request
    BY <1>1 DEF TypeOK, Message
  <2>3. \/ UNCHANGED approvals
        \/ /\ GetSign(g, m.req.msg, FALSE) # {}
           /\ approvals' = approvals \cup {[by |-> g, req |-> m.req]}
    BY <2>1, AnswerHistory
  <2>4. GetSign(g, m.req.msg, FALSE) # {} => asked[g][m.req.msg] > 0
    BY <1>1, QueuedAsked DEF Asked
  <2> QED BY <2>1, <2>2, <2>3, <2>4, KeptUnchanged DEF ApprovesAsked, StartsAsked
<1>5. ASSUME NEW p \in awaiting[g], ReceiveResult(g, p)
      PROVE  EntriesKept /\ UNCHANGED <<asked, approvals, posts>>
  BY <1>5, KeptReceiveResult DEF ReceiveResult
<1>6. ASSUME NEW v \in verifying[g], Verified(g, v)
      PROVE  EntriesKept /\ UNCHANGED <<asked, approvals, posts>>
  BY <1>6, KeptVerified DEF Verified
<1> QED BY <1>2, <1>3, <1>4, <1>5, <1>6, KeptUnchanged DEF Event, ApprovesAsked, StartsAsked

LEMMA AskedRestart ==
    ASSUME TypeInv, AskedInv, NEW g \in Guard, Restart(g)
    PROVE  AskedInv'
<1>1. UNCHANGED <<approvals, posts, asked>>
  BY DEF Restart
<1>2. /\ DOMAIN entries'[g] = {} /\ Len(lock'[g]) = 0
      /\ \A h \in Guard \ {g} : entries'[h] = entries[h] /\ lock'[h] = lock[h]
  BY DEF Restart, TypeInv, TypeOK
<1> QED BY <1>1, <1>2 DEF AskedInv, EntriesAsked, LockAsked, OnlyAskedIsSigned, Asked

LEMMA AskedNext == ASSUME TypeInv, AskedInv, [Next]_vars PROVE AskedInv'
<1>1. CASE UNCHANGED vars \/ Tick
  BY <1>1 DEF vars, Tick, AskedInv, EntriesAsked, LockAsked, OnlyAskedIsSigned, Asked
<1>2. ASSUME NEW g \in Guard, NewTasksAsked, EntriesKept, UNCHANGED asked,
             ApprovesAsked(g), StartsAsked(g)
      PROVE  AskedInv'
  <2>1. \/ UNCHANGED approvals
        \/ \E h \in Guard, r \in Request :
              /\ asked[h][r.msg] > 0
              /\ approvals' = approvals \cup {[by |-> h, req |-> r]}
    BY <1>2 DEF ApprovesAsked
  <2>2. \/ UNCHANGED posts
        \/ \E p \in Post : asked[p.by][p.req.msg] > 0 /\ posts' = posts \cup {p}
    BY <1>2 DEF StartsAsked
  <2> QED BY <1>2, <2>1, <2>2, AskedKept
<1>3. ASSUME NEW g \in Guard, LocalStep(g) PROVE AskedInv'
  <2>1. CASE AddSign(g)
    BY <2>1, AskedAddSign
  <2>2. CASE ~AddSign(g)
    BY <1>2, <1>3, <2>2, TasksLocal, HistoryLocal
  <2> QED BY <2>1, <2>2
<1>4. ASSUME NEW g \in Guard, Event(g) PROVE AskedInv'
  BY <1>2, <1>4, TasksEvent, HistoryEvent
<1> QED BY <1>1, <1>3, <1>4, AskedSign, AskedRestart DEF Next

\* Whatever requests arrive, in whatever order: a guard approves, and starts to
\* sign, only messages its own application called sign() for.
THEOREM OnlyAskedCorrect == Spec => []OnlyAskedIsSigned
<1>1. Init => AskedInv
  BY AskedInit
<1>2. TypeInv /\ AskedInv /\ [Next]_vars => AskedInv'
  BY AskedNext
<1>3. AskedInv => OnlyAskedIsSigned
  BY DEF AskedInv
<1> QED BY <1>1, <1>2, <1>3, TypeCorrect, PTL DEF Spec

-----------------------------------------------------------------------------
(***************************************************************************)
(* What is handed out or cached is a signature                             *)
(***************************************************************************)

\* A verification that will succeed, and an announced cached result, are of
\* messages whose signature exists.
GoodSigned ==
    \A g \in Guard : \A v \in verifying[g] : v.good => Signed(entries[g][v.id].msg)

CachedSigned == \A m \in net : m.type = "cached" => Signed(m.req.msg)

OksSigned ==
    \A g \in Guard : \A i \in DOMAIN entries[g] :
        entries[g][i].answer = "ok" => Signed(entries[g][i].msg)

CacheSigned == \A g \in Guard : \A m \in cache[g] : Signed(m)

SignedInv == GoodSigned /\ CachedSigned /\ OksSigned /\ CacheSigned

\* A signature that exists goes on existing.
LEMMA SignedStays ==
    ASSUME posts \subseteq posts', NEW m, Signed(m)
    PROVE  Signed(m)'
<1>1. PICK p \in posts :
         /\ p.req.msg = m
         /\ Cardinality(p.peers) >= Threshold
         /\ \A h \in p.peers :
                \E q \in posts : q.by = h /\ q.req.msg = m /\ q.peers = p.peers
  BY DEF Signed
<1>2. \A h \in p.peers :
         \E q \in posts' : q.by = h /\ q.req.msg = m /\ q.peers = p.peers
  BY <1>1
<1> QED BY <1>1, <1>2 DEF Signed

\* All signatures at once.
StillSigned == \A m : Signed(m) => Signed(m)'

LEMMA PostsGrow == ASSUME posts \subseteq posts' PROVE StillSigned
<1>1. ASSUME NEW m, Signed(m) PROVE Signed(m)'
  BY <1>1, SignedStays
<1> QED BY <1>1 DEF StillSigned

LEMMA SignedInit == ASSUME Init PROVE SignedInv
<1>1. DOMAIN <<>> = {}
  OBVIOUS
<1> QED BY <1>1 DEF Init, SignedInv, GoodSigned, CachedSigned, OksSigned, CacheSigned

\* What a step adds to the verifications and the messages.
NewVerified ==
    \A g \in Guard : \A v \in verifying'[g] :
        \/ v \in verifying[g]
        \/ v.id \in DOMAIN entries[g] /\ (v.good => Signed(entries[g][v.id].msg))

NewCached == \A m \in net' : m \in net \/ m.type # "cached" \/ Signed(m.req.msg)

LEMMA GoodKept ==
    ASSUME TypeInv, GoodSigned, StillSigned, NewVerified,
           \A h \in Guard : \A j \in DOMAIN entries[h] : entries'[h][j].msg = entries[h][j].msg
    PROVE  GoodSigned'
<1>1. ASSUME NEW g \in Guard, NEW v \in verifying'[g], v.good
      PROVE  Signed(entries[g][v.id].msg)'
  <2>1. v.id \in DOMAIN entries[g]
    BY DEF NewVerified, TypeInv, RefsOK
  <2>2. PICK x : x = entries[g][v.id].msg
    OBVIOUS
  <2>3. Signed(x)
    BY <1>1, <2>2 DEF NewVerified, GoodSigned
  <2>4. Signed(x)'
    BY <2>3 DEF StillSigned
  <2>5. entries'[g][v.id].msg = x
    BY <2>1, <2>2
  <2> QED BY <2>4, <2>5
<1> QED BY <1>1 DEF GoodSigned

LEMMA CachedKept ==
    ASSUME CachedSigned, StillSigned, NewCached
    PROVE  CachedSigned'
<1>1. ASSUME NEW m \in net', m.type = "cached" PROVE Signed(m.req.msg)'
  <2>1. Signed(m.req.msg)
    BY <1>1 DEF CachedSigned, NewCached
  <2> QED BY <2>1 DEF StillSigned
<1> QED BY <1>1 DEF CachedSigned

LEMMA OksStay ==
    ASSUME OksSigned, StillSigned,
           \A h \in Guard : \A j \in DOMAIN entries'[h] :
               entries'[h][j].answer = "ok" =>
                  \/ /\ j \in DOMAIN entries[h] /\ entries[h][j].answer = "ok"
                     /\ entries'[h][j].msg = entries[h][j].msg
                  \/ Signed(entries'[h][j].msg)
    PROVE  OksSigned'
<1>1. ASSUME NEW h \in Guard, NEW j \in DOMAIN entries'[h], entries'[h][j].answer = "ok"
      PROVE  Signed(entries[h][j].msg)'
  <2>1. PICK x : x = entries'[h][j].msg
    OBVIOUS
  <2>2. Signed(x)
    BY <1>1, <2>1 DEF OksSigned
  <2>3. Signed(x)'
    BY <2>2 DEF StillSigned
  <2> QED BY <2>1, <2>3
<1> QED BY <1>1 DEF OksSigned

LEMMA CacheStays ==
    ASSUME CacheSigned, StillSigned,
           \A h \in Guard : \A m \in cache'[h] : m \in cache[h] \/ Signed(m)
    PROVE  CacheSigned'
<1>1. ASSUME NEW h \in Guard, NEW m \in cache'[h] PROVE Signed(m)'
  BY DEF CacheSigned, StillSigned
<1> QED BY <1>1 DEF CacheSigned

\* Steps that hand out nothing.
LEMMA SignedKept ==
    ASSUME TypeInv, SignedInv, posts \subseteq posts', EntriesKept, OkKept,
           NewVerified, NewCached, UNCHANGED cache
    PROVE  SignedInv'
<1>1. StillSigned
  BY PostsGrow
<1>2. GoodSigned'
  BY <1>1, GoodKept DEF EntriesKept, SignedInv
<1>3. CachedSigned'
  BY <1>1, CachedKept DEF SignedInv
<1>4. OksSigned'
  BY <1>1, OksStay DEF SignedInv, EntriesKept, OkKept
<1>5. CacheSigned'
  BY <1>1, CacheStays DEF SignedInv
<1> QED BY <1>2, <1>3, <1>4, <1>5 DEF SignedInv

LEMMA SameVerified == ASSUME UNCHANGED verifying PROVE NewVerified
BY DEF NewVerified

LEMMA SentOther ==
    ASSUME NEW m, m.type # "cached", UNCHANGED net \/ Send(m) PROVE NewCached
BY DEF NewCached, Send

\* An announcement of a cached result follows from the cache.
LEMMA AnswerCached ==
    ASSUME CacheSigned, NEW g \in Guard, NEW req, NEW q, AnswerRequest(g, req, q)
    PROVE  NewCached
<1> DEFINE c == [type |-> "cached", from |-> g, to |-> {req.init}, req |-> req,
                 sigs |-> {}]
           a == [type |-> "approve", from |-> g, to |-> {req.init}, req |-> req,
                 sigs |-> {[by |-> g, req |-> req]}]
<1>1. c.req = req /\ a.type # "cached"
  OBVIOUS
<1>2. CASE req.msg \in cache[g] /\ Send(c)
  <2>1. Signed(c.req.msg)
    BY <1>1, <1>2 DEF CacheSigned
  <2> HIDE DEF c
  <2> QED BY <1>2, <2>1 DEF NewCached, Send
<1>3. CASE Send(a)
  <2> HIDE DEF a
  <2> QED BY <1>1, <1>3, SentOther
<1>4. CASE UNCHANGED net
  BY <1>4 DEF NewCached
<1> QED BY <1>2, <1>3, <1>4 DEF AnswerRequest, SendCached, Approve

LEMMA SignedLocal ==
    ASSUME TypeInv, SignedInv, NEW g \in Guard, LocalStep(g), ~AddSign(g)
    PROVE  SignedInv'
<1>1. UNCHANGED <<verifying, cache>>
  BY DEF LocalStep, Cleanup, UpdateTurn, UpdateLoop, SetRequest, HandleApprove,
         HandleStart, PostFailed, RemoveSign
<1>2. NewVerified
  BY <1>1, SameVerified
<1>3. UNCHANGED net => NewCached
  BY DEF NewCached
<1>4. CASE Cleanup(g) \/ UpdateTurn(g) \/ RemoveSign(g)
  <2>1. UNCHANGED <<entries, posts, net>>
    BY <1>4 DEF Cleanup, UpdateTurn, RemoveSign
  <2> QED BY <1>1, <1>2, <1>3, <2>1, KeptUnchanged, SignedKept
<1>5. CASE UpdateLoop(g)
  <2>1. UNCHANGED <<entries, posts>>
    BY <1>5 DEF UpdateLoop
  <2>2. NewCached
    <3>1. CASE UNCHANGED net
      BY <1>3, <3>1
    <3>2. ASSUME NEW i, Send([type |-> "request", from |-> g, to |-> Guard \ {g},
                              req |-> RequestOf(g, i, upd[g].guards, upd[g].ts),
                              sigs |-> {}])
          PROVE  NewCached
      <4> DEFINE m == [type |-> "request", from |-> g, to |-> Guard \ {g},
                       req |-> RequestOf(g, i, upd[g].guards, upd[g].ts), sigs |-> {}]
      <4>1. m.type # "cached"
        OBVIOUS
      <4>2. Send(m)
        BY <3>2
      <4> HIDE DEF m
      <4> QED BY <4>1, <4>2, SentOther
    <3> QED BY <1>5, <3>1, <3>2 DEF UpdateLoop
  <2> QED BY <1>1, <1>2, <2>1, <2>2, KeptUnchanged, SignedKept
<1>6. CASE SetRequest(g)
  BY <1>1, <1>2, <1>3, <1>6, KeptSetRequest, SignedKept DEF SetRequest
<1>7. CASE HandleApprove(g)
  <2>1. EntriesKept /\ OkKept
    BY <1>7, KeptHandleApprove
  <2>2. posts \subseteq posts' /\ NewCached
    <3>1. CASE UNCHANGED <<posts, net>>
      BY <1>3, <3>1
    <3>2. CASE ~UNCHANGED <<posts, net>>
      <4>1. PICK m : m.type = "start" /\ Send(m)
        BY <1>7, <3>2, KeptHandleApprove
      <4>2. posts \subseteq posts'
        BY <1>7, <3>2, KeptHandleApprove
      <4> QED BY <4>1, <4>2, SentOther
    <3> QED BY <3>1, <3>2
  <2> QED BY <1>1, <1>2, <2>1, <2>2, SignedKept
<1>8. CASE HandleStart(g)
  <2>1. EntriesKept /\ OkKept /\ posts \subseteq posts'
    BY <1>8, KeptHandleStart
  <2>2. UNCHANGED net
    BY <1>8 DEF HandleStart
  <2> QED BY <1>1, <1>2, <1>3, <2>1, <2>2, SignedKept
<1>9. CASE PostFailed(g)
  BY <1>1, <1>2, <1>3, <1>9, KeptPostFailed, SignedKept DEF PostFailed
<1> QED BY <1>4, <1>5, <1>6, <1>7, <1>8, <1>9 DEF LocalStep

\* A new entry has not been answered.
LEMMA SignedAddSign ==
    ASSUME TypeInv, SignedInv, NEW g \in Guard, AddSign(g)
    PROVE  SignedInv'
<1>1. UNCHANGED <<verifying, cache, posts>>
  BY DEF AddSign
<1>2. StillSigned /\ NewVerified
  BY <1>1, PostsGrow, SameVerified
<1>3. NewCached
  <2>1. CASE UNCHANGED net
    BY <2>1 DEF NewCached
  <2>2. CASE \E req, q : AnswerRequest(g, req, q)
    BY <2>2, AnswerCached DEF SignedInv
  <2> QED BY <2>1, <2>2 DEF AddSign
<1>4. PICK e : /\ e.answer = "none"
               /\ entries' = [entries EXCEPT ![g] = Append(entries[g], e)]
  BY DEF AddSign
<1>5. entries[g] \in Seq(Entry) /\ entries'[g] = Append(entries[g], e)
      /\ \A h \in Guard : h # g => entries'[h] = entries[h]
  BY <1>4 DEF TypeInv, TypeOK
<1>6. \A h \in Guard : \A j \in DOMAIN entries[h] :
         j \in DOMAIN entries'[h] /\ entries'[h][j] = entries[h][j]
  BY <1>5
<1>7. \A h \in Guard : \A j \in DOMAIN entries'[h] :
         \/ j \in DOMAIN entries[h] /\ entries'[h][j] = entries[h][j]
         \/ entries'[h][j] = e
  BY <1>5
<1>8. GoodSigned'
  BY <1>2, <1>6, GoodKept DEF SignedInv
<1>9. CachedSigned'
  BY <1>2, <1>3, CachedKept DEF SignedInv
<1>10. OksSigned'
  BY <1>2, <1>4, <1>7, OksStay DEF SignedInv
<1>11. CacheSigned'
  BY <1>1, <1>2, CacheStays DEF SignedInv
<1> QED BY <1>8, <1>9, <1>10, <1>11 DEF SignedInv

LEMMA SignedResult ==
    ASSUME TypeInv, SignedInv, NEW g \in Guard, NEW p \in awaiting[g], ReceiveResult(g, p)
    PROVE  SignedInv'
<1>1. UNCHANGED <<cache, posts, net>>
  BY DEF ReceiveResult
<1>2. EntriesKept /\ OkKept
  BY KeptReceiveResult
<1>3. NewVerified
  <2>1. CASE UNCHANGED verifying
    BY <2>1, SameVerified
  <2>2. ASSUME NEW i \in GetSign(g, p.req.msg, TRUE), NEW kind,
               kind = "signed" => Signed(p.req.msg),
               verifying' = [verifying EXCEPT ![g] =
                               @ \cup {[id |-> i, good |-> kind = "signed"]}]
        PROVE  NewVerified
    <3>1. i \in DOMAIN entries[g] /\ entries[g][i].msg = p.req.msg
      BY DEF GetSign, SignIn, TypeInv, TypeOK
    <3>2. PICK v : v = [id |-> i, good |-> kind = "signed"]
      OBVIOUS
    <3>3. v.id = i /\ (v.good => kind = "signed")
      BY <3>2
    <3>4. v.good => Signed(entries[g][v.id].msg)
      BY <2>2, <3>1, <3>3
    <3>5. /\ verifying'[g] = verifying[g] \cup {v}
          /\ \A h \in Guard : h # g => verifying'[h] = verifying[h]
      BY <2>2, <3>2 DEF TypeInv, TypeOK
    <3> QED BY <3>1, <3>3, <3>4, <3>5 DEF NewVerified
  <2> QED BY <2>1, <2>2 DEF ReceiveResult
<1>4. NewCached
  BY <1>1 DEF NewCached
<1> QED BY <1>1, <1>2, <1>3, <1>4, SignedKept

LEMMA SignedCached ==
    ASSUME TypeInv, SignedInv, NEW g \in Guard, NEW m \in net, ReceiveCached(g, m)
    PROVE  SignedInv'
<1>1. UNCHANGED <<entries, cache, posts, net>>
  BY DEF ReceiveCached
<1>2. EntriesKept /\ OkKept
  BY <1>1, KeptUnchanged
<1>3. PICK i \in GetSign(g, m.req.msg, FALSE) :
         verifying' = [verifying EXCEPT ![g] = @ \cup {[id |-> i, good |-> TRUE]}]
  BY DEF ReceiveCached
<1>4. i \in DOMAIN entries[g] /\ entries[g][i].msg = m.req.msg
  BY DEF GetSign, SignIn, TypeInv, TypeOK
<1>5. Signed(m.req.msg)
  BY DEF SignedInv, CachedSigned, ReceiveCached
<1>6. PICK v : v = [id |-> i, good |-> TRUE]
  OBVIOUS
<1>7. /\ verifying'[g] = verifying[g] \cup {v}
      /\ \A h \in Guard : h # g => verifying'[h] = verifying[h]
  BY <1>3, <1>6 DEF TypeInv, TypeOK
<1>8. v.id = i /\ Signed(entries[g][v.id].msg)
  BY <1>4, <1>5, <1>6
<1>9. NewVerified
  BY <1>4, <1>7, <1>8 DEF NewVerified
<1>10. NewCached
  BY <1>1 DEF NewCached
<1> QED BY <1>1, <1>2, <1>9, <1>10, SignedKept

\* A result is handed out: it was verified.
LEMMA SignedVerified ==
    ASSUME TypeInv, SignedInv, NEW g \in Guard, NEW v \in verifying[g], Verified(g, v)
    PROVE  SignedInv'
<1>1. UNCHANGED <<posts, net>>
  BY DEF Verified
<1>2. StillSigned
  BY <1>1, PostsGrow
<1>3. EntriesKept
  BY KeptVerified
<1>4. verifying' = [verifying EXCEPT ![g] = @ \ {v}]
  BY DEF Verified
<1>5. NewVerified
  BY <1>4 DEF NewVerified, TypeInv, TypeOK
<1>6. NewCached
  BY <1>1 DEF NewCached
<1>7. CASE OkKept /\ UNCHANGED cache
  BY <1>1, <1>3, <1>5, <1>6, <1>7, SignedKept
<1>8. CASE /\ v.good /\ v.id \in DOMAIN entries[g] /\ OnlySettled(g, v.id, "ok")
           /\ cache' = [cache EXCEPT ![g] = @ \cup {entries[g][v.id].msg}]
  <2>1. Signed(entries[g][v.id].msg)
    BY <1>8 DEF SignedInv, GoodSigned
  <2>2. GoodSigned'
    BY <1>2, <1>3, <1>5, GoodKept DEF EntriesKept, SignedInv
  <2>3. CachedSigned'
    BY <1>2, <1>6, CachedKept DEF SignedInv
  <2>4. \A h \in Guard : \A j \in DOMAIN entries'[h] :
           entries'[h][j].answer = "ok" =>
              \/ /\ j \in DOMAIN entries[h] /\ entries[h][j].answer = "ok"
                 /\ entries'[h][j].msg = entries[h][j].msg
              \/ Signed(entries'[h][j].msg)
    BY <1>3, <1>8, <2>1 DEF EntriesKept, OnlySettled
  <2>5. OksSigned'
    BY <1>2, <2>4, OksStay DEF SignedInv
  <2>6. \A h \in Guard : \A m \in cache'[h] : m \in cache[h] \/ Signed(m)
    BY <1>8, <2>1 DEF TypeInv, TypeOK
  <2>7. CacheSigned'
    BY <1>2, <2>6, CacheStays DEF SignedInv
  <2> QED BY <2>2, <2>3, <2>5, <2>7 DEF SignedInv
<1> QED BY <1>7, <1>8, KeptVerified

LEMMA SignedExpire ==
    ASSUME TypeInv, SignedInv, NEW g \in Guard, NEW m \in Msgs, ExpireCache(g, m)
    PROVE  SignedInv'
<1>1. UNCHANGED <<posts, net, entries, verifying>>
  BY DEF ExpireCache
<1>2. StillSigned /\ NewVerified /\ NewCached /\ EntriesKept /\ OkKept
  BY <1>1, PostsGrow, SameVerified, KeptUnchanged DEF NewCached
<1>3. GoodSigned' /\ CachedSigned' /\ OksSigned'
  BY <1>2, GoodKept, CachedKept, OksStay DEF EntriesKept, OkKept, SignedInv
<1>4. \A h \in Guard : \A x \in cache'[h] : x \in cache[h]
  BY DEF ExpireCache, TypeInv, TypeOK
<1>5. CacheSigned'
  BY <1>2, <1>4, CacheStays DEF SignedInv
<1> QED BY <1>3, <1>5 DEF SignedInv

LEMMA SignedRestart ==
    ASSUME TypeInv, SignedInv, NEW g \in Guard, Restart(g)
    PROVE  SignedInv'
<1>1. UNCHANGED <<posts, net>>
  BY DEF Restart
<1>2. StillSigned /\ NewCached
  BY <1>1, PostsGrow DEF NewCached
<1>3. /\ DOMAIN entries'[g] = {} /\ verifying'[g] = {} /\ cache'[g] = {}
      /\ \A h \in Guard \ {g} : /\ entries'[h] = entries[h]
                                /\ verifying'[h] = verifying[h]
                                /\ cache'[h] = cache[h]
  BY DEF Restart, TypeInv, TypeOK
<1>4. GoodSigned'
  <2>1. ASSUME NEW h \in Guard, NEW v \in verifying'[h], v.good
        PROVE  Signed(entries[h][v.id].msg)'
    <3>1. h # g
      BY <1>3
    <3>2. PICK x : x = entries[h][v.id].msg
      OBVIOUS
    <3>3. Signed(x)
      BY <1>3, <2>1, <3>1, <3>2 DEF SignedInv, GoodSigned
    <3>4. Signed(x)'
      BY <1>2, <3>3 DEF StillSigned
    <3>5. entries'[h][v.id].msg = x
      BY <1>3, <3>1, <3>2
    <3> QED BY <3>4, <3>5
  <2> QED BY <2>1 DEF GoodSigned
<1>5. CachedSigned'
  BY <1>2, CachedKept DEF SignedInv
<1>6. OksSigned'
  BY <1>2, <1>3, OksStay DEF SignedInv
<1>7. CacheSigned'
  BY <1>2, <1>3, CacheStays DEF SignedInv
<1> QED BY <1>4, <1>5, <1>6, <1>7 DEF SignedInv

LEMMA SignedNext == ASSUME TypeInv, SignedInv, [Next]_vars PROVE SignedInv'
<1>1. ASSUME UNCHANGED <<entries, posts, net, verifying, cache>> PROVE SignedInv'
  BY <1>1, KeptUnchanged, SameVerified, SignedKept DEF NewCached
<1>2. CASE UNCHANGED vars \/ Tick
  BY <1>1, <1>2 DEF vars, Tick
<1>3. ASSUME NEW g \in Guard, LocalStep(g) PROVE SignedInv'
  BY <1>3, SignedLocal, SignedAddSign
<1>4. ASSUME NEW g \in Guard, Event(g) PROVE SignedInv'
  <2>1. CASE OwnEvent(g)
    BY <1>1, <2>1 DEF OwnEvent, UpdateBegin, UpdateStart, PostAnswered
  <2>2. ASSUME NEW m \in net, ReceiveApprove(g, m) \/ ReceiveStart(g, m)
        PROVE  SignedInv'
    BY <1>1, <2>2 DEF ReceiveApprove, ReceiveStart
  <2>3. ASSUME NEW m \in net, ReceiveRequest(g, m) \/ RegisterAnswered(g, m)
        PROVE  SignedInv'
    <3>1. UNCHANGED <<entries, posts, verifying, cache>>
      BY <2>3 DEF ReceiveRequest, RegisterAnswered
    <3>2. NewCached
      BY <2>3, AnswerCached DEF ReceiveRequest, RegisterAnswered, SignedInv
    <3> QED BY <3>1, <3>2, KeptUnchanged, SameVerified, SignedKept
  <2> QED BY <1>4, <2>1, <2>2, <2>3, SignedCached, SignedResult, SignedVerified,
             SignedExpire DEF Event
<1>5. ASSUME NEW g \in Guard, NEW m \in Msgs, Sign(g, m) PROVE SignedInv'
  BY <1>1, <1>5 DEF Sign
<1> QED BY <1>2, <1>3, <1>4, <1>5, SignedRestart DEF Next

\* A caller is answered, and a result cached, only when enough peers of one
\* signing all ran it: no lost, late or repeated message or result, and no
\* restart, makes a guard hand out anything else.
THEOREM ResultsCorrect == Spec => []ResultsAreSignatures
<1>1. Init => SignedInv
  BY SignedInit
<1>2. TypeInv /\ SignedInv /\ [Next]_vars => SignedInv'
  BY SignedNext
<1>3. SignedInv => ResultsAreSignatures
  BY DEF SignedInv, OksSigned, CacheSigned, ResultsAreSignatures
<1> QED BY <1>1, <1>2, <1>3, TypeCorrect, PTL DEF Spec

-----------------------------------------------------------------------------
(***************************************************************************)
(* The signers implement the service                                       *)
(***************************************************************************)

\* A guard g tells its callers that m is signed.
TellsOk(g, m) ==
    \E i \in DOMAIN entries[g] : entries[g][i].msg = m /\ entries[g][i].answer = "ok"

LEMMA HeldIs == \A g \in Guard : \A m \in Msgs :
                   m \in Held[g] <=> (m \in cache[g] \/ TellsOk(g, m))
BY DEF Held, TellsOk

LEMMA HeldKept ==
    ASSUME EntriesKept, OkKept, UNCHANGED cache
    PROVE  Held' = Held
<1>1. ASSUME NEW g \in Guard, NEW m \in Msgs
      PROVE  (\E i \in DOMAIN entries'[g] :
                 entries'[g][i].msg = m /\ entries'[g][i].answer = "ok")
             <=> \E i \in DOMAIN entries[g] :
                    entries[g][i].msg = m /\ entries[g][i].answer = "ok"
  BY DEF EntriesKept, OkKept
<1> QED BY <1>1 DEF Held

LEMMA WantedKept == ASSUME UNCHANGED asked PROVE Wanted' = Wanted
BY DEF Wanted

LEMMA InitRefines == ASSUME Init PROVE Service!Init
<1>1. DOMAIN <<>> = {}
  OBVIOUS
<1>2. Wanted = [g \in Guard |-> {}]
  BY DEF Init, Wanted
<1>3. Held = [g \in Guard |-> {}]
  BY <1>1 DEF Init, Held
<1> QED BY <1>2, <1>3 DEF Init, Service!Init

LEMMA StutterRefines ==
    ASSUME Wanted' = Wanted, Held' = Held, UNCHANGED <<approvals, posts>>
    PROVE  [Service!Next]_(Service!vars)
BY DEF Service!vars

\* A step that signs an approval, starts a signing, or does neither.
LEMMA HistoryRefines ==
    ASSUME TypeOK, NEW g \in Guard, Wanted' = Wanted, Held' = Held,
           ApprovesAsked(g), StartsAsked(g), UNCHANGED approvals \/ UNCHANGED posts,
           PostedPeersApproved'
    PROVE  [Service!Next]_(Service!vars)
<1>1. CASE UNCHANGED <<approvals, posts>>
  BY <1>1, StutterRefines
<1>2. CASE approvals' # approvals
  <2>1. PICK r \in Request : /\ asked[g][r.msg] > 0
                             /\ approvals' = approvals \cup {[by |-> g, req |-> r]}
    BY <1>2 DEF ApprovesAsked
  <2>2. PICK a : a = [by |-> g, req |-> r]
    OBVIOUS
  <2>3. a.by = g /\ a.req = r /\ a \in approvals' \ approvals
    BY <1>2, <2>1, <2>2
  <2>4. r.msg \in Wanted[g]
    BY <2>1 DEF Wanted, Request
  <2>5. Service!Approve(g, r)
    BY <1>2, <2>1, <2>4 DEF Service!Approve
  <2> QED BY <2>3, <2>5 DEF Service!Next
<1>3. CASE posts' # posts
  <2>1. PICK p \in Post : /\ p.by = g /\ asked[g][p.req.msg] > 0
                          /\ posts' = posts \cup {p}
    BY <1>3 DEF StartsAsked
  <2>2. p.req.msg \in Wanted[g]
    BY <2>1 DEF Wanted, Post, Request
  <2>3. \A h \in p.peers : [by |-> h, req |-> p.req] \in approvals
    BY <1>3, <2>1 DEF PostedPeersApproved
  <2>4. p = [by |-> g, req |-> p.req, peers |-> p.peers]
    BY <2>1 DEF Post
  <2>5. Service!Start(g, p.req, p.peers)
    BY <1>3, <2>1, <2>2, <2>3, <2>4 DEF Service!Start
  <2> QED BY <1>3, <2>1, <2>5 DEF Service!Next
<1> QED BY <1>1, <1>2, <1>3

\* sign() is the application wanting the message.
LEMMA SignRefines ==
    ASSUME TypeOK, NEW g \in Guard, NEW m \in Msgs, Sign(g, m)
    PROVE  [Service!Next]_(Service!vars)
<1>1. UNCHANGED <<entries, cache, approvals, posts>>
      /\ asked' = [asked EXCEPT ![g][m] = @ + 1]
  BY DEF Sign
<1>2. Held' = Held
  BY <1>1, KeptUnchanged, HeldKept
<1>3. \A h \in Guard : \A n \in Msgs :
         asked'[h][n] > 0 <=> (asked[h][n] > 0 \/ (h = g /\ n = m))
  BY <1>1 DEF TypeOK
<1>4. Wanted' = [Wanted EXCEPT ![g] = @ \cup {m}]
  <2>1. \A h \in Guard : {n \in Msgs : asked'[h][n] > 0} =
           IF h = g THEN {n \in Msgs : asked[h][n] > 0} \cup {m}
                    ELSE {n \in Msgs : asked[h][n] > 0}
    BY <1>3
  <2> QED BY <2>1 DEF Wanted
<1>5. Service!Want(g, m)
  BY <1>1, <1>2, <1>4 DEF Service!Want
<1> QED BY <1>5 DEF Service!Next

\* A new entry has told its caller nothing.
LEMMA HeldAddSign ==
    ASSUME TypeOK, NEW g \in Guard, AddSign(g)
    PROVE  Held' = Held /\ Wanted' = Wanted /\ UNCHANGED posts
<1>1. UNCHANGED <<cache, asked, posts>>
  BY DEF AddSign
<1>2. PICK e : /\ e.answer = "none"
               /\ entries' = [entries EXCEPT ![g] = Append(entries[g], e)]
  BY DEF AddSign
<1>3. entries[g] \in Seq(Entry) /\ entries'[g] = Append(entries[g], e)
      /\ \A h \in Guard : h # g => entries'[h] = entries[h]
  BY <1>2 DEF TypeOK
<1>4. \A h \in Guard : \A j \in DOMAIN entries[h] :
         j \in DOMAIN entries'[h] /\ entries'[h][j] = entries[h][j]
  BY <1>3
<1>5. \A h \in Guard : \A j \in DOMAIN entries'[h] :
         \/ j \in DOMAIN entries[h] /\ entries'[h][j] = entries[h][j]
         \/ entries'[h][j].answer = "none"
  BY <1>2, <1>3
<1>6. ASSUME NEW h \in Guard, NEW m \in Msgs
      PROVE  (\E i \in DOMAIN entries'[h] :
                 entries'[h][i].msg = m /\ entries'[h][i].answer = "ok")
             <=> \E i \in DOMAIN entries[h] :
                    entries[h][i].msg = m /\ entries[h][i].answer = "ok"
  BY <1>4, <1>5
<1>7. Held' = Held
  BY <1>1, <1>6 DEF Held
<1> QED BY <1>1, <1>7, WantedKept

LEMMA ApprovesAddSign ==
    ASSUME TypeInv, AskedInv, NEW g \in Guard, AddSign(g)
    PROVE  ApprovesAsked(g)
<1> DEFINE m == Head(lock[g]).msg
<1>1. lock[g] # <<>> /\ Head(lock[g]).kind = "add" /\ LockOK /\ LockAsked /\ TypeOK
  BY DEF AddSign, Holds, TypeInv, TypeOK, RefsOK, LockOK, AskedInv
<1>2. asked[g][m] > 0
  BY <1>1, TailTask DEF LockAsked, LockOK, Asked
<1>3. CASE UNCHANGED approvals
  BY <1>3 DEF ApprovesAsked
<1>4. ASSUME NEW p \in PendingOf(g, m),
             approvals' = approvals \cup {[by |-> g, req |-> p]}
      PROVE  ApprovesAsked(g)
  <2>1. p \in Request /\ p.msg = m
    BY <1>1 DEF PendingOf, TypeOK
  <2> QED BY <1>2, <1>4, <2>1 DEF ApprovesAsked
<1> QED BY <1>3, <1>4, AnswerHistory DEF AddSign

\* A verified result is one more signature held.
LEMMA VerifiedRefines ==
    ASSUME TypeInv, SignedInv, NEW g \in Guard, NEW v \in verifying[g], Verified(g, v)
    PROVE  [Service!Next]_(Service!vars)
<1>1. UNCHANGED <<asked, approvals, posts>>
  BY DEF Verified
<1>2. EntriesKept
  BY KeptVerified
<1>3. CASE OkKept /\ UNCHANGED cache
  BY <1>1, <1>2, <1>3, HeldKept, WantedKept, StutterRefines
<1>4. CASE /\ v.good /\ v.id \in DOMAIN entries[g] /\ OnlySettled(g, v.id, "ok")
           /\ cache' = [cache EXCEPT ![g] = @ \cup {entries[g][v.id].msg}]
  <2>1. PICK m \in Msgs : m = entries[g][v.id].msg
    <3>1. entries[g][v.id] \in Entry
      BY <1>4 DEF TypeInv, TypeOK
    <3> QED BY <3>1 DEF Entry
  <2>2. Signed(m)
    BY <1>4, <2>1 DEF SignedInv, GoodSigned
  <2>3. /\ cache'[g] = cache[g] \cup {m}
        /\ \A h \in Guard : h # g => cache'[h] = cache[h]
    BY <1>4, <2>1 DEF TypeInv, TypeOK
  <2>4. \A h \in Guard : \A n \in Msgs :
           TellsOk(h, n) => \E i \in DOMAIN entries'[h] :
                               entries'[h][i].msg = n /\ entries'[h][i].answer = "ok"
    BY <1>2, <1>4 DEF TellsOk, EntriesKept, OnlySettled
  <2>5. ASSUME NEW h \in Guard, NEW n \in Msgs, NEW i \in DOMAIN entries'[h],
               entries'[h][i].msg = n, entries'[h][i].answer = "ok"
        PROVE  TellsOk(h, n) \/ (h = g /\ n = m)
    BY <1>2, <1>4, <2>1, <2>5 DEF TellsOk, EntriesKept, OnlySettled
  <2>6. \A h \in Guard : cache'[h] \cup {n \in Msgs : \E i \in DOMAIN entries'[h] :
                            entries'[h][i].msg = n /\ entries'[h][i].answer = "ok"}
           = IF h = g THEN Held[h] \cup {m} ELSE Held[h]
    BY <2>3, <2>4, <2>5 DEF Held, TellsOk
  <2>7. Held' = [Held EXCEPT ![g] = @ \cup {m}]
    BY <2>6 DEF Held
  <2>8. Service!Obtain(g, m)
    <3>1. Service!Signed(m)
      <4>1. \A S : Service!Cardinality(S) = Cardinality(S)
        BY DEF Service!Cardinality, Cardinality
      <4> QED BY <2>2, <4>1 DEF Service!Signed, Signed
    <3>2. Wanted' = Wanted
      BY <1>1, WantedKept
    <3> QED BY <1>1, <2>7, <3>1, <3>2 DEF Service!Obtain
  <2> QED BY <2>8 DEF Service!Next
<1> QED BY <1>3, <1>4, KeptVerified

\* Results expire, and a restart forgets everything.
LEMMA LoseRefines ==
    ASSUME TypeOK, NEW g \in Guard, UNCHANGED <<asked, approvals, posts>>,
           \A h \in Guard : h # g => UNCHANGED <<cache[h], entries[h]>>,
           cache'[g] \subseteq cache[g],
           entries'[g] = entries[g] \/ DOMAIN entries'[g] = {}
    PROVE  [Service!Next]_(Service!vars)
<1> DEFINE left == Held'[g]
<1>1. left \subseteq Held[g]
  BY DEF Held
<1>2. \A h \in Guard : h # g => Held'[h] = Held[h]
  BY DEF Held
<1>3. Held' = [Held EXCEPT ![g] = left]
  <2>1. Held = [h \in Guard |-> Held[h]] /\ Held' = [h \in Guard |-> Held'[h]]
    BY DEF Held
  <2>2. Held' = [h \in Guard |-> IF h = g THEN left ELSE Held[h]]
    BY <1>2, <2>1
  <2> HIDE DEF left
  <2> QED BY <2>1, <2>2
<1>4. Service!Lose(g)
  <2> HIDE DEF left
  <2> QED BY <1>1, <1>3, WantedKept DEF Service!Lose
<1> QED BY <1>4 DEF Service!Next

LEMMA LocalRefines ==
    ASSUME TypeInv, AskedInv, NEW g \in Guard, LocalStep(g), PostedPeersApproved'
    PROVE  [Service!Next]_(Service!vars)
<1>1. TypeOK
  BY DEF TypeInv
<1>2. CASE AddSign(g)
  <2>1. ApprovesAsked(g)
    BY <1>2, ApprovesAddSign
  <2>2. Held' = Held /\ Wanted' = Wanted /\ UNCHANGED posts
    BY <1>1, <1>2, HeldAddSign
  <2> QED BY <1>1, <2>1, <2>2, HistoryRefines DEF StartsAsked
<1>3. CASE ~AddSign(g)
  <2>1. EntriesKept /\ UNCHANGED asked /\ ApprovesAsked(g) /\ StartsAsked(g)
    BY <1>3, HistoryLocal
  <2>2. OkKept
    <3>1. CASE Cleanup(g) \/ UpdateTurn(g) \/ UpdateLoop(g) \/ RemoveSign(g)
      BY <3>1, KeptUnchanged DEF Cleanup, UpdateTurn, UpdateLoop, RemoveSign
    <3> QED BY <1>3, <3>1, KeptSetRequest, KeptHandleApprove, KeptHandleStart,
               KeptPostFailed DEF LocalStep
  <2>3. UNCHANGED cache /\ (UNCHANGED approvals \/ UNCHANGED posts)
    BY <1>3 DEF LocalStep, Cleanup, UpdateTurn, UpdateLoop, SetRequest, HandleApprove,
                HandleStart, PostFailed, RemoveSign
  <2>4. Held' = Held /\ Wanted' = Wanted
    BY <2>1, <2>2, <2>3, HeldKept, WantedKept
  <2> QED BY <1>1, <2>1, <2>3, <2>4, HistoryRefines
<1> QED BY <1>2, <1>3

LEMMA EventRefines ==
    ASSUME TypeInv, AskedInv, SignedInv, NEW g \in Guard, Event(g), PostedPeersApproved'
    PROVE  [Service!Next]_(Service!vars)
<1>1. TypeOK
  BY DEF TypeInv
<1>2. UNCHANGED asked /\ ApprovesAsked(g) /\ StartsAsked(g)
  BY HistoryEvent
<1>3. ASSUME EntriesKept, OkKept, UNCHANGED cache, UNCHANGED posts
      PROVE  [Service!Next]_(Service!vars)
  BY <1>1, <1>2, <1>3, HeldKept, WantedKept, HistoryRefines
<1>4. CASE OwnEvent(g)
  BY <1>3, <1>4, KeptUnchanged DEF OwnEvent, UpdateBegin, UpdateStart, PostAnswered
<1>5. ASSUME NEW m \in net,
             \/ ReceiveApprove(g, m) \/ ReceiveStart(g, m) \/ ReceiveCached(g, m)
             \/ ReceiveRequest(g, m) \/ RegisterAnswered(g, m)
      PROVE  UNCHANGED <<entries, cache, posts>>
  BY <1>5 DEF ReceiveApprove, ReceiveStart, ReceiveCached, ReceiveRequest,
              RegisterAnswered
<1>6. ASSUME NEW p \in awaiting[g], ReceiveResult(g, p)
      PROVE  EntriesKept /\ OkKept /\ UNCHANGED <<cache, posts>>
  BY <1>6, KeptReceiveResult DEF ReceiveResult
<1>7. ASSUME NEW m \in Msgs, ExpireCache(g, m)
      PROVE  [Service!Next]_(Service!vars)
  <2>1. UNCHANGED <<asked, approvals, posts, entries>>
        /\ cache' = [cache EXCEPT ![g] = @ \ {m}]
    BY <1>7 DEF ExpireCache
  <2>2. /\ cache'[g] \subseteq cache[g]
        /\ \A h \in Guard : h # g => UNCHANGED <<cache[h], entries[h]>>
    BY <1>1, <2>1 DEF TypeOK
  <2>3. entries'[g] = entries[g]
    BY <2>1
  <2> QED BY <1>1, <2>1, <2>2, <2>3, LoseRefines
<1> QED BY <1>3, <1>4, <1>5, <1>6, <1>7, KeptUnchanged, VerifiedRefines DEF Event

LEMMA StepRefines ==
    ASSUME TypeInv, AskedInv, SignedInv, [Next]_vars, PostedPeersApproved'
    PROVE  [Service!Next]_(Service!vars)
<1>1. TypeOK
  BY DEF TypeInv
<1>2. CASE UNCHANGED vars \/ Tick
  <2>1. UNCHANGED <<entries, cache, asked, approvals, posts>>
    BY <1>2 DEF vars, Tick
  <2> QED BY <2>1, KeptUnchanged, HeldKept, WantedKept, StutterRefines
<1>3. ASSUME NEW g \in Guard, Restart(g)
      PROVE  [Service!Next]_(Service!vars)
  <2>1. UNCHANGED <<asked, approvals, posts>>
    BY <1>3 DEF Restart
  <2>2. /\ cache'[g] \subseteq cache[g] /\ DOMAIN entries'[g] = {}
        /\ \A h \in Guard : h # g => UNCHANGED <<cache[h], entries[h]>>
    BY <1>1, <1>3 DEF Restart, TypeOK
  <2> QED BY <1>1, <2>1, <2>2, LoseRefines
<1> QED BY <1>1, <1>2, <1>3, SignRefines, LocalRefines, EventRefines DEF Next

\* For any number of guards, messages, queues, failures and restarts: what the
\* signers do is what SigningService promises.
THEOREM ServiceImplemented == Spec => ImplementsService
<1>1. Init => Service!Init
  BY InitRefines
<1>2. TypeInv /\ AskedInv /\ SignedInv /\ [Next]_vars /\ PostedPeersApproved'
         => [Service!Next]_(Service!vars)
  BY StepRefines
<1>3. Init => AskedInv /\ SignedInv
  BY AskedInit, SignedInit
<1>4. TypeInv /\ AskedInv /\ SignedInv /\ [Next]_vars => AskedInv' /\ SignedInv'
  BY AskedNext, SignedNext
<1> QED BY <1>1, <1>2, <1>3, <1>4, TypeCorrect, PeersApprovedCorrect, PTL
        DEF Spec, ImplementsService, Service!Spec
=============================================================================
