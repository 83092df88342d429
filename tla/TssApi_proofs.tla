----------------------------- MODULE TssApi_proofs -----------------------------
(***************************************************************************)
(* Proofs about TssApi, for any number of requests and any capacities:     *)
(* types, one operation per message id unless two requests of it overlap,  *)
(* and no success reported of a key that is not on the disk.               *)
(***************************************************************************)
EXTENDS TssApi, TLAPS

(***************************************************************************)
(* The inductive invariant.  The goroutines of one operation are counted   *)
(* together (one that updates the party becomes one that waits to send),   *)
(* a process that has ended has neither operations nor channels, and what  *)
(* keeps an operation alone is that no other request of its id is past the *)
(* test when its channel enters the map.                                   *)
(***************************************************************************)
Counted == \A r \in 1 .. runs : op[r].updates + op[r].failing <= MaxUpdates

EndedIsEmpty ==
    ~alive => /\ \A r \in 1 .. runs : op[r].step = "lost"
              /\ \A id \in Ids : chan[id] = 0

AloneAtTest ==
    \A r \in 1 .. runs : AtTest(r) /\ op[r].id \notin raced =>
        /\ chan[op[r].id] = 0
        /\ \A q \in 1 .. runs : AtTest(q) /\ op[q].id = op[r].id => q = r

OpInv == TypeOK /\ Counted /\ EndedIsEmpty /\ AloneAtTest /\ OneOperationPerMessage

\* The only key generation, once it has been asked for, and its key: opened files are
\* never those of a success that was reported.
KeygenOf(r) == op[r].id = KeygenId

KeyInv ==
    /\ ReportedKeyIsStored
    /\ told => posted
    /\ \A r, q \in 1 .. runs : KeygenOf(r) /\ KeygenOf(q) => r = q
    /\ \A r \in 1 .. runs : KeygenOf(r) =>
          /\ posted
          /\ op[r].party = "stored" => keyFile = "whole"
          /\ told => op[r].party \notin {"none", "running", "writing"}

-----------------------------------------------------------------------------
(***************************************************************************)
(* What a step does to the operations                                      *)
(***************************************************************************)
StepNames == {"checked", "inserted", "starting", "loop", "stuck", "refused",
              "failed", "ended", "over", "lost"}

Steps(a, b) ==
    \/ a = b
    \/ a = "inserted" /\ b = "refused"
    \/ a = "loop" /\ b \in {"stuck", "failed", "ended"}
    \/ a = "failed" /\ b = "ended"

\* How the goroutine of CreateParty goes on without the key file or its caller.
Parties(id, a, b) ==
    \/ a = b
    \/ a = "none" /\ b = "running"
    \/ a \in {"running", "writing", "stored"} /\ b = "failing"
    \/ a \in {"failing", "finished"} /\ b = "gone"
    \/ a = "running" /\ b = "stored" /\ id # KeygenId

\* What the operation a may become, its id and channel kept.
Follows(a, b) ==
    /\ b \in Operation /\ b.id = a.id /\ b.reads = a.reads
    /\ b.updates + b.failing <= MaxUpdates
    /\ Steps(a.step, b.step)

\* The operation r moves on and becomes o; messages may leave or come to its channel.
Moves(r, o) ==
    /\ op' = [op EXCEPT ![r] = o]
    /\ Follows(op[r], o)
    /\ channel' \in [1 .. runs -> Channel]
    /\ UNCHANGED <<alive, runs, chan, operations, posted, messages, crashes, raced>>

\* And what comes of the key with it.
KeyMoves(r, o) ==
    \/ UNCHANGED <<keyFile, told>> /\ Parties(op[r].id, op[r].party, o.party)
    \/ /\ op[r].party = "running" /\ o.party = "writing" /\ op[r].id = KeygenId
       /\ keyFile' = "torn" /\ UNCHANGED told
    \/ /\ op[r].party = "writing" /\ o.party = "stored"
       /\ keyFile' = "whole" /\ UNCHANGED told
    \/ /\ op[r].party = "stored" /\ o.party = "finished"
       /\ told' = (told \/ op[r].id = KeygenId) /\ UNCHANGED keyFile

Advances(r) == \E o : Moves(r, o) /\ KeyMoves(r, o)

\* A message finds its channel, or is sent.
Relays ==
    /\ channel' \in [1 .. runs -> Channel] /\ messages' \in 0 .. MaxMessages
    /\ UNCHANGED <<alive, runs, op, chan, operations, keyFile, posted, crashes, told, raced>>

LEMMA BecomesMoves ==
    ASSUME TypeOK, NEW r, NEW o, Becomes(r, o), Follows(op[r], o),
           Parties(op[r].id, op[r].party, o.party)
    PROVE  Advances(r)
BY DEF Becomes, Advances, Moves, KeyMoves, TypeOK

\* Changes of the step and the numbers of an operation leave its other fields alone.
Renumber(o, s, u, f) == [o EXCEPT !.step = s, !.updates = u, !.failing = f]

LEMMA Renumbered ==
    ASSUME NEW o \in Operation, NEW s \in StepNames, Steps(o.step, s),
           NEW u \in 0 .. MaxUpdates, NEW f \in 0 .. MaxUpdates, u + f <= MaxUpdates
    PROVE  Follows(o, Renumber(o, s, u, f)) /\ Renumber(o, s, u, f).party = o.party
<1>1. Renumber(o, s, u, f).updates = u /\ Renumber(o, s, u, f).failing = f
  BY DEF Operation, Renumber
<1>2. /\ Renumber(o, s, u, f) \in Operation /\ Renumber(o, s, u, f).id = o.id
      /\ Renumber(o, s, u, f).reads = o.reads
      /\ Renumber(o, s, u, f).step = s /\ Renumber(o, s, u, f).party = o.party
  BY DEF Operation, Renumber, StepNames
<1> QED BY <1>1, <1>2 DEF Follows

LEMMA RenumberMoves ==
    ASSUME TypeOK, NEW r \in 1 .. runs, NEW s \in StepNames, Steps(op[r].step, s),
           NEW u \in 0 .. MaxUpdates, NEW f \in 0 .. MaxUpdates, u + f <= MaxUpdates,
           op' = [op EXCEPT ![r] = Renumber(op[r], s, u, f)],
           channel' \in [1 .. runs -> Channel],
           UNCHANGED <<alive, runs, chan, operations, keyFile, posted, messages, crashes,
                       told, raced>>
    PROVE  Advances(r)
<1>1. op[r] \in Operation
  BY DEF TypeOK
<1>2. PICK n : n = Renumber(op[r], s, u, f)
  OBVIOUS
<1>3. Follows(op[r], n) /\ n.party = op[r].party
  BY <1>1, <1>2, Renumbered
<1>4. Moves(r, n)
  BY <1>2, <1>3 DEF Moves
<1>5. KeyMoves(r, n)
  BY <1>3 DEF KeyMoves, Parties
<1> QED BY <1>4, <1>5 DEF Advances

\* The fields of an operation, which every step below starts from.
LEMMA Fields ==
    ASSUME TypeOK, Counted, NEW r \in 1 .. runs
    PROVE  /\ op[r] \in Operation /\ op[r].updates + op[r].failing <= MaxUpdates
           /\ op[r].updates \in 0 .. MaxUpdates /\ op[r].failing \in 0 .. MaxUpdates
           /\ op[r].step \in StepNames /\ Steps(op[r].step, op[r].step)
           /\ MaxUpdates \in Nat /\ MaxInbox \in Nat
<1>1. op[r] \in Operation /\ op[r].updates + op[r].failing <= MaxUpdates
  BY DEF TypeOK, Counted
<1>2. MaxUpdates \in Nat /\ MaxInbox \in Nat
  BY ConstantsAssumption
<1> QED BY <1>1, <1>2 DEF Operation, StepNames, Steps

\* And so do changes of its step, its party and its timer.
PartyNames == {"none", "running", "writing", "stored", "failing", "finished", "gone"}
TimerNames == {"none", "armed", "sending", "closing", "gone"}

Retime(o, s, p, t) == [o EXCEPT !.step = s, !.party = p, !.timer = t]

LEMMA Retimed ==
    ASSUME NEW o \in Operation, o.updates + o.failing <= MaxUpdates,
           NEW s \in StepNames, Steps(o.step, s), NEW p \in PartyNames, NEW t \in TimerNames
    PROVE  Follows(o, Retime(o, s, p, t)) /\ Retime(o, s, p, t).party = p
<1>1. /\ Retime(o, s, p, t).updates = o.updates /\ Retime(o, s, p, t).failing = o.failing
      /\ Retime(o, s, p, t).party = p /\ Retime(o, s, p, t).step = s
      /\ Retime(o, s, p, t).id = o.id /\ Retime(o, s, p, t).reads = o.reads
  BY DEF Operation, Retime
<1>2. Retime(o, s, p, t) \in Operation
  BY DEF Operation, Retime, StepNames, PartyNames, TimerNames
<1> QED BY <1>1, <1>2 DEF Follows

LEMMA RetimeMoves ==
    ASSUME TypeOK, Counted, NEW r \in 1 .. runs, NEW s \in StepNames, Steps(op[r].step, s),
           NEW p \in PartyNames, NEW t \in TimerNames, Parties(op[r].id, op[r].party, p),
           op' = [op EXCEPT ![r] = Retime(op[r], s, p, t)],
           channel' \in [1 .. runs -> Channel],
           UNCHANGED <<alive, runs, chan, operations, keyFile, posted, messages, crashes,
                       told, raced>>
    PROVE  Advances(r)
<1>1. op[r] \in Operation /\ op[r].updates + op[r].failing <= MaxUpdates
  BY Fields
<1>2. PICK n : n = Retime(op[r], s, p, t)
  OBVIOUS
<1>3. Follows(op[r], Retime(op[r], s, p, t)) /\ Retime(op[r], s, p, t).party = p
  BY <1>1, Retimed
<1>4. Moves(r, n)
  BY <1>2, <1>3 DEF Moves
<1>5. KeyMoves(r, n)
  BY <1>2, <1>3 DEF KeyMoves
<1> QED BY <1>4, <1>5 DEF Advances

\* Only its step changes.
LEMMA StepMoves ==
    ASSUME TypeOK, Counted, NEW r \in 1 .. runs, NEW s \in StepNames, Steps(op[r].step, s),
           Becomes(r, [op[r] EXCEPT !.step = s])
    PROVE  Advances(r)
<1>1. op[r] \in Operation /\ op[r].party \in PartyNames /\ op[r].timer \in TimerNames
  BY Fields DEF Operation, PartyNames, TimerNames
<1>2. [op[r] EXCEPT !.step = s] = Retime(op[r], s, op[r].party, op[r].timer)
  BY <1>1 DEF Operation, Retime
<1>3. Parties(op[r].id, op[r].party, op[r].party)
  BY DEF Parties
<1>4. channel' \in [1 .. runs -> Channel]
  BY DEF Becomes, TypeOK
<1> QED BY <1>1, <1>2, <1>3, <1>4, RetimeMoves DEF Becomes

\* The loop of StartAction, before its end.
LEMMA LoopAdvances ==
    ASSUME TypeOK, Counted, NEW r \in 1 .. runs,
           \/ CreateParty(r) \/ ReceiveMessage(r) \/ ReceiveClosed(r) \/ ReceiveError(r)
           \/ ReceiveStatus(r) \/ FailCallback(r)
    PROVE  Advances(r)
<1>1. /\ op[r] \in Operation /\ op[r].updates + op[r].failing <= MaxUpdates
      /\ op[r].updates \in 0 .. MaxUpdates /\ op[r].failing \in 0 .. MaxUpdates
      /\ op[r].step \in StepNames /\ Steps(op[r].step, op[r].step)
      /\ MaxUpdates \in Nat /\ MaxInbox \in Nat
  BY Fields
<1>2. op[r].party \in PartyNames /\ op[r].timer \in TimerNames
  BY <1>1 DEF Operation, PartyNames, TimerNames
<1>3. channel \in [1 .. runs -> Channel]
  BY DEF TypeOK
<1>4. ASSUME NEW s \in StepNames, Steps(op[r].step, s), NEW p \in PartyNames,
             NEW t \in TimerNames, Parties(op[r].id, op[r].party, p),
             Becomes(r, Retime(op[r], s, p, t))
      PROVE  Advances(r)
  BY <1>3, <1>4, RetimeMoves DEF Becomes
<1>5. /\ "running" \in PartyNames /\ "gone" \in PartyNames /\ "closing" \in TimerNames
      /\ "failed" \in StepNames /\ "ended" \in StepNames /\ "stuck" \in StepNames
  BY DEF PartyNames, TimerNames, StepNames
<1>7. CASE CreateParty(r)
  <2>1. /\ op[r].step = "loop" /\ op[r].party = "none"
        /\ \/ Becomes(r, [op[r] EXCEPT !.party = "running"])
           \/ Becomes(r, [op[r] EXCEPT !.step = "stuck"])
    BY <1>7 DEF CreateParty
  <2>2. CASE Becomes(r, [op[r] EXCEPT !.party = "running"])
    <3>1. [op[r] EXCEPT !.party = "running"]
            = Retime(op[r], op[r].step, "running", op[r].timer)
      BY <1>1 DEF Operation, Retime
    <3>2. Parties(op[r].id, op[r].party, "running")
      BY <2>1 DEF Parties
    <3> QED BY <1>1, <1>2, <1>4, <1>5, <2>2, <3>1, <3>2
  <2>3. CASE Becomes(r, [op[r] EXCEPT !.step = "stuck"])
    <3>1. Steps(op[r].step, "stuck")
      BY <2>1 DEF Steps
    <3> QED BY <1>5, <2>3, <3>1, StepMoves
  <2> QED BY <2>1, <2>2, <2>3
<1>8. CASE ReceiveMessage(r)
  <2>1. PICK c : /\ channel[c].inbox > 0
                 /\ channel' = [channel EXCEPT ![c].inbox = @ - 1]
    BY <1>8 DEF ReceiveMessage, HasMessage
  <2>2. channel' \in [1 .. runs -> Channel]
    <3>1. CASE c \in 1 .. runs
      <4>1. channel[c] \in Channel /\ channel[c].inbox - 1 \in 0 .. MaxInbox
        BY <1>1, <1>3, <2>1, <3>1 DEF Channel
      <4>2. [channel[c] EXCEPT !.inbox = @ - 1] \in Channel
        BY <4>1 DEF Channel
      <4> QED BY <1>3, <2>1, <4>2
    <3>2. CASE c \notin 1 .. runs
      BY <1>3, <2>1, <3>2
    <3> QED BY <3>1, <3>2
  <2>3. UNCHANGED <<alive, runs, chan, operations, keyFile, posted, messages, crashes, told, raced>>
    BY <1>8 DEF ReceiveMessage
  <2>4. CASE /\ op[r].updates + op[r].failing < MaxUpdates
             /\ op' = [op EXCEPT ![r].updates = @ + 1]
    <3>1. /\ op[r].updates + 1 \in 0 .. MaxUpdates
          /\ (op[r].updates + 1) + op[r].failing <= MaxUpdates
      BY <1>1, <2>4
    <3>2. op' = [op EXCEPT ![r] = Renumber(op[r], op[r].step, op[r].updates + 1, op[r].failing)]
      BY <1>1, <2>4 DEF Operation, Renumber
    <3> QED BY <1>1, <2>2, <2>3, <3>1, <3>2, RenumberMoves
  <2>5. CASE op' = [op EXCEPT ![r].step = "failed"]
    <3>1. op' = [op EXCEPT ![r] = Renumber(op[r], "failed", op[r].updates, op[r].failing)]
      BY <1>1, <2>5 DEF Operation, Renumber
    <3>2. Steps(op[r].step, "failed")
      BY <1>8 DEF ReceiveMessage, Steps
    <3> QED BY <1>1, <1>5, <2>2, <2>3, <3>1, <3>2, RenumberMoves
  <2> QED BY <1>8, <2>4, <2>5 DEF ReceiveMessage
<1>9. CASE ReceiveClosed(r)
  <2>1. Steps(op[r].step, "failed") /\ Becomes(r, [op[r] EXCEPT !.step = "failed"])
    BY <1>9 DEF ReceiveClosed, Steps
  <2> QED BY <1>5, <2>1, StepMoves
<1>10. CASE ReceiveError(r)
  <2>1. op[r].step = "loop" /\ Steps(op[r].step, "failed")
    BY <1>10 DEF ReceiveError, Steps
  <2>2. CASE Becomes(r, [op[r] EXCEPT !.step = "failed", !.timer = "closing"])
    <3>1. [op[r] EXCEPT !.step = "failed", !.timer = "closing"]
            = Retime(op[r], "failed", op[r].party, "closing")
      BY <1>1 DEF Operation, Retime
    <3>2. Parties(op[r].id, op[r].party, op[r].party)
      BY DEF Parties
    <3> QED BY <1>2, <1>4, <1>5, <2>1, <2>2, <3>1, <3>2
  <2>3. CASE /\ op[r].party = "failing"
             /\ Becomes(r, [op[r] EXCEPT !.step = "failed", !.party = "gone"])
    <3>1. [op[r] EXCEPT !.step = "failed", !.party = "gone"]
            = Retime(op[r], "failed", "gone", op[r].timer)
      BY <1>1 DEF Operation, Retime
    <3>2. Parties(op[r].id, op[r].party, "gone")
      BY <2>3 DEF Parties
    <3> QED BY <1>2, <1>4, <1>5, <2>1, <2>3, <3>1, <3>2
  <2>4. CASE /\ op[r].failing > 0
             /\ Becomes(r, [op[r] EXCEPT !.step = "failed", !.failing = @ - 1])
    <3>1. /\ op[r].failing - 1 \in 0 .. MaxUpdates
          /\ op[r].updates + (op[r].failing - 1) <= MaxUpdates
      BY <1>1, <2>4
    <3>2. [op[r] EXCEPT !.step = "failed", !.failing = @ - 1]
            = Renumber(op[r], "failed", op[r].updates, op[r].failing - 1)
      BY <1>1 DEF Operation, Renumber
    <3> QED BY <1>1, <1>3, <1>5, <2>1, <2>4, <3>1, <3>2, RenumberMoves DEF Becomes
  <2> QED BY <1>10, <2>2, <2>3, <2>4 DEF ReceiveError
<1>11. CASE ReceiveStatus(r)
  <2>1. Steps(op[r].step, "ended") /\ Parties(op[r].id, op[r].party, "gone")
    BY <1>11 DEF ReceiveStatus, Steps, Parties
  <2>2. [op[r] EXCEPT !.step = "ended", !.party = "gone"]
          = Retime(op[r], "ended", "gone", op[r].timer)
    BY <1>1 DEF Operation, Retime
  <2>3. Becomes(r, [op[r] EXCEPT !.step = "ended", !.party = "gone"])
    BY <1>11 DEF ReceiveStatus
  <2> QED BY <1>2, <1>4, <1>5, <2>1, <2>2, <2>3
<1>12. CASE FailCallback(r)
  <2>1. Steps(op[r].step, "ended") /\ Becomes(r, [op[r] EXCEPT !.step = "ended"])
    BY <1>12 DEF FailCallback, Steps
  <2> QED BY <1>5, <2>1, StepMoves
<1> QED BY <1>7, <1>8, <1>9, <1>10, <1>11, <1>12

\* The other goroutines: the operation moves on, or the process ends.
LEMMA OthersAdvance ==
    ASSUME TypeOK, Counted, NEW r \in 1 .. runs,
           \/ WriteData(r) \/ CallBack(r) \/ Update(r) \/ TimeOut(r) \/ CloseChannel(r)
           \/ PartyFails(r) \/ PartyEnds(r)
    PROVE  Advances(r) \/ Panic
<1>1. /\ op[r] \in Operation /\ op[r].updates + op[r].failing <= MaxUpdates
      /\ op[r].updates \in 0 .. MaxUpdates /\ op[r].failing \in 0 .. MaxUpdates
      /\ op[r].step \in StepNames /\ Steps(op[r].step, op[r].step)
      /\ MaxUpdates \in Nat /\ MaxInbox \in Nat
  BY Fields
<1>2. op[r].party \in PartyNames /\ op[r].timer \in TimerNames
  BY <1>1 DEF Operation, PartyNames, TimerNames
<1>3. channel \in [1 .. runs -> Channel] /\ op \in [1 .. runs -> Operation]
  BY DEF TypeOK
<1>4. \A p \in PartyNames :
         /\ [op[r] EXCEPT !.party = p] = Retime(op[r], op[r].step, p, op[r].timer)
         /\ [op EXCEPT ![r].party = p] = [op EXCEPT ![r] = Retime(op[r], op[r].step, p, op[r].timer)]
  BY <1>1, <1>3 DEF Operation, Retime
<1>5. \A p \in PartyNames :
         LET o == Retime(op[r], op[r].step, p, op[r].timer)
         IN  Follows(op[r], o) /\ o.party = p
  BY <1>1, <1>2, Retimed
<1>6. ASSUME NEW o, SendError(r, o)
      PROVE  Panic \/ Becomes(r, o)
  BY <1>6 DEF SendError
<1>7. /\ "writing" \in PartyNames /\ "stored" \in PartyNames /\ "failing" \in PartyNames
      /\ "finished" \in PartyNames /\ "gone" \in TimerNames /\ "sending" \in TimerNames
  BY DEF PartyNames, TimerNames
<1>8. ASSUME NEW p \in PartyNames, op' = [op EXCEPT ![r].party = p],
             channel' = channel,
             UNCHANGED <<alive, runs, chan, operations, posted, messages, crashes, raced>>
      PROVE  \E o : Moves(r, o) /\ o.party = p
  <2>1. LET o == Retime(op[r], op[r].step, p, op[r].timer)
        IN  Moves(r, o) /\ o.party = p
    BY <1>3, <1>4, <1>5, <1>8 DEF Moves
  <2> QED BY <2>1
<1>9. ASSUME NEW p \in PartyNames, Becomes(r, [op[r] EXCEPT !.party = p]),
             Parties(op[r].id, op[r].party, p)
      PROVE  Advances(r)
  BY <1>1, <1>2, <1>3, <1>4, <1>9, RetimeMoves DEF Becomes
<1>10. CASE WriteData(r)
  <2>1. PICK o : Moves(r, o) /\ o.party = "stored"
    BY <1>7, <1>8, <1>10 DEF WriteData
  <2> QED BY <1>10, <2>1 DEF WriteData, Advances, KeyMoves
<1>11. CASE CallBack(r)
  <2>1. op[r].party = "stored"
    BY <1>11 DEF CallBack, MayReport
  <2>2. CASE SendError(r, [op[r] EXCEPT !.party = "failing"])
    <3>1. Parties(op[r].id, op[r].party, "failing")
      BY <2>1 DEF Parties
    <3> QED BY <1>6, <1>7, <1>9, <2>2, <3>1
  <2>3. CASE /\ told' = (told \/ op[r].id = KeygenId)
             /\ op' = [op EXCEPT ![r].party = "finished"]
             /\ UNCHANGED <<alive, runs, channel, chan, operations, keyFile, posted, messages,
                            crashes, raced>>
    <3>1. PICK o : Moves(r, o) /\ o.party = "finished"
      BY <1>7, <1>8, <2>3
    <3> QED BY <2>1, <2>3, <3>1 DEF Advances, KeyMoves
  <2> QED BY <1>11, <2>2, <2>3 DEF CallBack
<1>12. CASE Update(r)
  <2>1. op[r].updates > 0
    BY <1>12 DEF Update
  <2>2. /\ op[r].updates - 1 \in 0 .. MaxUpdates
        /\ (op[r].updates - 1) + op[r].failing <= MaxUpdates
        /\ op[r].failing + 1 \in 0 .. MaxUpdates
        /\ (op[r].updates - 1) + (op[r].failing + 1) <= MaxUpdates
    BY <1>1, <2>1
  <2>3. CASE Becomes(r, [op[r] EXCEPT !.updates = @ - 1])
    <3>1. [op[r] EXCEPT !.updates = @ - 1]
            = Renumber(op[r], op[r].step, op[r].updates - 1, op[r].failing)
      BY <1>1 DEF Operation, Renumber
    <3> QED BY <1>1, <1>3, <2>2, <2>3, <3>1, RenumberMoves DEF Becomes
  <2>4. CASE Becomes(r, [op[r] EXCEPT !.updates = @ - 1, !.failing = @ + 1])
    <3>1. [op[r] EXCEPT !.updates = @ - 1, !.failing = @ + 1]
            = Renumber(op[r], op[r].step, op[r].updates - 1, op[r].failing + 1)
      BY <1>1 DEF Operation, Renumber
    <3> QED BY <1>1, <1>3, <2>2, <2>4, <3>1, RenumberMoves DEF Becomes
  <2> QED BY <1>6, <1>12, <2>3, <2>4 DEF Update
<1>13. ASSUME NEW t \in TimerNames, op' = [op EXCEPT ![r].timer = t],
              channel' \in [1 .. runs -> Channel],
              UNCHANGED <<alive, runs, chan, operations, keyFile, posted, messages, crashes,
                          told, raced>>
       PROVE  Advances(r)
  <2>1. [op EXCEPT ![r].timer = t] = [op EXCEPT ![r] = Retime(op[r], op[r].step, op[r].party, t)]
    BY <1>1, <1>3 DEF Operation, Retime
  <2>2. Parties(op[r].id, op[r].party, op[r].party)
    BY DEF Parties
  <2> QED BY <1>1, <1>2, <1>13, <2>1, <2>2, RetimeMoves
<1>14. CASE TimeOut(r)
  <2>1. PICK t \in TimerNames : Becomes(r, [op[r] EXCEPT !.timer = t])
    BY <1>7, <1>14 DEF TimeOut
  <2>2. op' = [op EXCEPT ![r].timer = t]
    BY <2>1 DEF Becomes
  <2> QED BY <1>3, <1>13, <2>1, <2>2 DEF Becomes
<1>15. CASE CloseChannel(r) /\ ~Panic
  <2>1. PICK c : /\ channel' = [channel EXCEPT ![c].closed = TRUE]
                 /\ op' = [op EXCEPT ![r].timer = "gone"]
    BY <1>15 DEF CloseChannel
  <2>2. \A k \in 1 .. runs : [channel[k] EXCEPT !.closed = TRUE] \in Channel
    BY <1>3 DEF Channel
  <2>3. channel' \in [1 .. runs -> Channel]
    BY <1>3, <2>1, <2>2
  <2> QED BY <1>7, <1>13, <1>15, <2>1, <2>3 DEF CloseChannel
<1>16. CASE PartyFails(r)
  <2>1. Parties(op[r].id, op[r].party, "failing")
    BY <1>16 DEF PartyFails, Parties
  <2> QED BY <1>6, <1>7, <1>9, <1>16, <2>1 DEF PartyFails
<1>17. CASE PartyEnds(r)
  <2>1. op[r].party = "running"
    BY <1>17 DEF PartyEnds
  <2>2. CASE op[r].id = KeygenId
    <3>1. PICK o : Moves(r, o) /\ o.party = "writing"
      BY <1>7, <1>8, <1>17, <2>2 DEF PartyEnds
    <3> QED BY <1>17, <2>1, <2>2, <3>1 DEF PartyEnds, Advances, KeyMoves
  <2>3. CASE op[r].id # KeygenId
    <3>1. PICK o : Moves(r, o) /\ o.party = "stored"
      BY <1>7, <1>8, <1>17, <2>3 DEF PartyEnds
    <3> QED BY <1>17, <2>1, <2>3, <3>1 DEF PartyEnds, Advances, KeyMoves, Parties
  <2> QED BY <2>2, <2>3
<1> QED BY <1>10, <1>11, <1>12, <1>14, <1>15, <1>16, <1>17

\* MessageHandler touches channels only.
LEMMA HandlerRelays ==
    ASSUME TypeOK, (\E id \in Ids : Lookup(id)) \/ (\E c \in 1 .. runs : Send(c))
    PROVE  Relays
<1>1. channel \in [1 .. runs -> Channel] /\ messages \in 0 .. MaxMessages
  BY DEF TypeOK
<1>2. MaxMessages \in Nat /\ MaxInbox \in Nat
  BY ConstantsAssumption
<1>3. CASE \E id \in Ids : Lookup(id)
  <2>1. PICK c \in 1 .. runs : channel' = [channel EXCEPT ![c].handlers = @ + 1]
    <3>1. PICK id \in Ids : chan[id] # 0 /\ channel' = [channel EXCEPT ![chan[id]].handlers = @ + 1]
      BY <1>3 DEF Lookup
    <3>2. chan[id] \in 1 .. runs
      BY <3>1 DEF TypeOK
    <3> QED BY <3>1, <3>2
  <2>2. [channel[c] EXCEPT !.handlers = @ + 1] \in Channel
    BY <1>1 DEF Channel
  <2>3. channel' \in [1 .. runs -> Channel]
    BY <1>1, <2>1, <2>2
  <2> QED BY <1>1, <1>2, <1>3, <2>3 DEF Lookup, Relays
<1>4. ASSUME NEW c \in 1 .. runs, Send(c)
      PROVE  Relays
  <2>1. channel[c] \in Channel /\ channel[c].handlers > 0
    BY <1>1, <1>4 DEF Send
  <2>2. [channel[c] EXCEPT !.handlers = @ - 1] \in Channel
    BY <2>1 DEF Channel
  <2>3. ASSUME channel[c].inbox < MaxInbox
        PROVE  [channel[c] EXCEPT !.handlers = @ - 1, !.inbox = @ + 1] \in Channel
    <3>1. channel[c].inbox + 1 \in 0 .. MaxInbox /\ channel[c].handlers - 1 \in Nat
      BY <1>2, <2>1, <2>3 DEF Channel
    <3> QED BY <2>1, <3>1 DEF Channel
  <2>4. channel' \in [1 .. runs -> Channel]
    BY <1>1, <1>4, <2>2, <2>3 DEF Send
  <2> QED BY <1>1, <1>4, <2>4 DEF Send, Relays
<1> QED BY <1>3, <1>4

-----------------------------------------------------------------------------
(***************************************************************************)
(* The invariant of the operations                                         *)
(***************************************************************************)

\* All operations move on, and no channel enters or leaves the map.
Evolve ==
    /\ UNCHANGED <<alive, runs, chan, operations, crashes, raced>>
    /\ op' \in [1 .. runs -> Operation] /\ channel' \in [1 .. runs -> Channel]
    /\ \A r \in 1 .. runs : /\ op'[r].id = op[r].id /\ op'[r].reads = op[r].reads
                            /\ Steps(op[r].step, op'[r].step)
                            /\ op'[r].updates + op'[r].failing <= MaxUpdates

LEMMA EvolveKeepsOpInv ==
    ASSUME OpInv, Evolve, keyFile' \in KeyFile, posted' \in BOOLEAN, told' \in BOOLEAN,
           messages' \in 0 .. MaxMessages
    PROVE  OpInv'
<1>1. TypeOK' /\ Counted'
  BY DEF OpInv, TypeOK, Counted, Evolve
<1>2. EndedIsEmpty'
  BY DEF OpInv, EndedIsEmpty, Evolve, Steps
<1>3. \A r \in 1 .. runs : AtTest(r)' <=> AtTest(r)
  BY DEF Evolve, Steps, AtTest
<1>4. AloneAtTest'
  BY <1>3 DEF OpInv, AloneAtTest, Evolve
<1>5. \A r \in 1 .. runs :
         /\ Working(r)' => Working(r)
         /\ Working(r) => Working(r)' \/ op'[r].step = "refused"
         /\ op[r].step = "refused" => op'[r].step = "refused"
         /\ op'[r].step = "loop" => op[r].step = "loop"
         /\ Working(r)' /\ op'[r].step # "inserted" => op[r].step # "inserted"
  BY DEF Evolve, Steps, Working
<1>6. \A id \in Ids : chan[id] # 0 => chan[id] \in 1 .. runs
  BY DEF OpInv, TypeOK
<1>7. OneOperationPerMessage'
  <2>1. ASSUME NEW r \in 1 .. runs, Working(r)', op[r].id \notin raced
        PROVE  /\ chan[op[r].id] = r
               /\ op'[r].step = "loop" => op'[r].reads = r
               /\ op'[r].step # "inserted" => op[r].id \in operations
    BY <1>5, <2>1 DEF OpInv, OneOperationPerMessage, Evolve
  <2>2. ASSUME NEW id \in Ids, chan[id] # 0
        PROVE  /\ op'[chan[id]].id = id
               /\ Working(chan[id])' \/ op'[chan[id]].step = "refused"
    BY <1>5, <1>6, <2>2 DEF OpInv, OneOperationPerMessage, Evolve
  <2> QED BY <2>1, <2>2 DEF OneOperationPerMessage, Evolve, Working
<1> QED BY <1>1, <1>2, <1>4, <1>7 DEF OpInv

LEMMA AdvancesEvolves ==
    ASSUME TypeOK, Counted, NEW r \in 1 .. runs, Advances(r)
    PROVE  /\ Evolve /\ keyFile' \in KeyFile /\ posted' \in BOOLEAN /\ told' \in BOOLEAN
           /\ messages' \in 0 .. MaxMessages
<1>1. PICK o : Moves(r, o) /\ KeyMoves(r, o)
  BY DEF Advances
<1>2. /\ keyFile' \in KeyFile /\ told' \in BOOLEAN /\ posted' \in BOOLEAN
      /\ messages' \in 0 .. MaxMessages
  BY <1>1 DEF TypeOK, Moves, KeyMoves, KeyFile
<1>3. /\ op'[r] = o /\ \A k \in 1 .. runs : k # r => op'[k] = op[k]
      /\ op' \in [1 .. runs -> Operation]
  BY <1>1 DEF TypeOK, Moves, Follows
<1>4. ASSUME NEW k \in 1 .. runs
      PROVE  /\ op'[k].id = op[k].id /\ op'[k].reads = op[k].reads
             /\ Steps(op[k].step, op'[k].step)
             /\ op'[k].updates + op'[k].failing <= MaxUpdates
  BY <1>1, <1>3 DEF Moves, Follows, Steps, Counted
<1> QED BY <1>1, <1>2, <1>3, <1>4 DEF Evolve, Moves

LEMMA RelaysEvolve ==
    ASSUME TypeOK, Counted, Relays
    PROVE  /\ Evolve /\ keyFile' \in KeyFile /\ posted' \in BOOLEAN /\ told' \in BOOLEAN
           /\ messages' \in 0 .. MaxMessages
BY DEF Relays, Evolve, Steps, TypeOK, Counted

\* What the end of the process leaves of an operation.
LEMMA ExitEmpties ==
    ASSUME TypeOK, Exit, NEW r \in 1 .. runs
    PROVE  /\ op'[r] \in Operation /\ op'[r].id = op[r].id /\ op'[r].step = "lost"
           /\ op'[r].updates + op'[r].failing <= MaxUpdates /\ op'[r].party = "gone"
<1>1. op[r].id \in Ids
  BY DEF TypeOK, Operation
<1>2. 0 \in 0 .. MaxUpdates /\ 0 \in 0 .. MaxRuns /\ 0 + 0 <= MaxUpdates
  BY ConstantsAssumption
<1>3. op'[r] = Lost(op[r])
  BY DEF Exit
<1> QED BY <1>1, <1>2, <1>3 DEF Lost, Operation

LEMMA ExitKeepsOpInv ==
    ASSUME OpInv, Exit, crashes' \in 0 .. MaxCrashes, messages' \in 0 .. MaxMessages
    PROVE  OpInv'
<1>1. TypeOK /\ Counted
  BY DEF OpInv
<1>2. \A r \in 1 .. runs : /\ op'[r] \in Operation /\ op'[r].step = "lost"
                           /\ op'[r].updates + op'[r].failing <= MaxUpdates
  BY <1>1, ExitEmpties
<1>3. /\ runs' = runs /\ alive' = FALSE /\ chan' = [id \in Ids |-> 0]
      /\ operations' = {} /\ raced' = {}
  BY DEF Exit
<1>4. op' \in [1 .. runs -> Operation]
  BY <1>2 DEF Exit
<1>5. channel' \in [1 .. runs -> Channel]
  BY ConstantsAssumption DEF Exit, NewChannel, Channel
<1>6. TypeOK'
  <2>1. runs \in 0 .. MaxRuns /\ 0 \in 0 .. runs
    BY <1>1, ConstantsAssumption DEF TypeOK
  <2>2. chan' \in [Ids -> 0 .. runs]
    BY <1>3, <2>1
  <2> QED BY <1>1, <1>3, <1>4, <1>5, <2>1, <2>2 DEF Exit, TypeOK
<1> QED BY <1>2, <1>3, <1>6
        DEF OpInv, Counted, EndedIsEmpty, AloneAtTest, AtTest, OneOperationPerMessage, Working

\* A request that passes the test: no other operation of its id works, and it is alone
\* there unless the id is marked.
LEMMA AcceptKeepsOpInv ==
    ASSUME OpInv, NEW id \in Ids, Accept(id),
           UNCHANGED <<alive, keyFile, messages, crashes, told>>, posted' \in BOOLEAN
    PROVE  OpInv'
<1>1. TypeOK /\ Counted
  BY DEF OpInv
<1>2. /\ alive /\ chan[id] = 0 /\ runs \in Nat /\ runs' = runs + 1
      /\ runs' \in 0 .. MaxRuns /\ chan' = chan /\ operations' = operations /\ alive' = alive
  BY <1>1, ConstantsAssumption DEF Accept, Known, TypeOK
<1>3. PICK new : new = [id |-> id, step |-> "checked", reads |-> 0, party |-> "none",
                        timer |-> "none", updates |-> 0, failing |-> 0]
  OBVIOUS
<1>4. op' = [r \in 1 .. runs + 1 |-> IF r <= runs THEN op[r] ELSE new]
  BY <1>3 DEF Accept
<1>5. /\ new \in Operation /\ new.id = id /\ new.step = "checked"
      /\ new.updates + new.failing <= MaxUpdates
  <2>1. 0 \in 0 .. MaxUpdates /\ 0 \in 0 .. MaxRuns /\ 0 + 0 <= MaxUpdates
    BY ConstantsAssumption
  <2> QED BY <1>3, <2>1 DEF Operation
<1>6. \A r \in 1 .. runs : r \in 1 .. runs' /\ r # runs' /\ op'[r] = op[r]
  BY <1>2, <1>4
<1>7. \A r \in 1 .. runs' : r = runs' \/ r \in 1 .. runs
  BY <1>2
<1>8. op'[runs'] = new /\ runs' \in 1 .. runs'
  BY <1>2, <1>4
<1>9. raced \subseteq raced' /\ raced' \subseteq Ids
  BY <1>1 DEF Accept, TypeOK
<1>10. TypeOK' /\ Counted'
  <2>1. op' \in [1 .. runs' -> Operation]
    BY <1>1, <1>2, <1>4, <1>5 DEF TypeOK
  <2>2. channel' \in [1 .. runs' -> Channel]
    <3>1. NewChannel \in Channel
      BY ConstantsAssumption DEF NewChannel, Channel
    <3> QED BY <1>1, <1>2, <3>1 DEF Accept, TypeOK
  <2>3. chan' \in [Ids -> 0 .. runs']
    BY <1>1, <1>2 DEF TypeOK
  <2> QED BY <1>1, <1>2, <1>5, <1>6, <1>7, <1>8, <1>9, <2>1, <2>2, <2>3 DEF TypeOK, Counted
<1>11. AloneAtTest'
  <2>1. SUFFICES ASSUME NEW r \in 1 .. runs', op'[r].step = "checked", op'[r].id \notin raced'
                 PROVE  /\ chan[op'[r].id] = 0
                        /\ \A q \in 1 .. runs' :
                              op'[q].step = "checked" /\ op'[q].id = op'[r].id => q = r
    BY <1>2 DEF AloneAtTest, AtTest
  <2>2. \A q \in 1 .. runs : op[q].id = id /\ op[q].step = "checked" => id \in raced'
    BY DEF Accept, AtTest
  <2>3. CASE r = runs'
    BY <1>2, <1>5, <1>6, <1>7, <1>8, <2>1, <2>2, <2>3
  <2>4. CASE r \in 1 .. runs
    <3>1. op'[r] = op[r] /\ op[r].id \notin raced
      BY <1>6, <1>9, <2>1, <2>4
    <3>2. /\ chan[op[r].id] = 0
          /\ \A q \in 1 .. runs : op[q].step = "checked" /\ op[q].id = op[r].id => q = r
      BY <2>1, <2>4, <3>1 DEF OpInv, AloneAtTest, AtTest
    <3>3. op[r].id # id
      BY <2>1, <2>2, <2>4, <3>1
    <3> QED BY <1>5, <1>6, <1>7, <1>8, <3>1, <3>2, <3>3
  <2> QED BY <1>7, <2>3, <2>4
<1>12. OneOperationPerMessage'
  <2>1. ASSUME NEW k \in 1 .. runs', Working(k)', op'[k].id \notin raced'
        PROVE  /\ chan[op'[k].id] = k
               /\ op'[k].step = "loop" => op'[k].reads = k
               /\ op'[k].step # "inserted" => op'[k].id \in operations
    <3>1. k \in 1 .. runs
      BY <1>5, <1>7, <1>8, <2>1 DEF Working
    <3>2. op'[k] = op[k] /\ Working(k) /\ op[k].id \notin raced
      BY <1>2, <1>6, <1>9, <2>1, <3>1 DEF Working
    <3> QED BY <3>1, <3>2 DEF OpInv, OneOperationPerMessage
  <2>2. ASSUME NEW i \in Ids, chan[i] # 0
        PROVE  /\ op'[chan[i]].id = i
               /\ Working(chan[i])' \/ op'[chan[i]].step = "refused"
    <3>1. PICK c \in 1 .. runs : c = chan[i]
      BY <1>1, <2>2 DEF TypeOK
    <3>2. op[c].id = i /\ (Working(c) \/ op[c].step = "refused")
      BY <2>2, <3>1 DEF OpInv, OneOperationPerMessage
    <3> QED BY <1>2, <1>6, <3>1, <3>2 DEF Working
  <2> QED BY <1>2, <2>1, <2>2 DEF OneOperationPerMessage, Working
<1> QED BY <1>2, <1>10, <1>11, <1>12 DEF OpInv, EndedIsEmpty

\* One operation passes a step at which the map, or the loop, is given its channel.
Turns(r, o) ==
    /\ op' = [op EXCEPT ![r] = o]
    /\ o \in Operation /\ o.id = op[r].id /\ o.party = op[r].party
    /\ o.updates + o.failing <= MaxUpdates
    /\ chan' \in [Ids -> 0 .. runs] /\ operations' \subseteq Ids
    /\ UNCHANGED <<alive, runs, channel, keyFile, posted, messages, crashes, told, raced>>

LEMMA TurnTypes ==
    ASSUME TypeOK, Counted, NEW r \in 1 .. runs, NEW o, Turns(r, o)
    PROVE  /\ TypeOK' /\ Counted' /\ op'[r] = o
           /\ \A k \in 1 .. runs : k # r => op'[k] = op[k]
           /\ UNCHANGED <<alive, runs, raced>>
<1>1. op' \in [1 .. runs -> Operation] /\ op'[r] = o
  BY DEF Turns, TypeOK
<1>2. \A k \in 1 .. runs : k # r => op'[k] = op[k]
  BY DEF Turns, TypeOK
<1>3. TypeOK'
  BY <1>1 DEF Turns, TypeOK
<1>4. Counted'
  BY <1>1, <1>2 DEF Turns, Counted
<1> QED BY <1>1, <1>2, <1>3, <1>4 DEF Turns

LEMMA InsertTurns ==
    ASSUME TypeOK, Counted, NEW r \in 1 .. runs, Insert(r)
    PROVE  \E o : Turns(r, o) /\ o.step = "inserted"
<1>1. PICK o : o = [op[r] EXCEPT !.step = "inserted"]
  OBVIOUS
<1>2. op[r] \in Operation /\ op[r].updates + op[r].failing <= MaxUpdates
  BY Fields
<1>3. /\ o \in Operation /\ o.id = op[r].id /\ o.party = op[r].party
      /\ o.updates + o.failing <= MaxUpdates /\ o.step = "inserted"
  BY <1>1, <1>2 DEF Operation
<1>4. chan' \in [Ids -> 0 .. runs] /\ operations' \subseteq Ids
  <2>1. r \in 0 .. runs /\ op[r].id \in Ids
    BY <1>2, ConstantsAssumption DEF TypeOK, Operation
  <2>2. chan' = [chan EXCEPT ![op[r].id] = r] /\ operations' = operations
    BY DEF Insert
  <2> QED BY <2>1, <2>2 DEF TypeOK
<1> QED BY <1>1, <1>3, <1>4 DEF Turns, Insert

LEMMA RegisterTurns ==
    ASSUME TypeOK, Counted, NEW r \in 1 .. runs, Register(r)
    PROVE  \/ Becomes(r, [op[r] EXCEPT !.step = "refused"])
           \/ /\ \E o : Turns(r, o) /\ o.step \in {"starting", "refused"}
              /\ chan' = chan /\ operations' = operations \cup {op[r].id}
<1>1. PICK s \in {"starting", "refused"} :
         s = IF Initiates(op[r].id) THEN "starting" ELSE "refused"
  OBVIOUS
<1>2. PICK o : o = [op[r] EXCEPT !.timer = "armed", !.step = s]
  OBVIOUS
<1>3. op[r] \in Operation /\ op[r].updates + op[r].failing <= MaxUpdates
  BY Fields
<1>4. /\ o \in Operation /\ o.id = op[r].id /\ o.party = op[r].party
      /\ o.updates + o.failing <= MaxUpdates /\ o.step = s
  BY <1>2, <1>3 DEF Operation
<1>5. SUFFICES ASSUME /\ operations' = operations \cup {op[r].id}
                      /\ op' = [op EXCEPT ![r].timer = "armed", ![r].step = s]
                      /\ UNCHANGED <<alive, runs, channel, chan, keyFile, posted, messages,
                                     crashes, told, raced>>
               PROVE  Turns(r, o) /\ chan' = chan
  BY <1>1, <1>4 DEF Register
<1>6. op' = [op EXCEPT ![r] = o]
  BY <1>2, <1>3, <1>5 DEF TypeOK
<1>7. chan' \in [Ids -> 0 .. runs] /\ operations' \subseteq Ids
  BY <1>3, <1>5 DEF TypeOK, Operation
<1> QED BY <1>4, <1>5, <1>6, <1>7 DEF Turns

LEMMA StartActionTurns ==
    ASSUME TypeOK, Counted, NEW r \in 1 .. runs, StartAction(r)
    PROVE  \E o : Turns(r, o) /\ o.step = "loop" /\ o.reads = chan[op[r].id]
<1>1. PICK o : o = [op[r] EXCEPT !.step = "loop", !.reads = chan[op[r].id]]
  OBVIOUS
<1>2. op[r] \in Operation /\ op[r].updates + op[r].failing <= MaxUpdates
  BY Fields
<1>3. chan[op[r].id] \in 0 .. MaxRuns
  BY <1>2, ConstantsAssumption DEF TypeOK, Operation
<1>4. /\ o \in Operation /\ o.id = op[r].id /\ o.party = op[r].party
      /\ o.updates + o.failing <= MaxUpdates /\ o.step = "loop" /\ o.reads = chan[op[r].id]
  BY <1>1, <1>2, <1>3 DEF Operation
<1> QED BY <1>1, <1>4 DEF Turns, StartAction, Becomes, TypeOK

LEMMA DeleteTurns ==
    ASSUME TypeOK, Counted, NEW r \in 1 .. runs, DeleteInstance(r), ~Panic
    PROVE  \E o : Turns(r, o) /\ o.step = "over"
<1>1. PICK o : o = [op[r] EXCEPT !.step = "over", !.reads = 0]
  OBVIOUS
<1>2. op[r] \in Operation /\ op[r].updates + op[r].failing <= MaxUpdates
  BY Fields
<1>3. /\ o \in Operation /\ o.id = op[r].id /\ o.party = op[r].party
      /\ o.updates + o.failing <= MaxUpdates /\ o.step = "over"
  <2>1. 0 \in 0 .. MaxRuns
    BY ConstantsAssumption
  <2> QED BY <1>1, <1>2, <2>1 DEF Operation
<1>4. op' = [op EXCEPT ![r] = o]
  BY <1>1, <1>2 DEF DeleteInstance, TypeOK
<1>5. chan' \in [Ids -> 0 .. runs] /\ operations' \subseteq Ids
  <2>1. 0 \in 0 .. runs /\ op[r].id \in Ids
    BY <1>2, ConstantsAssumption DEF TypeOK, Operation
  <2>2. chan' = [chan EXCEPT ![op[r].id] = 0] /\ operations' = operations \ {op[r].id}
    BY DEF DeleteInstance
  <2> QED BY <2>1, <2>2 DEF TypeOK
<1> QED BY <1>3, <1>4, <1>5 DEF Turns, DeleteInstance

\* An id not marked has no other request past the test and no operation when its channel
\* enters the map.
LEMMA InsertKeepsOpInv ==
    ASSUME OpInv, NEW r \in 1 .. runs, Insert(r)
    PROVE  OpInv'
<1>1. TypeOK /\ Counted
  BY DEF OpInv
<1>2. PICK o : Turns(r, o) /\ o.step = "inserted"
  BY <1>1, InsertTurns
<1>3. /\ TypeOK' /\ Counted' /\ op'[r] = o /\ o.id = op[r].id
      /\ \A k \in 1 .. runs : k # r => op'[k] = op[k]
      /\ UNCHANGED <<alive, runs, raced>>
  BY <1>1, <1>2, TurnTypes DEF Turns
<1>4. /\ alive /\ AtTest(r) /\ operations' = operations /\ op[r].id \in Ids
      /\ chan' = [chan EXCEPT ![op[r].id] = r]
  BY <1>1 DEF Insert, Live, TypeOK, Operation
<1>5. chan'[op[r].id] = r /\ \A i \in Ids : i # op[r].id => chan'[i] = chan[i]
  BY <1>1, <1>4 DEF TypeOK
<1>6. \A k \in 1 .. runs : op[k].id \in Ids /\ k # 0
  BY <1>1 DEF TypeOK, Operation
<1>7. AloneAtTest'
  <2>1. \A k \in 1 .. runs : op'[k].step = "checked" => k # r /\ op[k].step = "checked"
    BY <1>2, <1>3
  <2>2. \A k \in 1 .. runs : op'[k].id = op[k].id
    BY <1>3
  <2>3. ASSUME NEW k \in 1 .. runs, op'[k].step = "checked", op[k].id \notin raced
        PROVE  /\ chan'[op[k].id] = 0
               /\ \A q \in 1 .. runs : op'[q].step = "checked" /\ op[q].id = op[k].id => q = k
    <3>1. /\ chan[op[k].id] = 0
          /\ \A q \in 1 .. runs : op[q].step = "checked" /\ op[q].id = op[k].id => q = k
      BY <2>1, <2>3 DEF OpInv, AloneAtTest, AtTest
    <3>2. op[k].id # op[r].id
      BY <1>4, <2>1, <2>3, <3>1 DEF AtTest
    <3> QED BY <1>5, <1>6, <2>1, <3>1, <3>2
  <2> QED BY <1>3, <2>2, <2>3 DEF AloneAtTest, AtTest
<1>8. OneOperationPerMessage'
  <2>1. ASSUME NEW k \in 1 .. runs, Working(k)', op'[k].id \notin raced
        PROVE  /\ chan'[op'[k].id] = k
               /\ op'[k].step = "loop" => op'[k].reads = k
               /\ op'[k].step # "inserted" => op'[k].id \in operations
    <3>1. CASE k = r
      BY <1>2, <1>3, <1>5, <3>1
    <3>2. CASE k # r
      <4>1. op'[k] = op[k] /\ Working(k)
        BY <1>3, <2>1, <3>2 DEF Working
      <4>2. /\ chan[op[k].id] = k
            /\ op[k].step = "loop" => op[k].reads = k
            /\ op[k].step # "inserted" => op[k].id \in operations
        BY <2>1, <4>1 DEF OpInv, OneOperationPerMessage
      <4>3. op[k].id # op[r].id
        BY <1>4, <1>6, <2>1, <4>1, <4>2 DEF OpInv, AloneAtTest
      <4> QED BY <1>5, <1>6, <4>1, <4>2, <4>3
    <3> QED BY <3>1, <3>2
  <2>2. ASSUME NEW i \in Ids, chan'[i] # 0
        PROVE  /\ op'[chan'[i]].id = i
               /\ Working(chan[i])' \/ op'[chan'[i]].step = "refused"
    <3>1. CASE i = op[r].id
      BY <1>2, <1>3, <1>4, <1>5, <3>1 DEF Working
    <3>2. CASE i # op[r].id
      <4>1. /\ chan[i] # 0
            /\ \E c \in 1 .. runs : c = chan[i] /\ c = chan'[i]
        BY <1>1, <1>5, <2>2, <3>2 DEF TypeOK
      <4>2. PICK c \in 1 .. runs : c = chan[i] /\ c = chan'[i]
        BY <4>1
      <4>3. op[c].id = i /\ (Working(c) \/ op[c].step = "refused")
        <5>1. op[chan[i]].id = i /\ (Working(chan[i]) \/ op[chan[i]].step = "refused")
          BY <4>1 DEF OpInv, OneOperationPerMessage
        <5> QED BY <4>2, <5>1
      <4> QED BY <1>3, <3>2, <4>2, <4>3 DEF Working
    <3> QED BY <3>1, <3>2
  <2> QED BY <1>3, <1>4, <2>1, <2>2 DEF OneOperationPerMessage, Working
<1> QED BY <1>3, <1>4, <1>7, <1>8 DEF OpInv, EndedIsEmpty

\* A turn that leaves the map of channels alone, and of an operation that works.
LEMMA TurnKeepsOpInv ==
    ASSUME OpInv, NEW r \in 1 .. runs, NEW o, Turns(r, o), Working(r),
           o.step \in {"starting", "refused", "loop"}, chan' = chan,
           operations \subseteq operations', op[r].id \notin raced => op[r].id \in operations',
           o.step = "loop" => o.reads = chan[op[r].id]
    PROVE  OpInv'
<1>1. TypeOK /\ Counted
  BY DEF OpInv
<1>2. /\ TypeOK' /\ Counted' /\ op'[r] = o /\ o.id = op[r].id
      /\ \A k \in 1 .. runs : k # r => op'[k] = op[k]
      /\ UNCHANGED <<alive, runs, raced>> /\ alive
  BY <1>1, TurnTypes DEF Turns, Working
<1>3. AloneAtTest'
  <2>1. \A k \in 1 .. runs : op'[k].id = op[k].id /\ (op'[k].step = "checked" => op[k].step = "checked")
    BY <1>2
  <2> QED BY <1>2, <2>1 DEF OpInv, AloneAtTest, AtTest
<1>4. OneOperationPerMessage'
  <2>1. ASSUME NEW k \in 1 .. runs, Working(k)', op'[k].id \notin raced
        PROVE  /\ chan[op'[k].id] = k
               /\ op'[k].step = "loop" => op'[k].reads = k
               /\ op'[k].step # "inserted" => op'[k].id \in operations'
    <3>1. CASE k = r
      <4>1. chan[op[r].id] = r
        BY <1>2, <2>1, <3>1 DEF OpInv, OneOperationPerMessage
      <4>2. o.step = "loop" => o.reads = r
        BY <4>1
      <4>3. op[r].id \in operations'
        BY <1>2, <2>1, <3>1
      <4> QED BY <1>2, <3>1, <4>1, <4>2, <4>3
    <3>2. CASE k # r
      <4>1. op'[k] = op[k] /\ Working(k)
        BY <1>2, <2>1, <3>2 DEF Working
      <4> QED BY <2>1, <4>1 DEF OpInv, OneOperationPerMessage
    <3> QED BY <3>1, <3>2
  <2>2. ASSUME NEW i \in Ids, chan[i] # 0
        PROVE  /\ op'[chan[i]].id = i
               /\ Working(chan[i])' \/ op'[chan[i]].step = "refused"
    <3>1. PICK c \in 1 .. runs : c = chan[i]
      BY <1>1, <2>2 DEF TypeOK
    <3>2. op[c].id = i /\ (Working(c) \/ op[c].step = "refused")
      BY <2>2, <3>1 DEF OpInv, OneOperationPerMessage
    <3> QED BY <1>2, <3>1, <3>2 DEF Working
  <2> QED BY <1>2, <2>1, <2>2 DEF OneOperationPerMessage, Working
<1> QED BY <1>2, <1>3, <1>4 DEF OpInv, EndedIsEmpty

LEMMA RegisterKeepsOpInv ==
    ASSUME OpInv, NEW r \in 1 .. runs, Register(r)
    PROVE  OpInv'
<1>1. TypeOK /\ Counted /\ Working(r)
  BY DEF OpInv, Register, Live, Working
<1>2. CASE Becomes(r, [op[r] EXCEPT !.step = "refused"])
  <2>1. Steps(op[r].step, "refused") /\ "refused" \in StepNames
    BY DEF Register, Steps, StepNames
  <2>2. Advances(r)
    BY <1>1, <1>2, <2>1, StepMoves
  <2> QED BY <1>1, <2>2, AdvancesEvolves, EvolveKeepsOpInv
<1>3. CASE /\ \E o : Turns(r, o) /\ o.step \in {"starting", "refused"}
           /\ chan' = chan /\ operations' = operations \cup {op[r].id}
  BY <1>1, <1>3, TurnKeepsOpInv
<1> QED BY <1>1, <1>2, <1>3, RegisterTurns

LEMMA StartActionKeepsOpInv ==
    ASSUME OpInv, NEW r \in 1 .. runs, StartAction(r)
    PROVE  OpInv'
<1>1. TypeOK /\ Counted /\ Working(r)
  BY DEF OpInv, StartAction, Live, Working
<1>2. chan' = chan /\ operations' = operations
  BY DEF StartAction, Becomes
<1>3. PICK o : Turns(r, o) /\ o.step = "loop" /\ o.reads = chan[op[r].id]
  BY <1>1, StartActionTurns
<1>4. op[r].id \notin raced => op[r].id \in operations
  BY <1>1 DEF OpInv, OneOperationPerMessage, StartAction
<1> QED BY <1>1, <1>2, <1>3, <1>4, TurnKeepsOpInv

LEMMA DeleteKeepsOpInv ==
    ASSUME OpInv, NEW r \in 1 .. runs, DeleteInstance(r), ~Panic
    PROVE  OpInv'
<1>1. TypeOK /\ Counted
  BY DEF OpInv
<1>2. PICK o : Turns(r, o) /\ o.step = "over"
  BY <1>1, DeleteTurns
<1>3. /\ TypeOK' /\ Counted' /\ op'[r] = o /\ o.id = op[r].id
      /\ \A k \in 1 .. runs : k # r => op'[k] = op[k]
      /\ UNCHANGED <<alive, runs, raced>>
  BY <1>1, <1>2, TurnTypes DEF Turns
<1>4. /\ alive /\ Working(r) /\ operations' = operations \ {op[r].id} /\ op[r].id \in Ids
      /\ chan' = [chan EXCEPT ![op[r].id] = 0]
  BY <1>1 DEF DeleteInstance, Live, Working, TypeOK, Operation
<1>5. chan'[op[r].id] = 0 /\ \A i \in Ids : i # op[r].id => chan'[i] = chan[i]
  BY <1>1, <1>4 DEF TypeOK
<1>6. \A k \in 1 .. runs : op[k].id \in Ids
  BY <1>1 DEF TypeOK, Operation
<1>7. AloneAtTest'
  <2>1. \A k \in 1 .. runs : /\ op'[k].id = op[k].id
                             /\ op'[k].step = "checked" => op[k].step = "checked"
    BY <1>2, <1>3
  <2>2. \A k \in 1 .. runs : chan[op[k].id] = 0 => chan'[op[k].id] = 0
    BY <1>5, <1>6
  <2> QED BY <1>3, <2>1, <2>2 DEF OpInv, AloneAtTest, AtTest
<1>8. OneOperationPerMessage'
  <2>1. ASSUME NEW k \in 1 .. runs, Working(k)', op'[k].id \notin raced
        PROVE  /\ chan'[op'[k].id] = k
               /\ op'[k].step = "loop" => op'[k].reads = k
               /\ op'[k].step # "inserted" => op'[k].id \in operations'
    <3>1. k # r
      BY <1>2, <1>3, <2>1 DEF Working
    <3>2. op'[k] = op[k] /\ Working(k)
      BY <1>3, <2>1, <3>1 DEF Working
    <3>3. /\ chan[op[k].id] = k
          /\ op[k].step = "loop" => op[k].reads = k
          /\ op[k].step # "inserted" => op[k].id \in operations
      BY <2>1, <3>2 DEF OpInv, OneOperationPerMessage
    <3>4. op[k].id # op[r].id
      BY <1>4, <2>1, <3>1, <3>2, <3>3 DEF OpInv, OneOperationPerMessage
    <3> QED BY <1>4, <1>5, <1>6, <3>2, <3>3, <3>4
  <2>2. ASSUME NEW i \in Ids, chan'[i] # 0
        PROVE  /\ op'[chan'[i]].id = i
               /\ Working(chan[i])' \/ op'[chan'[i]].step = "refused"
    <3>1. i # op[r].id /\ chan'[i] = chan[i]
      BY <1>5, <2>2
    <3>2. PICK c \in 1 .. runs : c = chan[i]
      BY <1>1, <2>2, <3>1 DEF TypeOK
    <3>3. op[c].id = i /\ (Working(c) \/ op[c].step = "refused")
      BY <2>2, <3>1, <3>2 DEF OpInv, OneOperationPerMessage
    <3> QED BY <1>3, <3>1, <3>2, <3>3 DEF Working
  <2> QED BY <1>3, <2>1, <2>2 DEF OneOperationPerMessage, Working
<1> QED BY <1>3, <1>4, <1>7, <1>8 DEF OpInv, EndedIsEmpty

\* What each step is, to the operations and to the key.
StepKinds ==
    \/ UNCHANGED vars
    \/ Exit /\ crashes' \in 0 .. MaxCrashes
    \/ RunBinary
    \/ StartNewKeygen
    \/ \E id \in SignIds : StartNewSign(id)
    \/ Relays
    \/ \E r \in 1 .. runs :
          \/ Insert(r) \/ Register(r) \/ StartAction(r)
          \/ Advances(r)
          \/ DeleteInstance(r) /\ ~Panic

LEMMA NextIsOfAKind ==
    ASSUME TypeOK, Counted, [Next]_vars
    PROVE  StepKinds
<1>1. Panic => Exit /\ crashes' \in 0 .. MaxCrashes
  BY DEF Panic, TypeOK
<1>2. CASE Crash
  BY <1>2, ConstantsAssumption DEF Crash, StepKinds, TypeOK
<1>3. CASE RunBinary \/ StartNewKeygen \/ UNCHANGED vars
  BY <1>3 DEF StepKinds
<1>4. CASE \E id \in Ids : StartNewSign(id) \/ Lookup(id)
  BY <1>4, HandlerRelays DEF StartNewSign, StepKinds
<1>5. ASSUME NEW r \in 1 .. runs, Goroutines(r) \/ PartyFails(r) \/ PartyEnds(r) \/ Send(r)
      PROVE  StepKinds
  <2>1. CASE Insert(r) \/ Register(r) \/ StartAction(r)
    BY <2>1 DEF StepKinds
  <2>2. CASE \/ CreateParty(r) \/ ReceiveMessage(r) \/ ReceiveClosed(r) \/ ReceiveError(r)
             \/ ReceiveStatus(r) \/ FailCallback(r)
    BY <2>2, LoopAdvances DEF StepKinds
  <2>3. CASE \/ WriteData(r) \/ CallBack(r) \/ Update(r) \/ TimeOut(r) \/ CloseChannel(r)
             \/ PartyFails(r) \/ PartyEnds(r)
    BY <1>1, <2>3, OthersAdvance DEF StepKinds
  <2>4. CASE DeleteInstance(r)
    BY <1>1, <2>4 DEF StepKinds
  <2>5. CASE TimerPanics(r)
    BY <1>1, <2>5 DEF TimerPanics, StepKinds
  <2>6. CASE Send(r)
    BY <2>6, HandlerRelays DEF StepKinds
  <2> QED BY <1>5, <2>1, <2>2, <2>3, <2>4, <2>5, <2>6 DEF Goroutines
<1> QED BY <1>2, <1>3, <1>4, <1>5 DEF Next

LEMMA StepKeepsOpInv ==
    ASSUME OpInv, [Next]_vars
    PROVE  OpInv'
<1>1. TypeOK /\ Counted
  BY DEF OpInv
<1>2. StepKinds
  BY <1>1, NextIsOfAKind
<1>3. CASE UNCHANGED vars
  BY <1>3 DEF vars, OpInv, TypeOK, Counted, EndedIsEmpty, AloneAtTest, AtTest,
              OneOperationPerMessage, Working
<1>4. CASE Exit /\ crashes' \in 0 .. MaxCrashes
  BY <1>1, <1>4, ExitKeepsOpInv DEF Exit, TypeOK
<1>5. CASE RunBinary
  <2>1. TypeOK' /\ Counted'
    BY <1>1, <1>5 DEF RunBinary, TypeOK, Counted
  <2>2. AloneAtTest' /\ OneOperationPerMessage'
    BY <1>5 DEF RunBinary, OpInv, EndedIsEmpty, AloneAtTest, AtTest, OneOperationPerMessage, Working
  <2> QED BY <1>5, <2>1, <2>2 DEF RunBinary, OpInv, EndedIsEmpty
<1>6. CASE StartNewKeygen
  <2>1. posted' \in BOOLEAN /\ UNCHANGED <<alive, keyFile, messages, crashes, told>> /\ KeygenId \in Ids
    BY <1>6 DEF StartNewKeygen, Ids
  <2>2. CASE Accept(KeygenId)
    BY <2>1, <2>2, AcceptKeepsOpInv
  <2>3. CASE UNCHANGED <<runs, op, channel, chan, operations, raced>>
    BY <1>1, <2>1, <2>3
    DEF OpInv, TypeOK, Counted, EndedIsEmpty, AloneAtTest, AtTest, OneOperationPerMessage, Working
  <2> QED BY <1>6, <2>2, <2>3 DEF StartNewKeygen
<1>7. ASSUME NEW id \in SignIds, StartNewSign(id)
      PROVE  OpInv'
  <2>1. id \in Ids /\ posted' \in BOOLEAN
    BY <1>1, <1>7 DEF Ids, StartNewSign, TypeOK
  <2> QED BY <1>7, <2>1, AcceptKeepsOpInv DEF StartNewSign
<1>8. CASE Relays
  BY <1>1, <1>8, RelaysEvolve, EvolveKeepsOpInv
<1>9. ASSUME NEW r \in 1 .. runs, Insert(r) \/ Register(r) \/ StartAction(r)
      PROVE  OpInv'
  BY <1>9, InsertKeepsOpInv, RegisterKeepsOpInv, StartActionKeepsOpInv
<1>10. ASSUME NEW r \in 1 .. runs, Advances(r)
       PROVE  OpInv'
  BY <1>1, <1>10, AdvancesEvolves, EvolveKeepsOpInv
<1>11. ASSUME NEW r \in 1 .. runs, DeleteInstance(r), ~Panic
       PROVE  OpInv'
  BY <1>11, DeleteKeepsOpInv
<1> QED BY <1>2, <1>3, <1>4, <1>5, <1>6, <1>7, <1>8, <1>9, <1>10, <1>11 DEF StepKinds

LEMMA OpInvHolds == Spec => []OpInv
<1>1. Init => OpInv
  <2>1. 0 \in 0 .. MaxRuns /\ 0 \in 0 .. 0 /\ 0 \in 0 .. MaxCrashes /\ 0 \in 0 .. MaxMessages
    BY ConstantsAssumption
  <2>2. ASSUME NEW r \in 1 .. 0 PROVE FALSE
    OBVIOUS
  <2> QED BY <2>1, <2>2
          DEF Init, OpInv, TypeOK, Counted, EndedIsEmpty, AloneAtTest, OneOperationPerMessage
<1>2. OpInv /\ [Next]_vars => OpInv'
  BY StepKeepsOpInv
<1> QED BY <1>1, <1>2, PTL DEF Spec

\* The operations, the channels and everything else keep their types.
THEOREM TypeCorrect == Spec => []TypeOK
<1>1. OpInv => TypeOK
  BY DEF OpInv
<1> QED BY <1>1, OpInvHolds, PTL

\* Only two requests that overlap between the test of StartNewSign and its insertion can
\* make two operations of one message id.  Without them the id leads to its one operation,
\* whose loop reads that channel and whose entry deleteInstance finds; and with or without
\* them no id leads to an operation that deleteInstance removed.
THEOREM OneOperationCorrect == Spec => []OneOperationPerMessage
<1>1. OpInv => OneOperationPerMessage
  BY DEF OpInv
<1> QED BY <1>1, OpInvHolds, PTL

-----------------------------------------------------------------------------
(***************************************************************************)
(* The key                                                                 *)
(***************************************************************************)
\* Steps that leave the party of every operation and the key alone.
LEMMA QuietKeepsKeyInv ==
    ASSUME KeyInv, UNCHANGED <<runs, keyFile, posted, told>>,
           \A r \in 1 .. runs : op'[r].id = op[r].id /\ op'[r].party = op[r].party
    PROVE  KeyInv'
BY DEF KeyInv, KeygenOf, ReportedKeyIsStored

LEMMA TurnKeepsKeyInv ==
    ASSUME TypeOK, Counted, KeyInv, NEW r \in 1 .. runs, NEW o, Turns(r, o)
    PROVE  KeyInv'
<1>1. op'[r] = o /\ \A k \in 1 .. runs : k # r => op'[k] = op[k]
  BY TurnTypes
<1>2. \A k \in 1 .. runs : op'[k].id = op[k].id /\ op'[k].party = op[k].party
  BY <1>1 DEF Turns
<1> QED BY <1>2, QuietKeepsKeyInv DEF Turns

LEMMA StepKeepsKeyInv ==
    ASSUME TypeOK, Counted, KeyInv, [Next]_vars
    PROVE  KeyInv'
<1>1. StepKinds
  BY NextIsOfAKind
<1>2. runs \in Nat
  BY ConstantsAssumption DEF TypeOK
<1>3. CASE UNCHANGED vars \/ RunBinary \/ Relays
  BY <1>3, QuietKeepsKeyInv DEF vars, RunBinary, Relays
<1>4. CASE Exit
  <2>1. \A r \in 1 .. runs : op'[r].id = op[r].id /\ op'[r].party = "gone"
    BY <1>4, ExitEmpties
  <2> QED BY <1>4, <2>1 DEF Exit, KeyInv, KeygenOf, ReportedKeyIsStored
<1>5. ASSUME NEW id, Accept(id)
      PROVE  /\ runs' = runs + 1
             /\ \A r \in 1 .. runs : op'[r] = op[r]
             /\ op'[runs + 1].id = id /\ op'[runs + 1].party = "none"
  BY <1>2, <1>5 DEF Accept
<1>6. \A r \in 1 .. runs + 1 : r = runs + 1 \/ r \in 1 .. runs
  BY <1>2
<1>7. CASE StartNewKeygen
  <2>1. /\ ~told /\ \A r \in 1 .. runs : ~KeygenOf(r)
    BY <1>7 DEF StartNewKeygen, KeyInv
  <2>2. CASE Accept(KeygenId)
    BY <1>5, <1>6, <1>7, <2>1, <2>2 DEF StartNewKeygen, KeyInv, KeygenOf, ReportedKeyIsStored
  <2>3. CASE UNCHANGED <<runs, op, channel, chan, operations, raced>>
    BY <1>7, <2>1, <2>3 DEF StartNewKeygen, KeyInv, KeygenOf, ReportedKeyIsStored
  <2> QED BY <1>7, <2>2, <2>3 DEF StartNewKeygen
<1>8. ASSUME NEW id \in SignIds, StartNewSign(id)
      PROVE  KeyInv'
  <2>1. id # KeygenId
    BY ConstantsAssumption
  <2> QED BY <1>5, <1>6, <1>8, <2>1 DEF StartNewSign, KeyInv, KeygenOf, ReportedKeyIsStored
<1>9. ASSUME NEW r \in 1 .. runs, Advances(r)
      PROVE  KeyInv'
  <2>1. PICK o : Moves(r, o) /\ KeyMoves(r, o)
    BY <1>9 DEF Advances
  <2>2. /\ op'[r] = o /\ o.id = op[r].id
        /\ \A k \in 1 .. runs : k # r => op'[k] = op[k]
        /\ runs' = runs /\ posted' = posted
    BY <2>1 DEF Moves, Follows, TypeOK
  <2>3. \A k \in 1 .. runs : KeygenOf(k)' <=> KeygenOf(k)
    BY <2>2 DEF KeygenOf
  <2>4. CASE UNCHANGED <<keyFile, told>> /\ Parties(op[r].id, op[r].party, o.party)
    BY <2>2, <2>3, <2>4 DEF Parties, KeyInv, KeygenOf, ReportedKeyIsStored
  <2>5. CASE /\ op[r].party = "running" /\ o.party = "writing" /\ op[r].id = KeygenId
             /\ keyFile' = "torn" /\ UNCHANGED told
    BY <2>2, <2>3, <2>5 DEF KeyInv, KeygenOf, ReportedKeyIsStored
  <2>6. CASE /\ op[r].party = "writing" /\ o.party = "stored"
             /\ keyFile' = "whole" /\ UNCHANGED told
    BY <2>2, <2>3, <2>6 DEF KeyInv, KeygenOf, ReportedKeyIsStored
  <2>7. CASE /\ op[r].party = "stored" /\ o.party = "finished"
             /\ told' = (told \/ op[r].id = KeygenId) /\ UNCHANGED keyFile
    BY <2>2, <2>3, <2>7 DEF KeyInv, KeygenOf, ReportedKeyIsStored
  <2> QED BY <2>1, <2>4, <2>5, <2>6, <2>7 DEF KeyMoves
<1>10. ASSUME NEW r \in 1 .. runs, Register(r)
       PROVE  KeyInv'
  <2>1. CASE Becomes(r, [op[r] EXCEPT !.step = "refused"])
    <3>1. Steps(op[r].step, "refused") /\ "refused" \in StepNames
      BY <1>10 DEF Register, Steps, StepNames
    <3> QED BY <1>9, <2>1, <3>1, StepMoves
  <2> QED BY <1>10, <2>1, RegisterTurns, TurnKeepsKeyInv
<1>11. ASSUME NEW r \in 1 .. runs,
              Insert(r) \/ StartAction(r) \/ (DeleteInstance(r) /\ ~Panic)
       PROVE  KeyInv'
  BY <1>11, InsertTurns, StartActionTurns, DeleteTurns, TurnKeepsKeyInv
<1> QED BY <1>1, <1>3, <1>4, <1>7, <1>8, <1>9, <1>10, <1>11 DEF StepKinds

\* A key generation reported to its caller has its key on the disk from then on, through
\* every failure of the process: nothing opens the key file again.
THEOREM ReportedKeyCorrect == Spec => []ReportedKeyIsStored
<1>1. Init => KeyInv
  BY DEF Init, KeyInv, ReportedKeyIsStored
<1>2. KeyInv => ReportedKeyIsStored
  BY DEF KeyInv
<1>3. OpInv => TypeOK /\ Counted
  BY DEF OpInv
<1>4. TypeOK /\ Counted /\ KeyInv /\ [Next]_vars => KeyInv'
  BY StepKeepsKeyInv
<1> QED BY <1>1, <1>2, <1>3, <1>4, OpInvHolds, PTL DEF Spec
=============================================================================
