------------------------------- MODULE TssApi -------------------------------
(***************************************************************************)
(* The process tss-api (Go): operations of signing and of key generation,  *)
(* each with the goroutines that share its channels.  An operation has     *)
(*   - the goroutine of its HTTP request, which tests that its id is       *)
(*     unknown, inserts its channel and registers it, in three steps       *)
(*     without a lock: another request may come between them,              *)
(*   - the goroutine of StartAction (its loop, then the failure callback   *)
(*     and deleteInstance),                                                *)
(*   - the goroutine of CreateParty, which waits for the party to produce  *)
(*     messages or its result (GossipMessageHandler),                      *)
(*   - goroutines that update the party with a message received, and       *)
(*   - the goroutine of its time-out.                                      *)
(* They meet at errorCh, which is unbuffered: a sender waits for the loop  *)
(* to receive, for ever when the loop has ended, and panics when the       *)
(* channel is closed.  A panic ends the process and everything in memory;  *)
(* the guard starts it again.  Goroutines of MessageHandler keep the       *)
(* channel they looked up, whatever becomes of its entry in the map.       *)
(*                                                                         *)
(* What the party computes is external: it may produce its result, or fail,*)
(* at any time.  One read or write of a map is one step; the crash of two  *)
(* at the same instant is one of the crashes that may happen at any time.  *)
(***************************************************************************)
EXTENDS Integers, FiniteSets

CONSTANTS
    SignIds,     \* message ids of signings
    KeygenId,    \* the message id of the key generation
    MaxRuns,     \* bound: requests that pass the test of their id
    MaxUpdates,  \* bound: updates of one party under way
    MaxInbox,    \* capacity of a message channel
    MaxMessages, \* bound: messages that find a channel
    MaxCrashes   \* bound: times the process is killed

ASSUME ConstantsAssumption ==
    /\ KeygenId \notin SignIds
    /\ {MaxRuns, MaxUpdates, MaxInbox, MaxMessages, MaxCrashes} \subseteq Nat

Ids == SignIds \cup {KeygenId}
Run == 1 .. MaxRuns

KeyFile == {"none", "torn", "whole"}

\* `step`: where the request is: its id found unknown; its channel inserted; registered,
\* and its goroutine not yet at StartAction; refused all the same.  Then where StartAction
\* is: in its loop; stuck in CreateParty; returned an error, or nil; deleted (errorCh
\* closed); gone with the process.
\* `reads`: the channel its loop was given, 0 for nil.
\* `party`: what the goroutine of CreateParty does; failing and finished: it waits to
\* send to errorCh or statusCh.   `timer`: what the one of timeOutGoRoutine does.
\* `updates`, `failing`: goroutines that update the party, that wait to send an error.
Operation == [id : Ids,
              step : {"checked", "inserted", "starting", "loop", "stuck", "refused",
                      "failed", "ended", "over", "lost"},
              reads : 0 .. MaxRuns,
              party : {"none", "running", "writing", "stored", "failing", "finished", "gone"},
              timer : {"none", "armed", "sending", "closing", "gone"},
              updates : 0 .. MaxUpdates, failing : 0 .. MaxUpdates]

\* The message channel an operation made; `handlers`: goroutines about to send to it.
Channel == [inbox : 0 .. MaxInbox, closed : BOOLEAN, handlers : Nat]

NewChannel == [inbox |-> 0, closed |-> FALSE, handlers |-> 0]

VARIABLES
    alive,      \* whether the process runs
    runs,       \* requests accepted so far
    op,         \* the operations, by request
    channel,    \* the message channels, by the request that made them
    chan,       \* ChannelMap: the channel an id leads to, 0 for none
    operations, \* the ids with an entry in SignOperationMap or KeygenOperationMap
    keyFile,    \* keygen_data.json: not there, torn (opened, not written), or whole
    posted,     \* whether Tss.tryCallApi has posted its request
    messages,   \* messages that found a channel so far
    crashes,    \* times the process was killed
    told,       \* history: whether the callback with the result of a key generation was answered
    raced       \* history: ids that two requests found unknown, neither having inserted its channel

vars == <<alive, runs, op, channel, chan, operations, keyFile, posted, messages, crashes, told,
          raced>>

TypeOK ==
    /\ alive \in BOOLEAN /\ posted \in BOOLEAN /\ keyFile \in KeyFile
    /\ runs \in 0 .. MaxRuns
    /\ op \in [1 .. runs -> Operation]
    /\ channel \in [1 .. runs -> Channel]
    /\ chan \in [Ids -> 0 .. runs]
    /\ operations \subseteq Ids /\ raced \subseteq Ids
    /\ messages \in 0 .. MaxMessages /\ crashes \in 0 .. MaxCrashes
    /\ told \in BOOLEAN

Init ==
    /\ alive = TRUE /\ posted = FALSE /\ keyFile \in KeyFile
    /\ runs = 0
    /\ op = [r \in 1 .. 0 |-> 0] /\ channel = [r \in 1 .. 0 |-> 0]
    /\ chan = [id \in Ids |-> 0]
    /\ operations = {} /\ raced = {}
    /\ messages = 0 /\ crashes = 0
    /\ told = FALSE

-----------------------------------------------------------------------------
(***************************************************************************)
(* The process                                                             *)
(***************************************************************************)

\* What is left of an operation when the process has ended.
Lost(o) ==
    [id |-> o.id, step |-> "lost", reads |-> 0, party |-> "gone", timer |-> "gone",
     updates |-> 0, failing |-> 0]

\* The process ends.
Exit ==
    /\ alive /\ alive' = FALSE
    /\ op' = [r \in 1 .. runs |-> Lost(op[r])]
    /\ channel' = [r \in 1 .. runs |-> NewChannel]
    /\ chan' = [id \in Ids |-> 0]
    /\ operations' = {} /\ raced' = {}
    /\ UNCHANGED <<runs, keyFile, posted, messages, told>>

\* A panic of one of its goroutines: there are as many as the operations allow.
Panic == Exit /\ UNCHANGED crashes

\* It is killed, or two goroutines write a map at the same instant.
Crash ==
    /\ crashes < MaxCrashes /\ crashes' = crashes + 1
    /\ Exit

\* The close listener of runBinary starts it again after a while.
RunBinary ==
    /\ ~alive
    /\ alive' = TRUE
    /\ UNCHANGED <<runs, op, channel, chan, operations, keyFile, posted, messages, crashes, told, raced>>

Live(r) == alive /\ op[r].step # "lost"

\* The operation r becomes o, and nothing else changes.
Becomes(r, o) ==
    /\ op' = [op EXCEPT ![r] = o]
    /\ UNCHANGED <<alive, runs, channel, chan, operations, keyFile, posted, messages, crashes, told, raced>>

-----------------------------------------------------------------------------
(***************************************************************************)
(* Requests                                                                *)
(***************************************************************************)

\* Mutant: the id of a running operation is not refused.
NotKnown(id) == FALSE

\* The test for DuplicatedMessageIdError.
Known(id) == chan[id] # 0

Class(id) == IF id = KeygenId THEN "Keygen" ELSE "Sign"

\* checkOperation compares the class it forbids with the operations of the class that
\* is requested, so it refuses nothing.
CheckOperation(id) ==
    \A i \in operations :
        Class(i) = Class(id) => Class(i) \notin {"Keygen", "Sign"} \ {Class(id)}

\* A request at the test of its id.
AtTest(r) == op[r].step = "checked"

\* StartNewSign and StartNewKeygen up to the test of the id, which passes.
Accept(id) ==
    /\ alive /\ CheckOperation(id) /\ ~Known(id) /\ runs < MaxRuns
    /\ runs' = runs + 1
    /\ op' = [r \in 1 .. runs + 1 |->
                 IF r <= runs THEN op[r]
                 ELSE [id |-> id, step |-> "checked", reads |-> 0, party |-> "none",
                       timer |-> "none", updates |-> 0, failing |-> 0]]
    /\ channel' = [r \in 1 .. runs + 1 |-> IF r <= runs THEN channel[r] ELSE NewChannel]
    /\ raced' = raced \cup {i \in {id} : \E r \in 1 .. runs : op[r].id = id /\ AtTest(r)}
    /\ UNCHANGED <<chan, operations>>

StartNewSign(id) ==
    /\ id \in SignIds /\ Accept(id)
    /\ UNCHANGED <<alive, keyFile, posted, messages, crashes, told>>

\* The request of tryCallApi is made once, whether it is accepted or not.
StartNewKeygen ==
    /\ ~posted
    /\ posted' = TRUE
    /\ IF alive /\ keyFile = "none" THEN Accept(KeygenId)
       ELSE UNCHANGED <<runs, op, channel, chan, operations, raced>>
    /\ UNCHANGED <<alive, keyFile, messages, crashes, told>>

\* The channel of the request enters the map, whatever is there by then.
Insert(r) ==
    /\ Live(r) /\ AtTest(r)
    /\ chan' = [chan EXCEPT ![op[r].id] = r]
    /\ op' = [op EXCEPT ![r].step = "inserted"]
    /\ UNCHANGED <<alive, runs, channel, operations, keyFile, posted, messages, crashes, told, raced>>

\* Init of the operation: a signing needs the key (LoadData).
Initiates(id) == id \in SignIds => keyFile = "whole"

\* The rest of the request.  A wrong crypto or derivation path is refused before the
\* operation and its time-out exist, a failed Init after; the channel stays in the map.
Register(r) ==
    /\ Live(r) /\ op[r].step = "inserted"
    /\ \/ Becomes(r, [op[r] EXCEPT !.step = "refused"])
       \/ /\ operations' = operations \cup {op[r].id}
          /\ op' = [op EXCEPT ![r].timer = "armed",
                              ![r].step = IF Initiates(op[r].id) THEN "starting" ELSE "refused"]
          /\ UNCHANGED <<alive, runs, channel, chan, keyFile, posted, messages, crashes, told, raced>>

-----------------------------------------------------------------------------
(***************************************************************************)
(* StartAction                                                             *)
(***************************************************************************)

\* The goroutine reads the map again for the channel of its loop.
StartAction(r) ==
    /\ Live(r) /\ op[r].step = "starting"
    /\ Becomes(r, [op[r] EXCEPT !.step = "loop", !.reads = chan[op[r].id]])

\* CreateParty.  When the party cannot be started it sends the error to the channel
\* that only its own goroutine receives from.
CreateParty(r) ==
    /\ Live(r) /\ op[r].step = "loop" /\ op[r].party = "none"
    /\ \/ Becomes(r, [op[r] EXCEPT !.party = "running"])
       \/ Becomes(r, [op[r] EXCEPT !.step = "stuck"])

\* Mutant: what is received from a closed channel is taken for a message.
ClosedHasMessage(c) == channel[c].inbox > 0 \/ channel[c].closed

HasMessage(c) == channel[c].inbox > 0

\* A message is received: a goroutine updates the party, unless it cannot be decoded.
\* A loop that was given nil receives none.
ReceiveMessage(r) ==
    /\ Live(r) /\ op[r].step = "loop"
    /\ LET c == op[r].reads
       IN  /\ c # 0 /\ HasMessage(c)
           /\ \/ /\ op[r].updates + op[r].failing < MaxUpdates
                 /\ op' = [op EXCEPT ![r].updates = @ + 1]
              \/ op' = [op EXCEPT ![r].step = "failed"]
           /\ channel' = [channel EXCEPT ![c].inbox = @ - 1]
    /\ UNCHANGED <<alive, runs, chan, operations, keyFile, posted, messages, crashes, told, raced>>

\* The message channel was closed by a time-out and is empty.
ReceiveClosed(r) ==
    /\ Live(r) /\ op[r].step = "loop"
    /\ LET c == op[r].reads
       IN  c # 0 /\ channel[c].closed /\ channel[c].inbox = 0
    /\ Becomes(r, [op[r] EXCEPT !.step = "failed"])

\* An error is received from one of those that wait to send it.
ReceiveError(r) ==
    /\ Live(r) /\ op[r].step = "loop"
    /\ \/ /\ op[r].timer = "sending"
          /\ Becomes(r, [op[r] EXCEPT !.step = "failed", !.timer = "closing"])
       \/ /\ op[r].party = "failing"
          /\ Becomes(r, [op[r] EXCEPT !.step = "failed", !.party = "gone"])
       \/ /\ op[r].failing > 0
          /\ Becomes(r, [op[r] EXCEPT !.step = "failed", !.failing = @ - 1])

ReceiveStatus(r) ==
    /\ Live(r) /\ op[r].step = "loop" /\ op[r].party = "finished"
    /\ Becomes(r, [op[r] EXCEPT !.step = "ended", !.party = "gone"])

\* The callback of a failed operation, which is attempted once.
FailCallback(r) ==
    /\ Live(r) /\ op[r].step = "failed"
    /\ Becomes(r, [op[r] EXCEPT !.step = "ended"])

\* Goroutines that wait to send to errorCh.
Senders(o) == o.timer = "sending" \/ o.party = "failing" \/ o.failing > 0

\* deleteInstance.  It panics when the entry of its class is gone, and closing errorCh
\* panics in those that wait to send to it.
DeleteInstance(r) ==
    /\ Live(r) /\ op[r].step = "ended"
    /\ \/ (op[r].id \notin operations \/ Senders(op[r])) /\ Panic
       \/ /\ op[r].id \in operations /\ ~Senders(op[r])
          /\ operations' = operations \ {op[r].id}
          /\ chan' = [chan EXCEPT ![op[r].id] = 0]
          /\ op' = [op EXCEPT ![r].step = "over", ![r].reads = 0]
          /\ UNCHANGED <<alive, runs, channel, keyFile, posted, messages, crashes, told, raced>>

-----------------------------------------------------------------------------
(***************************************************************************)
(* The other goroutines                                                    *)
(***************************************************************************)

\* A goroutine of r sends an error to errorCh and is then o; closed, it panics.
SendError(r, o) == IF op[r].step = "over" THEN Panic ELSE Becomes(r, o)

\* HandleOutMessage fails to publish, or HandleEndMessage to write the key: a file
\* that was opened stays as it is.
PartyFails(r) ==
    /\ Live(r) /\ op[r].party \in {"running", "writing"}
    /\ SendError(r, [op[r] EXCEPT !.party = "failing"])

\* The party ends: HandleEndMessage of a key generation opens the key file, which
\* truncates it.
PartyEnds(r) ==
    /\ Live(r) /\ op[r].party = "running"
    /\ op' = [op EXCEPT ![r].party = IF op[r].id = KeygenId THEN "writing" ELSE "stored"]
    /\ keyFile' = IF op[r].id = KeygenId THEN "torn" ELSE keyFile
    /\ UNCHANGED <<alive, runs, channel, chan, operations, posted, messages, crashes, told, raced>>

\* And writes it.
WriteData(r) ==
    /\ Live(r) /\ op[r].party = "writing"
    /\ op' = [op EXCEPT ![r].party = "stored"]
    /\ keyFile' = "whole"
    /\ UNCHANGED <<alive, runs, channel, chan, operations, posted, messages, crashes, told, raced>>

\* Mutant: the result of a key generation may be reported before it is written.
MayReportEarly(o) == o.party \in {"writing", "stored"}

MayReport(o) == o.party = "stored"

\* The callback with the result, which is answered or fails.
CallBack(r) ==
    /\ Live(r) /\ MayReport(op[r])
    /\ \/ /\ told' = (told \/ op[r].id = KeygenId)
          /\ op' = [op EXCEPT ![r].party = "finished"]
          /\ UNCHANGED <<alive, runs, channel, chan, operations, keyFile, posted, messages, crashes, raced>>
       \/ SendError(r, [op[r] EXCEPT !.party = "failing"])

\* PartyUpdate of one message, once there is a party.
Update(r) ==
    /\ Live(r) /\ op[r].updates > 0 /\ op[r].party # "none"
    /\ \/ Becomes(r, [op[r] EXCEPT !.updates = @ - 1])
       \/ SendError(r, [op[r] EXCEPT !.updates = @ - 1, !.failing = @ + 1])

\* Mutant: a time-out concerns only operations whose party has not started.
ConcernsUnstarted(r) == chan[op[r].id] # 0 /\ op[r].party = "none"

\* Whether the id still has a channel: that of r, or of a later operation.
Concerns(r) == chan[op[r].id] # 0

TimeOut(r) ==
    /\ Live(r) /\ op[r].timer = "armed"
    /\ Becomes(r, [op[r] EXCEPT !.timer = IF Concerns(r) THEN "sending" ELSE "gone"])

\* The operation was deleted since: the send of its time-out panics.
TimerPanics(r) == Live(r) /\ op[r].timer = "sending" /\ op[r].step = "over" /\ Panic

\* After the send it closes the channel of the id, which may be gone (closing nil
\* panics), closed already (so does that) or of a later operation.
CloseChannel(r) ==
    /\ Live(r) /\ op[r].timer = "closing"
    /\ LET c == chan[op[r].id]
       IN  IF c = 0 \/ (c # 0 /\ channel[c].closed)
           THEN Panic
           ELSE /\ op' = [op EXCEPT ![r].timer = "gone"]
                /\ channel' = [channel EXCEPT ![c].closed = TRUE]
                /\ UNCHANGED <<alive, runs, chan, operations, keyFile, posted, messages, crashes, told, raced>>

\* The goroutine of MessageHandler, which waits until its id has a channel and gives up
\* after MessageTimeout, takes it from the map.  One that finds the id and then nil
\* waits for ever and touches nothing.
Lookup(id) ==
    /\ alive /\ chan[id] # 0
    /\ messages < MaxMessages /\ messages' = messages + 1
    /\ channel' = [channel EXCEPT ![chan[id]].handlers = @ + 1]
    /\ UNCHANGED <<alive, runs, op, chan, operations, keyFile, posted, crashes, told, raced>>

\* And sends to it, in or out of the map by then, when it has room.  Sending to a closed
\* channel is recovered from.
Send(c) ==
    /\ alive /\ channel[c].handlers > 0
    /\ \/ /\ channel[c].closed
          /\ channel' = [channel EXCEPT ![c].handlers = @ - 1]
       \/ /\ ~channel[c].closed /\ channel[c].inbox < MaxInbox
          /\ channel' = [channel EXCEPT ![c].handlers = @ - 1, ![c].inbox = @ + 1]
    /\ UNCHANGED <<alive, runs, op, chan, operations, keyFile, posted, messages, crashes, told, raced>>

-----------------------------------------------------------------------------

\* What the scheduler and the time-outs make happen in the operation r.
Goroutines(r) ==
    \/ Insert(r) \/ Register(r) \/ StartAction(r)
    \/ CreateParty(r) \/ ReceiveMessage(r) \/ ReceiveClosed(r) \/ ReceiveError(r)
    \/ ReceiveStatus(r) \/ FailCallback(r) \/ DeleteInstance(r)
    \/ WriteData(r) \/ CallBack(r) \/ Update(r) \/ TimeOut(r) \/ TimerPanics(r) \/ CloseChannel(r)

Next ==
    \/ Crash
    \/ RunBinary
    \/ StartNewKeygen
    \/ \E id \in Ids : StartNewSign(id) \/ Lookup(id)
    \/ \E r \in 1 .. runs : Goroutines(r) \/ PartyFails(r) \/ PartyEnds(r) \/ Send(r)

Spec == Init /\ [][Next]_vars

\* Goroutines that can run do run, select does not pass over a sender for ever and a
\* time-out comes.  Nothing is assumed of the party, of the callbacks (their client has
\* no time-out), nor that a message arrives.
Fairness ==
    /\ WF_vars(RunBinary)
    /\ \A r \in Run :
          /\ WF_vars(r <= runs /\ (Insert(r) \/ Register(r) \/ StartAction(r)))
          /\ WF_vars(r <= runs /\ (TimeOut(r) \/ CreateParty(r)))
          /\ WF_vars(r <= runs /\ (ReceiveError(r) \/ ReceiveStatus(r)))
          /\ WF_vars(r <= runs /\ DeleteInstance(r))

FairSpec == Spec /\ Fairness

-----------------------------------------------------------------------------
(***************************************************************************)
(* Properties                                                              *)
(***************************************************************************)

\* An operation from the insertion of its channel to deleteInstance.
Working(r) ==
    alive /\ op[r].step \in {"inserted", "starting", "loop", "stuck", "failed", "ended"}

\* Unless two requests of an id pass its test before either inserts its channel, there is
\* one operation of the id at a time: while it works the id leads to its channel and to
\* no other, its loop reads that channel, and deleteInstance will find its entry.  And
\* whatever the requests do, no id leads to the channel of an operation that is over, so
\* only a goroutine that looked it up before can still send there.
OneOperationPerMessage ==
    /\ \A r \in 1 .. runs : Working(r) /\ op[r].id \notin raced =>
          /\ chan[op[r].id] = r
          /\ op[r].step = "loop" => op[r].reads = r
          /\ op[r].step # "inserted" => op[r].id \in operations
    /\ \A id \in Ids : chan[id] # 0 =>
          /\ op[chan[id]].id = id
          /\ Working(chan[id]) \/ op[chan[id]].step = "refused"

\* A key generation that its caller was told to have succeeded has its key on the
\* disk, whenever the process ends.
ReportedKeyIsStored ==
    told => keyFile = "whole"

\* Every operation whose request was answered comes to its end within its time-out,
\* whatever the party and the other guards do: its caller is being called back with the
\* failure, or it is deleted.  Unless two requests raced for its id (the first to end
\* removes the entry without which the other's time-out does nothing), the party cannot
\* be started (CreateParty then waits for itself), or the process ends.
Answered ==
    \A r \in Run :
        (r <= runs /\ op[r].step = "starting")
            ~> (r <= runs /\ \/ op[r].step \in {"failed", "over", "stuck", "lost"}
                             \/ op[r].id \in raced)
=============================================================================
