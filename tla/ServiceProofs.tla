---------------------------- MODULE ServiceProofs ----------------------------
(***************************************************************************)
(* Proofs about the batcher process and the feed of its driver's status:   *)
(* what run reports is true, and every change of the status the poller saw *)
(* reaches the driver in order, for any number of faults, sequencers,      *)
(* statuses and events.                                                    *)
(***************************************************************************)
EXTENDS MCBatcherService, TLAPS

-----------------------------------------------------------------------------
(* The supervision of the tasks. *)

\* Setup is over and run has not returned an error before it began.
Started == phase \in {"running", "returned"}

\* Where the joined task is: the driver and the watch are never both between two looks,
\* neither is while the end of the driver is passed on, and both only live in run.
JoinInv ==
    /\ driver = "looked" => phase = "running" /\ main = "poll" /\ watch # "looked"
    /\ watch = "looked" => phase = "running" /\ main = "poll"
    /\ main = "cancel" => phase = "running"
    /\ driver = "draining" => cancelled
    /\ DriverReturned /\ main = "poll" => cancelled

\* What the watch has concluded.
WatchInv ==
    /\ watch \in {"reaping", "done"} <=> background # "none"
    /\ background # "none" => Started
    /\ watch = "done" => \A t \in Tasks : task[t] # "running"

\* A task ends by itself only after a cancellation or the end of the driver, and while the
\* watch is between its two looks only the operator can have cancelled.
EndsInv ==
    /\ ~cancelled /\ ~DriverDropped => \A t \in Tasks : task[t] # "ended"
    /\ watch = "looked" /\ ~signalled => ~cancelled

\* The inductive invariant of the supervision.
ServiceInv ==
    TypeOK /\ JoinInv /\ WatchInv /\ EndsInv /\ AlarmJustified /\ CleanReturn

\* The process starts in step.
LEMMA ServiceInit == Init => ServiceInv
  <1> SUFFICES ASSUME Init PROVE ServiceInv
    OBVIOUS
  <1>1. 1 \in 1 .. Len(Stages) + 1
    BY DEF Stages
  <1>2. TypeOK
    BY <1>1, Zenon DEF Init, TypeOK
  <1> QED
    BY <1>2 DEF Init, ServiceInv, JoinInv, WatchInv, EndsInv, AlarmJustified, CleanReturn,
       DriverReturned, DriverDropped, Started

\* The operator's stop.
LEMMA SignalKeeps == ServiceInv /\ Signal => ServiceInv'
  BY DEF Signal, ServiceInv, TypeOK, JoinInv, WatchInv, EndsInv, AlarmJustified, CleanReturn,
     DriverReturned, DriverDropped, Started, Stages, service, supervision

\* The steps of setup: nothing is watched before they are over.
LEMMA SetupKeeps == ServiceInv /\ (SetupStep \/ SetupFails \/ SetupDone) => ServiceInv'
  <1>1. ServiceInv /\ SetupStep => ServiceInv'
    BY DEF SetupStep, ServiceInv, TypeOK, JoinInv, WatchInv, EndsInv, AlarmJustified, CleanReturn,
       DriverReturned, DriverDropped, Started, Stages, supervision
  <1>2. ServiceInv /\ SetupFails => ServiceInv'
    BY DEF SetupFails, ServiceInv, TypeOK, JoinInv, WatchInv, EndsInv, AlarmJustified, CleanReturn,
       DriverReturned, DriverDropped, Started, Stages, supervision
  <1>3. ServiceInv /\ SetupDone => ServiceInv'
    BY DEF SetupDone, ServiceInv, TypeOK, JoinInv, WatchInv, EndsInv, AlarmJustified, CleanReturn,
       DriverReturned, DriverDropped, Started, Stages, supervision
  <1> QED
    BY <1>1, <1>2, <1>3

\* The background tasks, each on a thread of its own.
LEMMA TasksKeep ==
    ASSUME ServiceInv, NEW t \in Tasks, TaskStops(t) \/ TaskFails(t)
    PROVE  ServiceInv'
  <1>1. CASE TaskStops(t)
    BY <1>1 DEF TaskStops, ServiceInv, TypeOK, JoinInv, WatchInv, EndsInv, AlarmJustified, CleanReturn,
       DriverReturned, DriverDropped, Started, Stages, service, supervision
  <1>2. CASE TaskFails(t)
    BY <1>2 DEF TaskFails, ServiceInv, TypeOK, JoinInv, WatchInv, EndsInv, AlarmJustified, CleanReturn,
       DriverReturned, DriverDropped, Started, Stages, service, supervision
  <1> QED
    BY <1>1, <1>2

\* The driver, in the first branch of the join.
LEMMA DriverKeeps == ServiceInv /\ (Driver \/ DriverFails) => ServiceInv'
  <1> USE DEF ServiceInv, TypeOK, JoinInv, WatchInv, EndsInv, AlarmJustified, CleanReturn,
       DriverReturned, DriverDropped, Started, service, supervision, Joined
  <1>1. ServiceInv /\ DriverLooks => ServiceInv'
    BY DEF DriverLooks
  <1>2. ServiceInv /\ DriverReceives => ServiceInv'
    BY DEF DriverReceives
  <1>3. ServiceInv /\ DriverDrains => ServiceInv'
    BY DEF DriverDrains
  <1>4. ServiceInv /\ DriverCancels => ServiceInv'
    BY DEF DriverCancels
  <1>5. ServiceInv /\ DriverFails => ServiceInv'
    BY SMTT(30) DEF DriverFails
  <1> QED
    BY <1>1, <1>2, <1>3, <1>4, <1>5, Zenon DEF Driver

\* The watch, in the second branch, and the end of the join.
LEMMA WatchKeeps == ServiceInv /\ (Watch \/ Returns) => ServiceInv'
  <1> USE DEF ServiceInv, TypeOK, JoinInv, WatchInv, EndsInv, AlarmJustified, CleanReturn,
       DriverReturned, DriverDropped, Started, service, supervision, Polled
  <1>1. ServiceInv /\ WatchLooks => ServiceInv'
    BY DEF WatchLooks
  <1>2. ServiceInv /\ WatchTasks => ServiceInv'
    <2> SUFFICES ASSUME ServiceInv, WatchTasks PROVE ServiceInv'
      OBVIOUS
    <2>1. phase = "running" /\ main = "poll" /\ watch = "looked"
      BY DEF WatchTasks
    <2>2. CASE \E t \in Tasks : Gone(t)
      <3>1. signalled \/ \E t \in Tasks : task[t] = "failed"
        BY <2>1, <2>2 DEF Gone
      <3>2. AlarmJustified'
        BY <3>1 DEF WatchTasks
      <3>3. watch' = "reaping" /\ background' = "error" /\ cancelled' = TRUE
        BY <2>2 DEF WatchTasks
      <3> QED
        BY <2>1, <3>2, <3>3 DEF WatchTasks
    <2>3. CASE ~ \E t \in Tasks : Gone(t)
      <3>1. watch' = "watching" /\ UNCHANGED <<background, cancelled>>
        BY <2>3 DEF WatchTasks
      <3> QED
        BY <2>1, <3>1 DEF WatchTasks
    <2> QED
      BY <2>2, <2>3
  <1>3. ServiceInv /\ WatchReaps => ServiceInv'
    BY DEF WatchReaps
  <1>4. ServiceInv /\ Returns => ServiceInv'
    BY DEF Returns, DriverError
  <1> QED
    BY <1>1, <1>2, <1>3, <1>4, Zenon DEF Watch

\* Every step of the process keeps the invariant.
LEMMA ServiceStepInv == ServiceInv /\ [Next]_vars => ServiceInv'
  <1>1. ServiceInv /\ UNCHANGED vars => ServiceInv'
    BY DEF vars, service, supervision, ServiceInv, TypeOK, JoinInv, WatchInv, EndsInv, AlarmJustified,
       CleanReturn, DriverReturned, DriverDropped, Started
  <1> QED
    BY <1>1, SignalKeeps, SetupKeeps, TasksKeep, DriverKeeps, WatchKeeps DEF Next

-----------------------------------------------------------------------------
(* The feed of the driver's status. *)

Status == 1 .. MaxStatus

\* The fields the types leave open: a status is only sent if it is usable, a search has
\* a place for every answer, and the channel holds one status at most.
FieldsInv ==
    /\ Feed!TypeOK
    /\ tracker = "asking" => answers \in [Feed!Sequencer -> {"none", "yes", "no"}]
    /\ poller = "sending" => status \in Status
    /\ channel = <<>> \/ \E x \in Status : channel = <<x>>
    /\ delivered \in Seq(Status) /\ delivered # <<>>

\* What went into the channel so far.
Sent == delivered \o channel

\* What the poller compares with is what it sent last.
SentInv == poller # "ended" => last = Sent[Len(Sent)]

\* The inductive invariant of the feed.
FeedInv == FieldsInv /\ SentInv /\ Feed!ChangesDelivered

\* Appending nothing, or one element.
LEMMA Concats ==
    ASSUME NEW S, NEW s \in Seq(S), NEW x \in S
    PROVE  /\ s \o <<>> = s /\ s \o <<x>> = Append(s, x)
           /\ Append(s, x)[Len(Append(s, x))] = x
           /\ Append(s, x) \in Seq(S) /\ Append(s, x) # <<>>
  OBVIOUS

\* What went into the channel is a sequence of usable statuses, and not empty.
LEMMA SentIs ==
    ASSUME FieldsInv
    PROVE  Sent \in Seq(Status) /\ Sent # <<>> /\ (channel = <<>> => Sent = delivered)
  <1>1. CASE channel = <<>>
    <2>1. delivered \o <<>> = delivered
      BY DEF FieldsInv
    <2> QED
      BY <1>1, <2>1 DEF FieldsInv, Sent
  <1>2. ASSUME NEW x \in Status, channel = <<x>>
        PROVE  Sent \in Seq(Status) /\ Sent # <<>> /\ channel # <<>>
    <2>1. delivered \in Seq(Status)
      BY DEF FieldsInv
    <2> QED
      BY <1>2, <2>1, Concats DEF Sent
  <1> QED
    BY <1>1, <1>2 DEF FieldsInv

\* The feed starts with the status setup found.
LEMMA FeedInit == Feed!Init => FeedInv
  <1> SUFFICES ASSUME Feed!Init PROVE FeedInv
    OBVIOUS
  <1>1. leader \in 1 .. N /\ node[leader] \in Status
    BY FeedAssumption DEF Feed!Init, Feed!RightLeader, Feed!Sequencer, Feed!Usable, Status
  <1>2. <<node[leader]>> \in Seq(Status) /\ <<node[leader]>> # <<>>
    BY <1>1
  <1>3. Feed!TypeOK
    BY <1>1, FeedAssumption DEF Feed!Init, Feed!TypeOK, Feed!Sequencer, Status
  <1>4. FieldsInv
    BY <1>2, <1>3 DEF Feed!Init, FieldsInv
  <1>5. delivered = <<node[leader]>> /\ seen = delivered /\ last = node[leader] /\ poller = "sleep"
        /\ channel = <<>>
    BY DEF Feed!Init
  <1>6. Sent = <<node[leader]>> /\ Sent \o <<>> = Sent
    BY <1>4, <1>5, SentIs
  <1> QED
    BY <1>4, <1>5, <1>6 DEF FeedInv, SentInv, Feed!ChangesDelivered, Sent

\* A step that leaves the channel and the poller's statuses alone, and does not make the
\* poller send.
LEMMA QuietKeeps ==
    ASSUME FeedInv, FieldsInv', UNCHANGED <<channel, delivered, seen, last, status>>,
           poller' \in {poller, "ended"} \/ (poller \in {"sleep", "asking"} /\ poller' \in {"sleep", "asking"})
    PROVE  FeedInv'
  BY Zenon DEF FeedInv, SentInv, Feed!ChangesDelivered, Sent

\* The nodes and the tracker.
LEMMA TrackerKeeps ==
    ASSUME FeedInv,
           Feed!Tracker \/ \E s \in Feed!Sequencer : Feed!NodeMoves(s) \/ Feed!LeaderMoves(s) \/ Feed!NoAnswer(s)
    PROVE  FeedInv'
  <1> USE DEF FieldsInv, Feed!TypeOK, Feed!polls, Feed!feed, Feed!nodes, Feed!search
  <1>1. /\ UNCHANGED <<channel, delivered, seen, last, status, poller, asked, f_driver, current>>
        /\ leader' \in Feed!Sequencer
    BY DEF FeedInv, Feed!Tracker, Feed!NodeMoves, Feed!LeaderMoves, Feed!NoAnswer, Feed!Refresh, Feed!Answers,
       Feed!Decide, Feed!TrackerStops, Feed!FirstActive
  <1>2. /\ node' \in [Feed!Sequencer -> 0 .. MaxStatus] /\ active' \subseteq Feed!Sequencer
        /\ tracker' \in {"sleep", "asking", "ended"}
    BY DEF FeedInv, Feed!Tracker, Feed!NodeMoves, Feed!LeaderMoves, Feed!NoAnswer, Feed!Refresh, Feed!Answers,
       Feed!Decide, Feed!TrackerStops
  <1>3. /\ answers' = <<>> \/ answers' \in [Feed!Sequencer -> {"none", "yes", "no"}]
        /\ tracker' = "asking" => answers' \in [Feed!Sequencer -> {"none", "yes", "no"}]
    BY Zenon DEF FeedInv, Feed!Tracker, Feed!NodeMoves, Feed!LeaderMoves, Feed!NoAnswer, Feed!Refresh, Feed!Answers,
       Feed!Decide, Feed!TrackerStops
  <1>4. FieldsInv'
    BY <1>1, <1>2, <1>3, Zenon DEF FeedInv
  <1> QED
    BY <1>1, <1>4, QuietKeeps

\* The poller's request and its end, and the end of the driver.
LEMMA PollerKeeps ==
    ASSUME FeedInv, Feed!Ask \/ Feed!AskFails \/ Feed!PollerStops \/ Feed!Cancel \/ Feed!DriverEnds
    PROVE  FeedInv'
  <1>1. /\ UNCHANGED <<channel, delivered, seen, last, status, current>>
        /\ UNCHANGED <<node, active, leader, answers, tracker>>
        /\ poller' \in {poller, "ended"} \/ (poller \in {"sleep", "asking"} /\ poller' \in {"sleep", "asking"})
        /\ asked' \in {asked, leader} /\ f_driver' \in {f_driver, "gone"}
    BY DEF Feed!Ask, Feed!AskFails, Feed!PollerStops, Feed!Cancel, Feed!DriverEnds, Feed!polls, Feed!feed,
       Feed!nodes, Feed!search
  <1>2. FieldsInv'
    BY <1>1 DEF FeedInv, FieldsInv, Feed!TypeOK
  <1> QED
    BY <1>1, <1>2, QuietKeeps

\* The answer: what the poller records as seen is what it sends.
LEMMA AnsweredKeeps ==
    ASSUME FeedInv, Feed!Answered
    PROVE  FeedInv'
  <1> DEFINE st == node[asked]
  <1>1. /\ UNCHANGED <<node, active, leader, answers, tracker, asked, last, channel, current, delivered,
                       f_driver>>
        /\ poller = "asking"
        /\ \/ poller' = "sleep" /\ status' = status /\ seen' = seen
           \/ /\ st # 0 /\ st = last /\ poller' = "sleep" /\ status' = status
              /\ seen' = IF seen[Len(seen)] = st THEN seen ELSE Append(seen, st)
           \/ /\ st # 0 /\ st # last /\ poller' = "sending" /\ status' = st
              /\ seen' = IF seen[Len(seen)] = st THEN seen ELSE Append(seen, st)
    BY DEF Feed!Answered, Feed!Observe, Feed!Usable, Feed!nodes, Feed!search, Feed!feed
  <1>2. st \in 0 .. MaxStatus /\ (st # 0 => st \in Status)
    BY FeedAssumption DEF FeedInv, FieldsInv, Feed!TypeOK, Status
  <1> HIDE DEF st
  <1>3. FieldsInv'
    BY <1>1, <1>2 DEF FeedInv, FieldsInv, Feed!TypeOK
  <1>4. Sent \in Seq(Status) /\ Sent # <<>> /\ Sent' = Sent
    BY <1>1, SentIs DEF FeedInv, Sent
  <1>5. seen = Sent
    BY <1>1, <1>4 DEF FeedInv, Feed!ChangesDelivered, Sent
  <1>6. last = seen[Len(seen)]
    BY <1>1, <1>5 DEF FeedInv, SentInv
  <1>7. SentInv'
    BY <1>1, <1>4, <1>5, <1>6 DEF SentInv
  <1>8. CASE poller' = "sleep"
    <2>1. seen' = seen
      BY <1>1, <1>6, <1>8
    <2>2. Sent \o <<>> = Sent
      BY <1>4
    <2> QED
      BY <1>3, <1>4, <1>5, <1>7, <1>8, <2>1, <2>2 DEF FeedInv, Feed!ChangesDelivered, Sent
  <1>9. CASE poller' = "sending"
    <2>1. st \in Status /\ status' = st /\ seen' = Append(Sent, st)
      BY <1>1, <1>2, <1>5, <1>6, <1>9
    <2>2. Sent \o <<st>> = Append(Sent, st)
      BY <1>4, <2>1, Concats
    <2> QED
      BY <1>3, <1>4, <1>7, <1>9, <2>1, <2>2 DEF FeedInv, Feed!ChangesDelivered, Sent
  <1> QED
    BY <1>1, <1>8, <1>9

\* The status enters the empty channel.
LEMMA SendKeeps ==
    ASSUME FeedInv, Feed!Send
    PROVE  FeedInv'
  <1>1. /\ poller = "sending" /\ channel = <<>> /\ channel' = <<status>> /\ last' = status
        /\ poller' = "sleep"
        /\ UNCHANGED <<node, active, leader, answers, tracker, asked, status, current, delivered, f_driver,
                       seen>>
    BY DEF Feed!Send, Feed!nodes, Feed!search
  <1>2. status \in Status /\ delivered \in Seq(Status)
    BY <1>1 DEF FeedInv, FieldsInv
  <1>3. <<status>> \in Seq(Status) /\ Len(<<status>>) <= 1
    BY <1>2
  <1>4. FieldsInv'
    BY <1>1, <1>2, <1>3 DEF FeedInv, FieldsInv, Feed!TypeOK, Status
  <1>5. Sent = delivered
    BY <1>1, SentIs DEF FeedInv
  <1>6. seen = Append(delivered, status) /\ Sent' = Append(delivered, status)
    BY <1>1, <1>2, <1>5, Concats DEF FeedInv, Feed!ChangesDelivered, Sent
  <1>7. Append(delivered, status) \o <<>> = Append(delivered, status)
        /\ Append(delivered, status)[Len(Append(delivered, status))] = status
    BY <1>2, Concats
  <1>8. SentInv'
    BY <1>1, <1>6, <1>7 DEF SentInv
  <1>9. Feed!ChangesDelivered'
    BY <1>1, <1>6, <1>7 DEF Feed!ChangesDelivered, Sent
  <1> QED
    BY <1>4, <1>8, <1>9 DEF FeedInv

\* The driver takes the status out of the channel, and accepts or ignores it.
LEMMA ReceiveKeeps ==
    ASSUME FeedInv, Feed!Receive
    PROVE  FeedInv'
  <1>1. PICK x \in Status : channel = <<x>>
    BY DEF Feed!Receive, FeedInv, FieldsInv
  <1>2. Head(<<x>>) = x /\ Tail(<<x>>) = <<>>
    OBVIOUS
  <1>3. /\ current' \in {current, x} /\ channel' = <<>> /\ delivered' = Append(delivered, x)
        /\ UNCHANGED <<node, active, leader, answers, tracker, asked, status, last, poller, f_driver, seen>>
    BY <1>1, <1>2 DEF Feed!Receive, Feed!nodes, Feed!search, Feed!polls
  <1>4. delivered \in Seq(Status)
    BY DEF FeedInv, FieldsInv
  <1>5. <<>> \in Seq(Status) /\ Len(<<>>) <= 1
    OBVIOUS
  <1>6. FieldsInv'
    <2>1. delivered' \in Seq(Status) /\ delivered' # <<>>
      BY <1>3, <1>4, Concats
    <2>2. Feed!TypeOK'
      BY <1>3, <1>5 DEF FeedInv, FieldsInv, Feed!TypeOK, Status
    <2> QED
      BY <1>3, <2>1, <2>2 DEF FeedInv, FieldsInv
  <1>7. Sent = Append(delivered, x)
    BY <1>1, <1>4, Concats DEF Sent
  <1>8. Append(delivered, x) \in Seq(Status)
    BY <1>4, Concats
  <1>9. Sent' = Sent
    BY <1>3, <1>7, <1>8, Concats DEF Sent
  <1> QED
    BY <1>3, <1>6, <1>9 DEF FeedInv, SentInv, Feed!ChangesDelivered, Sent

\* Every step of the feed keeps the invariant.
LEMMA FeedStepInv == FeedInv /\ [Feed!Next]_feed => FeedInv'
  <1>1. FeedInv /\ UNCHANGED feed => FeedInv'
    BY Zenon DEF feed, FeedInv, FieldsInv, SentInv, Sent, Feed!TypeOK, Feed!ChangesDelivered
  <1> QED
    BY <1>1, TrackerKeeps, PollerKeeps, AnsweredKeeps, SendKeeps, ReceiveKeeps DEF Feed!Next, Feed!Poller

-----------------------------------------------------------------------------
(* Both parts. *)

\* Each part's invariant holds in every state of the run of both.
LEMMA PartsInvariant == MCSpec => [](ServiceInv /\ FeedInv)
  <1>1. MCInit => ServiceInv /\ FeedInv
    BY ServiceInit, FeedInit DEF MCInit
  <1>2. ASSUME ServiceInv, FeedInv, [MCNext]_mcvars
        PROVE  ServiceInv' /\ FeedInv'
    <2>1. [Next]_vars /\ [Feed!Next]_feed
      BY <1>2 DEF MCNext, ServiceStep, FeedStep, mcvars
    <2> QED
      BY <1>2, <2>1, ServiceStepInv, FeedStepInv
  <1> QED
    BY <1>1, <1>2, PTL DEF MCSpec

(***************************************************************************)
(* What BatcherService::run and its watch report is true, however the      *)
(* operator's stop, the driver's end and the failures of tasks interleave: *)
(* the exits that the driver's own end causes are never reported as the    *)
(* failure of a task, and "ok" means drained, reaped and without an error. *)
(***************************************************************************)
THEOREM ReportsAreTrue == MCSpec => []ReportsTrue
  <1>1. ServiceInv /\ FeedInv => ReportsTrue
    BY DEF ServiceInv, FeedInv, FieldsInv, ReportsTrue
  <1> QED
    BY <1>1, PartsInvariant, PTL

(***************************************************************************)
(* Every change of the derivation status that DerivationStatusPoller saw   *)
(* reaches the driver once and in order, for any number of sequencers,     *)
(* changes of the leader and failed requests.                              *)
(***************************************************************************)
THEOREM ChangesAreDelivered == MCSpec => []ChangesDelivered
  <1>1. ServiceInv /\ FeedInv => ChangesDelivered
    BY DEF FeedInv, ChangesDelivered
  <1> QED
    BY <1>1, PartsInvariant, PTL
=============================================================================
