------------------------------- MODULE L1Heads -------------------------------
(***************************************************************************)
(* The batcher's L1 head source (crates/batcher/source/src/l1_hybrid.rs):  *)
(* it races a subscription against a poller inside next(), which the       *)
(* driver's select drops, with whatever it waits for, each time another    *)
(* arm of the loop wins (crates/batcher/core/src/driver.rs).               *)
(***************************************************************************)
EXTENDS Naturals, Sequences

CONSTANTS
    MaxHead,  \* block numbers of L1
    MaxMoves, \* changes of the L1 head in a run
    MaxDrops, \* calls of next() dropped while they poll
    MaxFaults \* polls that fail

None == 0

VARIABLES
    head,      \* the L1 node's head
    top,       \* the highest head L1 has had
    stream,    \* headers the subscription delivers, oldest first
    sub,       \* "live", "ended", or "pending" once the source has seen the end
    next,      \* what next() waits for: "select", "poll" or "answer"
    answer,    \* the head the poll will return
    last_head, \* the last head reported, or None
    l1_head,   \* the encoder's L1 head
    reports,   \* the heads reported, in order
    moves, drops, faults

vars == <<head, top, stream, sub, next, answer, last_head, l1_head, reports, moves, drops, faults>>

\* advance_l1_head: a head replaces a lower one.
Raise(old, h) == IF h > old THEN h ELSE old

\* The driver starts from the head setup fetched; L1 may have moved since.
Init ==
    /\ head \in 1 .. MaxHead /\ l1_head \in 1 .. MaxHead
    /\ top = Raise(head, l1_head)
    /\ stream = <<>> /\ sub \in {"live", "pending"}
    /\ next = "select" /\ answer = None
    /\ last_head = None /\ reports = <<>>
    /\ moves = 0 /\ drops = 0 /\ faults = 0

-----------------------------------------------------------------------------
(* L1. *)

\* L1 grows, or reorganises to another height; the subscription may miss it.
HeadMoves ==
    /\ moves < MaxMoves /\ moves' = moves + 1
    /\ head' \in 1 .. MaxHead \ {head}
    /\ top' = Raise(top, head')
    /\ stream' \in {stream} \cup (IF sub = "live" THEN {Append(stream, head')} ELSE {})
    /\ UNCHANGED <<sub, next, answer, last_head, l1_head, reports, drops, faults>>

SubscriptionEnds ==
    /\ sub = "live" /\ sub' = "ended"
    /\ UNCHANGED <<head, top, stream, next, answer, last_head, l1_head, reports, moves, drops,
                   faults>>

-----------------------------------------------------------------------------
(* HybridL1HeadSource::next, and the driver's arm for it. *)

(* Mutant: only a head equal to the last one is dropped. *)
ReportChanged(h) ==
    IF last_head = h
    THEN UNCHANGED <<last_head, l1_head, reports>>
    ELSE /\ last_head' = h
         /\ reports' = Append(reports, h)
         /\ l1_head' = Raise(l1_head, h)

\* A head above the last one is returned, and advance_l1_head takes it if it is above
\* the encoder's; any other is dropped and next() goes on.
Report(h) ==
    IF last_head # None /\ last_head >= h
    THEN UNCHANGED <<last_head, l1_head, reports>>
    ELSE /\ last_head' = h
         /\ reports' = Append(reports, h)
         /\ l1_head' = Raise(l1_head, h)

FromStream ==
    /\ next = "select" /\ stream # <<>>
    /\ Report(Head(stream))
    /\ stream' = Tail(stream)
    /\ UNCHANGED <<head, top, sub, next, answer, moves, drops, faults>>

\* The end of the stream is seen once; then it stays pending.
StreamEnd ==
    /\ next = "select" /\ stream = <<>> /\ sub = "ended"
    /\ sub' = "pending"
    /\ UNCHANGED <<head, top, stream, next, answer, last_head, l1_head, reports, moves, drops,
                   faults>>

(* Mutant: the interval is polled only while there is no subscription. *)
TickWithoutStream ==
    /\ next = "select" /\ sub = "pending"
    /\ next' = "poll"
    /\ UNCHANGED <<head, top, stream, sub, answer, last_head, l1_head, reports, moves, drops,
                   faults>>

\* The interval ticks. Until the poll returns nobody listens to the stream.
Tick ==
    /\ next = "select"
    /\ next' = "poll"
    /\ UNCHANGED <<head, top, stream, sub, answer, last_head, l1_head, reports, moves, drops,
                   faults>>

\* The L1 node answers; its head may move before the answer arrives.
NodeAnswers ==
    /\ next = "poll"
    /\ next' = "answer" /\ answer' = head
    /\ UNCHANGED <<head, top, stream, sub, last_head, l1_head, reports, moves, drops, faults>>

PollReturns ==
    /\ next = "answer"
    /\ Report(answer)
    /\ next' = "select" /\ answer' = None
    /\ UNCHANGED <<head, top, stream, sub, moves, drops, faults>>

PollFails ==
    /\ next = "poll"
    /\ faults < MaxFaults /\ faults' = faults + 1
    /\ next' = "select"
    /\ UNCHANGED <<head, top, stream, sub, answer, last_head, l1_head, reports, moves, drops>>

\* Another arm of the driver's select wins: the poll and its answer are lost.
Dropped ==
    /\ next # "select"
    /\ drops < MaxDrops /\ drops' = drops + 1
    /\ next' = "select" /\ answer' = None
    /\ UNCHANGED <<head, top, stream, sub, last_head, l1_head, reports, moves, faults>>

Source == FromStream \/ StreamEnd \/ Tick \/ NodeAnswers \/ PollReturns

Next == HeadMoves \/ SubscriptionEnds \/ Source \/ PollFails \/ Dropped

\* The driver polls the source whenever it is idle, the interval ticks for ever and
\* the node answers.
Spec == Init /\ [][Next]_vars /\ WF_vars(Source)

-----------------------------------------------------------------------------
(* Properties. *)

\* The types of the variables.
TypeOK ==
    /\ head \in 1 .. MaxHead /\ top \in head .. MaxHead
    /\ stream \in Seq(1 .. MaxHead) /\ Len(stream) <= MaxMoves
    /\ sub \in {"live", "ended", "pending"} /\ next \in {"select", "poll", "answer"}
    /\ answer \in 0 .. MaxHead /\ (next = "answer" <=> answer # None)
    /\ last_head \in 0 .. MaxHead /\ l1_head \in 1 .. MaxHead

\* The heads reported rise strictly, whatever order the stream and late answers of the
\* poller bring them in and however often next() is dropped, and the encoder's head is
\* the highest it was told: none is invented and none that was reported is missing.
HeadsRise ==
    /\ \A i, j \in DOMAIN reports : i < j => reports[i] < reports[j]
    /\ \A i \in DOMAIN reports : reports[i] <= l1_head
    /\ l1_head <= top

\* Once L1 is quiet the encoder's head reaches L1's, through a subscription that missed
\* it, that ended, or that never was, and although polls fail and are dropped.
HeadReached == <>[](l1_head >= head)
=============================================================================
