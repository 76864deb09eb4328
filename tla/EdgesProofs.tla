----------------------------- MODULE EdgesProofs -----------------------------
(***************************************************************************)
(* What the batcher learns from the chains is right for every chain,       *)
(* window, order of answers and number of reorganisations: what the        *)
(* start-up scan returns was seen during the scan, and without a           *)
(* reorganisation no transaction is above it; the L1 heads reported rise;  *)
(* and the blocks the encoder buffers are one chain on the safe head.      *)
(* What it tells the block builders is right for every configuration and   *)
(* every backlog: the limits lie in the configured range and never loosen  *)
(* when the backlog grows.                                                 *)
(***************************************************************************)
EXTENDS MCBatcherEdges, TLAPS

\* The window, and what was read at its upper end.
WindowInv ==
    /\ oldest_l1 <= current_l1
    /\ oldest_l1 = current_l1 => current_l1 = 0
    /\ step \in {"oldest", "search", "wait", "synced"} =>
         current_l1 \in DOMAIN read /\ read[current_l1] = current_nonce

\* The bounds of the search: the account had the nonce at high and a lower one below low.
SearchInv ==
    step = "search" =>
      /\ oldest_l1 < low /\ low <= high /\ high <= current_l1
      /\ high \in DOMAIN read /\ read[high] = current_nonce
      /\ low - 1 \in DOMAIN read /\ read[low - 1] < current_nonce

\* The first block is never replaced, and without a reorganisation no block is: the
\* answers are those of the present chain.
ReadInv ==
    /\ 0 \in DOMAIN read => read[0] = nonce[0]
    /\ reorgs = 0 => \A b \in DOMAIN read : read[b] = nonce[b]

ScanInv == TypeOK /\ WindowInv /\ SearchInv /\ ReadInv /\ TargetWitnessed

\* The answer of a probe is added to those the scan has, and only replaces one for the
\* same block.
LEMMA NoteAdds ==
    ASSUME TypeOK, NEW b \in Block, Note(b)
    PROVE  /\ DOMAIN read' = DOMAIN read \cup {b}
           /\ read'[b] = nonce[b]
           /\ \A x \in DOMAIN read : x # b => read'[x] = read[x]
           /\ \A x \in DOMAIN read' : read'[x] \in Nonce
           /\ DOMAIN read' \subseteq Block
  BY DEF Note, TypeOK, Chain

\* The initial state satisfies the invariant.
LEMMA ScanInit ==
    Init => ScanInv
  BY ScanAssumption DEF Init, ScanInv, TypeOK, WindowInv, SearchInv, ReadInv, TargetWitnessed, Finished

\* The block a probe asks for lies in the search window, below its upper end.
LEMMA MidInside ==
    ASSUME TypeOK, WindowInv, SearchInv, step = "search", low < high
    PROVE  mid \in Nat /\ low <= mid /\ mid < high /\ mid \in Block /\ mid <= current_l1
  <1>1. low \in Nat /\ high \in Nat /\ current_l1 \in Nat /\ high <= current_l1
    BY ScanAssumption DEF TypeOK, SearchInv
  <1>2. mid \in Nat /\ low <= mid /\ mid < high
    BY <1>1 DEF mid
  <1>3. mid \in 0 .. current_l1
    BY <1>1, <1>2
  <1> QED
    BY <1>1, <1>2, <1>3, ScanAssumption DEF TypeOK

\* Each step keeps the invariant.
LEMMA ScanKept ==
    ScanInv /\ [Next]_vars => ScanInv'
  <1> SUFFICES ASSUME ScanInv, [Next]_vars
               PROVE  ScanInv'
    OBVIOUS
  <1> USE ScanAssumption
  <1>1. CASE L1Grows
    BY <1>1 DEF L1Grows, ScanInv, TypeOK, WindowInv, SearchInv, ReadInv, TargetWitnessed, Finished, window
  <1>2. CASE L1Reorganises
    <2>1. reorgs' \in Nat /\ reorgs' # 0 /\ nonce' \in Chain /\ nonce'[0] = nonce[0]
      BY <1>2 DEF L1Reorganises, ScanInv, TypeOK, Chain
    <2> QED
      BY <1>2, <2>1 DEF L1Reorganises, ScanInv, TypeOK, WindowInv, SearchInv, ReadInv, TargetWitnessed,
                        Finished, window
  <1>3. CASE GetBlockNumber
    <2>1. oldest_l1' \in Block /\ oldest_l1' <= current_l1' /\ current_l1' \in Block
          /\ (oldest_l1' = current_l1' => current_l1' = 0)
      BY <1>3 DEF GetBlockNumber, SaturatingSub, ScanInv, TypeOK
    <2> QED
      BY <1>3, <2>1 DEF GetBlockNumber, ScanInv, TypeOK, WindowInv, SearchInv, ReadInv, TargetWitnessed,
                        Finished, l1
  <1>4. CASE CurrentNonce
    <2>1. Note(current_l1) /\ current_l1 \in Block
      BY <1>4 DEF CurrentNonce, ScanInv, TypeOK
    <2>2. /\ DOMAIN read' = DOMAIN read \cup {current_l1}
          /\ read'[current_l1] = nonce[current_l1]
          /\ \A x \in DOMAIN read : x # current_l1 => read'[x] = read[x]
          /\ \A x \in DOMAIN read' : read'[x] \in Nonce
          /\ DOMAIN read' \subseteq Block
      BY <2>1, NoteAdds DEF ScanInv
    <2>3. nonce[current_l1] \in Nat
      BY <2>1, Zenon DEF ScanInv, TypeOK, Chain
    <2> QED
      BY <1>4, <2>1, <2>2, <2>3 DEF CurrentNonce, ScanInv, TypeOK, WindowInv, SearchInv, ReadInv,
         TargetWitnessed, Finished, l1
  <1>5. CASE OldestNonce
    <2>1. Note(oldest_l1) /\ oldest_l1 \in Block /\ current_l1 \in Block /\ step = "oldest"
          /\ oldest_l1 \in Nat /\ current_l1 \in Nat
      BY <1>5 DEF OldestNonce, ScanInv, TypeOK
    <2>2. /\ DOMAIN read' = DOMAIN read \cup {oldest_l1}
          /\ read'[oldest_l1] = nonce[oldest_l1]
          /\ \A x \in DOMAIN read : x # oldest_l1 => read'[x] = read[x]
          /\ \A x \in DOMAIN read' : read'[x] \in Nonce
          /\ DOMAIN read' \subseteq Block
      BY <2>1, NoteAdds, Zenon DEF ScanInv
    <2>3. nonce[oldest_l1] \in Nat /\ current_nonce \in Nat
      BY <2>1, Zenon DEF ScanInv, TypeOK, Chain
    <2>4. oldest_l1 <= current_l1 /\ (oldest_l1 = current_l1 => current_l1 = 0)
          /\ current_l1 \in DOMAIN read /\ read[current_l1] = current_nonce
      BY <2>1 DEF ScanInv, WindowInv
    <2>5. current_l1 \in DOMAIN read' /\ read'[current_l1] = current_nonce
      BY <2>1, <2>2, <2>4 DEF ScanInv, ReadInv
    <2>6. /\ oldest_nonce' = nonce[oldest_l1]
          /\ UNCHANGED <<nonce, head, reorgs, current_l1, oldest_l1, current_nonce, faults>>
          /\ \/ /\ nonce[oldest_l1] > current_nonce
                /\ target' = current_l1 /\ step' = "wait" /\ UNCHANGED <<low, high>>
             \/ /\ nonce[oldest_l1] = current_nonce
                /\ target' = oldest_l1 /\ step' = "wait" /\ UNCHANGED <<low, high>>
             \/ /\ nonce[oldest_l1] < current_nonce
                /\ low' = oldest_l1 + 1 /\ high' = current_l1
                /\ step' = "search" /\ UNCHANGED target
      BY <1>5 DEF OldestNonce, Found, l1
    <2>7. TypeOK'
      BY <2>1, <2>2, <2>3, <2>6 DEF ScanInv, TypeOK
    <2>8. WindowInv' /\ ReadInv'
      BY <2>1, <2>2, <2>4, <2>5, <2>6 DEF ScanInv, WindowInv, ReadInv
    <2>9. SearchInv'
      BY <2>1, <2>2, <2>3, <2>4, <2>5, <2>6 DEF SearchInv
    <2>10. TargetWitnessed'
      BY <2>1, <2>2, <2>3, <2>4, <2>5, <2>6 DEF TargetWitnessed, Finished
    <2> QED
      BY <2>7, <2>8, <2>9, <2>10 DEF ScanInv
  <1>6. CASE Probe
    <2>1. Note(mid) /\ step = "search" /\ low < high
      BY <1>6 DEF Probe
    <2>2. mid \in Nat /\ low <= mid /\ mid < high /\ mid \in Block /\ mid <= current_l1
      BY <2>1, MidInside DEF ScanInv
    <2>3. /\ DOMAIN read' = DOMAIN read \cup {mid}
          /\ read'[mid] = nonce[mid]
          /\ \A x \in DOMAIN read : x # mid => read'[x] = read[x]
          /\ \A x \in DOMAIN read' : read'[x] \in Nonce
          /\ DOMAIN read' \subseteq Block
      BY <2>1, <2>2, NoteAdds DEF ScanInv
    <2>4. nonce[mid] \in Nat /\ current_nonce \in Nat /\ low \in Nat /\ high \in Nat /\ oldest_l1 \in Nat
          /\ current_l1 \in Nat
      BY <2>2, Zenon DEF ScanInv, TypeOK, Chain
    <2>5. /\ oldest_l1 < low /\ low <= high /\ high <= current_l1
          /\ high \in DOMAIN read /\ read[high] = current_nonce
          /\ low - 1 \in DOMAIN read /\ read[low - 1] < current_nonce
          /\ current_l1 \in DOMAIN read /\ read[current_l1] = current_nonce
      BY <2>1 DEF ScanInv, SearchInv, WindowInv
    <2>6. /\ high \in DOMAIN read' /\ read'[high] = current_nonce
          /\ low - 1 \in DOMAIN read' /\ read'[low - 1] < current_nonce
          /\ current_l1 \in DOMAIN read' /\ read'[current_l1] = current_nonce
      BY <2>2, <2>3, <2>4, <2>5
    <2>7. /\ UNCHANGED <<nonce, head, reorgs, current_l1, oldest_l1, current_nonce, oldest_nonce, faults>>
          /\ \/ /\ nonce[mid] > current_nonce
                /\ target' = current_l1 /\ step' = "wait" /\ UNCHANGED <<low, high>>
             \/ /\ nonce[mid] = current_nonce
                /\ high' = mid /\ UNCHANGED <<low, step, target>>
             \/ /\ nonce[mid] < current_nonce
                /\ low' = mid + 1 /\ UNCHANGED <<high, step, target>>
      BY <1>6 DEF Probe, Found, l1, window
    <2> HIDE DEF mid
    <2>8. TypeOK'
      BY <2>1, <2>2, <2>3, <2>4, <2>7 DEF ScanInv, TypeOK
    <2>9. WindowInv' /\ ReadInv'
      BY <2>1, <2>2, <2>3, <2>6, <2>7 DEF ScanInv, WindowInv, ReadInv
    <2>10. SearchInv'
      <3>1. CASE nonce[mid] > current_nonce
        BY <3>1, <2>4, <2>7 DEF SearchInv
      <3>2. CASE nonce[mid] = current_nonce
        <4>1. high' = mid /\ UNCHANGED <<low, step, target, oldest_l1, current_l1, current_nonce>>
          BY <3>2, <2>4, <2>7
        <4> QED
          BY <4>1, <3>2, <2>2, <2>3, <2>4, <2>5, <2>6 DEF SearchInv
      <3>3. CASE nonce[mid] < current_nonce
        <4>1. low' = mid + 1 /\ UNCHANGED <<high, step, target, oldest_l1, current_l1, current_nonce>>
          BY <3>3, <2>4, <2>7
        <4>2. low' - 1 = mid
          BY <4>1, <2>2
        <4> QED
          BY <4>1, <4>2, <3>3, <2>2, <2>3, <2>4, <2>5, <2>6 DEF SearchInv
      <3> QED
        BY <3>1, <3>2, <3>3, <2>4
    <2>11. TargetWitnessed'
      BY <2>1, <2>2, <2>3, <2>4, <2>5, <2>6, <2>7 DEF TargetWitnessed, Finished
    <2> QED
      BY <2>8, <2>9, <2>10, <2>11 DEF ScanInv
  <1>7. CASE SearchEnds
    <2>1. step = "search" /\ low >= high /\ target' = low /\ step' = "wait"
          /\ UNCHANGED <<nonce, head, reorgs, current_l1, oldest_l1, current_nonce, oldest_nonce, low, high,
                         read, faults>>
      BY <1>7 DEF SearchEnds, Found, l1, window
    <2>2. low \in Nat /\ high \in Nat /\ oldest_l1 \in Nat /\ current_l1 \in Nat
      BY DEF ScanInv, TypeOK
    <2>3. low = high
      BY <2>1, <2>2 DEF ScanInv, SearchInv
    <2> QED
      BY <2>1, <2>2, <2>3 DEF ScanInv, TypeOK, WindowInv, SearchInv, ReadInv, TargetWitnessed, Finished
  <1>8. CASE ScanFails
    <2>1. step' = "head" /\ read' = [b \in {} |-> 0] /\ faults' \in Nat
          /\ UNCHANGED <<nonce, head, reorgs, current_l1, oldest_l1, current_nonce, oldest_nonce, low, high,
                         target>>
      BY <1>8 DEF ScanFails, l1, window, ScanInv, TypeOK
    <2> QED
      BY <2>1 DEF ScanInv, TypeOK, WindowInv, SearchInv, ReadInv, TargetWitnessed, Finished
  <1>9. CASE NodeSynced
    BY <1>9 DEF NodeSynced, ScanInv, TypeOK, WindowInv, SearchInv, ReadInv, TargetWitnessed, Finished, l1,
                window
  <1>10. CASE TimesOut
    BY <1>10 DEF TimesOut, ScanInv, TypeOK, WindowInv, SearchInv, ReadInv, TargetWitnessed, Finished, l1,
                 window
  <1>11. CASE UNCHANGED vars
    BY <1>11 DEF vars, ScanInv, TypeOK, WindowInv, SearchInv, ReadInv, TargetWitnessed, Finished, l1, window
  <1> QED
    BY <1>1, <1>2, <1>3, <1>4, <1>5, <1>6, <1>7, <1>8, <1>9, <1>10, <1>11 DEF Next, Scan

\* What the scan saw is enough: between two blocks with the same nonce there is no
\* transaction.
LEMMA WitnessCovers ==
    ScanInv => AllTxsCovered
  <1> SUFFICES ASSUME ScanInv, Finished, reorgs = 0,
                      NEW b \in Block, b < current_l1, nonce[b] < nonce[b + 1], ~(b + 1 <= target)
               PROVE  FALSE
    BY DEF AllTxsCovered
  <1>1. current_l1 \in Nat /\ b \in Nat /\ b + 1 \in 0 .. current_l1 /\ target \in oldest_l1 .. current_l1
        /\ target \in DOMAIN read
    BY ScanAssumption DEF ScanInv, TypeOK, TargetWitnessed
  <1>2. current_l1 \in Block /\ b + 1 \in Block /\ target \in Block /\ target <= b
    BY <1>1, ScanAssumption DEF ScanInv, TypeOK
  <1>3. nonce[target] = nonce[current_l1]
    BY <1>2 DEF ScanInv, TargetWitnessed, ReadInv, WindowInv, Finished
  <1>4. nonce[target] <= nonce[b] /\ nonce[b + 1] <= nonce[current_l1]
    BY <1>1, <1>2 DEF ScanInv, TypeOK, Chain
  <1>5. nonce[target] \in Nat /\ nonce[b] \in Nat /\ nonce[b + 1] \in Nat
    BY <1>2, ScanAssumption, Zenon DEF ScanInv, TypeOK, Chain
  <1> QED
    BY <1>3, <1>4, <1>5

\* For every chain of L1 and every window, and however L1 changes between the requests:
\* the target of the scan (RecentTxSyncTarget::find) was seen with the nonce of the head it
\* started from, and without a reorganisation every transaction of the batcher's account
\* up to that head is in a block up to the target.
THEOREM ScanRight ==
    Spec => []ScanCorrect
  <1>1. ScanInv => ScanCorrect
    BY WitnessCovers DEF ScanInv, ScanCorrect
  <1> QED
    BY ScanInit, ScanKept, <1>1, PTL DEF Spec

-----------------------------------------------------------------------------
(* The L1 heads.  Whatever is on its way to the source, in the stream or in an answer of
   the poller, L1 has had; the last head is the last one reported. *)
HeadsInv ==
    /\ Heads!TypeOK /\ Heads!HeadsRise
    /\ reports \in Seq(1 .. MaxHead)
    /\ last_head = IF reports = <<>> THEN 0 ELSE reports[Len(reports)]
    /\ \A i \in 1 .. Len(stream) : stream[i] <= top
    /\ answer <= top
    /\ moves \in 0 .. MaxMoves /\ Len(stream) <= moves

\* The driver starts from the head that setup fetched.
LEMMA HeadsInit ==
    ASSUME Heads!Init
    PROVE  HeadsInv
  <1>1. /\ l1_node \in 1 .. MaxHead /\ l1_head \in 1 .. MaxHead /\ stream = <<>>
        /\ reports = <<>> /\ last_head = 0 /\ answer = 0 /\ moves = 0
        /\ sub \in {"live", "pending"} /\ next = "select"
    BY DEF Heads!Init, Heads!None
  <1>2. top \in l1_node .. MaxHead /\ l1_head <= top
    BY <1>1, PartAssumption DEF Heads!Init, Heads!Raise
  <1>3. Heads!TypeOK
    BY <1>1, <1>2, PartAssumption DEF Heads!TypeOK, Heads!None
  <1>4. Heads!HeadsRise
    BY <1>1, <1>2 DEF Heads!HeadsRise
  <1> QED
    BY <1>1, <1>2, <1>3, <1>4, PartAssumption DEF HeadsInv

\* An element of a sequence is of the sequence's type.
LEMMA ElementIn ==
    ASSUME NEW S, NEW q \in Seq(S), NEW i \in 1 .. Len(q)
    PROVE  q[i] \in S
  OBVIOUS

\* A head that L1 has had, from the stream or from the poller, is reported or dropped:
\* what was reported still rises.
LEMMA ReportRises ==
    ASSUME HeadsInv, NEW h \in 1 .. MaxHead, h <= top, Heads!Report(h), UNCHANGED top
    PROVE  /\ Heads!HeadsRise'
           /\ reports' \in Seq(1 .. MaxHead)
           /\ last_head' = IF reports' = <<>> THEN 0 ELSE reports'[Len(reports')]
           /\ last_head' \in 0 .. MaxHead /\ l1_head' \in 1 .. MaxHead
  <1>1. /\ reports \in Seq(1 .. MaxHead) /\ Len(reports) \in Nat
        /\ last_head \in 0 .. MaxHead /\ l1_head \in 1 .. MaxHead /\ top \in Nat
        /\ last_head = IF reports = <<>> THEN 0 ELSE reports[Len(reports)]
        /\ \A i, j \in 1 .. Len(reports) : i < j => reports[i] < reports[j]
        /\ \A i \in 1 .. Len(reports) : reports[i] <= l1_head /\ reports[i] \in 1 .. MaxHead
        /\ l1_head <= top
    <2>1. /\ reports \in Seq(1 .. MaxHead)
          /\ last_head \in 0 .. MaxHead /\ l1_head \in 1 .. MaxHead
          /\ last_head = IF reports = <<>> THEN 0 ELSE reports[Len(reports)]
      BY DEF HeadsInv, Heads!TypeOK
    <2>2. top \in Nat
      BY PartAssumption DEF HeadsInv, Heads!TypeOK
    <2>3. DOMAIN reports = 1 .. Len(reports) /\ Len(reports) \in Nat
      BY <2>1
    <2>4. \A i \in 1 .. Len(reports) : reports[i] \in 1 .. MaxHead
      BY <2>1, ElementIn, Zenon
    <2>5. Heads!HeadsRise
      BY DEF HeadsInv
    <2> QED
      BY <2>1, <2>2, <2>3, <2>4, <2>5, Zenon DEF Heads!HeadsRise
  <1>2. CASE UNCHANGED <<last_head, l1_head, reports>>
    BY <1>1, <1>2 DEF HeadsInv, Heads!HeadsRise
  <1>3. CASE ~(last_head # 0 /\ last_head >= h)
    <2> DEFINE n == Len(reports)
    <2>1. /\ last_head' = h /\ reports' = Append(reports, h)
          /\ l1_head' = (IF h > l1_head THEN h ELSE l1_head)
      BY <1>3 DEF Heads!Report, Heads!None, Heads!Raise
    <2>2. /\ reports' \in Seq(1 .. MaxHead) /\ Len(reports') = n + 1
          /\ reports'[n + 1] = h /\ \A i \in 1 .. n : reports'[i] = reports[i]
      BY <1>1, <2>1
    <2>3. ASSUME NEW i \in 1 .. n PROVE reports[i] < h
      <3>1. reports # <<>> /\ last_head = reports[n] /\ n \in 1 .. n /\ i <= n
        BY <1>1, <2>3
      <3>2. last_head \in Nat /\ last_head # 0 /\ last_head < h
        BY <1>1, <1>3, <3>1
      <3>3. i = n \/ reports[i] < reports[n]
        BY <1>1, <3>1
      <3> QED
        BY <1>1, <3>1, <3>2, <3>3
    <2>4. l1_head' \in 1 .. MaxHead /\ l1_head' >= h /\ l1_head' >= l1_head /\ l1_head' <= top
      BY <1>1, <2>1
    <2> HIDE DEF n
    <2>5. n \in Nat /\ DOMAIN reports' = 1 .. n + 1
      BY <1>1, <2>2 DEF n
    <2>6. ASSUME NEW i \in 1 .. n + 1, NEW j \in 1 .. n + 1, i < j
          PROVE  reports'[i] < reports'[j]
      <3>1. i \in 1 .. n
        BY <2>5, <2>6
      <3>2. CASE j = n + 1
        BY <2>2, <2>3, <3>1, <3>2
      <3>3. CASE j # n + 1
        <4>1. j \in 1 .. n
          BY <2>5, <3>3
        <4> QED
          BY <1>1, <2>2, <2>6, <3>1, <4>1 DEF n
      <3> QED
        BY <3>2, <3>3
    <2>7. ASSUME NEW i \in 1 .. n + 1 PROVE reports'[i] <= l1_head'
      <3>1. CASE i = n + 1
        BY <2>2, <2>4, <3>1
      <3>2. CASE i # n + 1
        <4>1. i \in 1 .. n
          BY <2>5, <3>2
        <4>2. reports'[i] = reports[i] /\ reports[i] <= l1_head /\ reports[i] \in 1 .. MaxHead
          BY <1>1, <2>2, <4>1 DEF n
        <4> QED
          BY <1>1, <2>4, <4>2
      <3> QED
        BY <3>1, <3>2
    <2>8. Heads!HeadsRise'
      BY <2>4, <2>5, <2>6, <2>7 DEF Heads!HeadsRise
    <2>9. reports' # <<>>
      BY <2>2, <2>5
    <2> QED
      BY <2>1, <2>2, <2>4, <2>8, <2>9
  <1> QED
    BY <1>2, <1>3 DEF Heads!Report, Heads!None

\* Every step of L1, of the subscription and of next() keeps the invariant.
LEMMA HeadsKept ==
    ASSUME HeadsInv, Heads!Next \/ UNCHANGED heads
    PROVE  HeadsInv'
  <1>1. /\ MaxHead \in Nat /\ MaxMoves \in Nat
        /\ l1_node \in 1 .. MaxHead /\ top \in l1_node .. MaxHead /\ top \in Nat
        /\ stream \in Seq(1 .. MaxHead) /\ Len(stream) \in Nat /\ Len(stream) <= moves
        /\ moves \in 0 .. MaxMoves
        /\ answer \in 0 .. MaxHead /\ (next = "answer" <=> answer # 0) /\ answer <= top
        /\ l1_head \in 1 .. MaxHead /\ last_head \in 0 .. MaxHead
        /\ \A i \in 1 .. Len(stream) : stream[i] <= top
    BY PartAssumption DEF HeadsInv, Heads!TypeOK, Heads!None
  <1>2. CASE Heads!HeadMoves
    <2>1. /\ moves' = moves + 1 /\ moves' \in 0 .. MaxMoves /\ l1_node' \in 1 .. MaxHead
          /\ top' = (IF l1_node' > top THEN l1_node' ELSE top)
          /\ stream' = stream \/ stream' = Append(stream, l1_node')
          /\ UNCHANGED <<sub, next, answer, last_head, l1_head, reports>>
      BY <1>1, <1>2 DEF Heads!HeadMoves, Heads!Raise
    <2>2. top' \in l1_node' .. MaxHead /\ top <= top' /\ l1_node' <= top' /\ top' \in Nat
      BY <1>1, <2>1
    <2>3. /\ stream' \in Seq(1 .. MaxHead) /\ Len(stream') <= moves'
          /\ \A i \in 1 .. Len(stream') : stream'[i] <= top'
      <3>1. CASE stream' = stream
        <4>1. \A i \in 1 .. Len(stream) : stream[i] \in 1 .. MaxHead
          BY <1>1
        <4> QED
          BY <1>1, <2>1, <2>2, <3>1, <4>1
      <3>2. CASE stream' = Append(stream, l1_node')
        <4>1. /\ stream' \in Seq(1 .. MaxHead) /\ Len(stream') = Len(stream) + 1
              /\ stream'[Len(stream) + 1] = l1_node'
              /\ \A i \in 1 .. Len(stream) : stream'[i] = stream[i] /\ stream[i] \in 1 .. MaxHead
          BY <1>1, <2>1, <3>2
        <4>2. ASSUME NEW i \in 1 .. Len(stream') PROVE stream'[i] <= top'
          <5>1. i = Len(stream) + 1 \/ i \in 1 .. Len(stream)
            BY <1>1, <4>1
          <5>2. CASE i = Len(stream) + 1
            BY <2>2, <4>1, <5>2
          <5>3. CASE i \in 1 .. Len(stream)
            <6>1. stream'[i] = stream[i] /\ stream[i] \in 1 .. MaxHead /\ stream[i] <= top
              BY <1>1, <4>1, <5>3
            <6> QED
              BY <1>1, <2>2, <6>1
          <5> QED
            BY <5>1, <5>2, <5>3
        <4>3. Len(stream') <= moves'
          BY <1>1, <2>1, <4>1
        <4> QED
          BY <4>1, <4>2, <4>3
      <3> QED
        BY <2>1, <3>1, <3>2
    <2>4. Heads!TypeOK'
      BY <1>1, <2>1, <2>2, <2>3 DEF HeadsInv, Heads!TypeOK, Heads!None
    <2>5. Heads!HeadsRise'
      BY <1>1, <2>1, <2>2 DEF HeadsInv, Heads!HeadsRise
    <2> QED
      BY <1>1, <2>1, <2>2, <2>3, <2>4, <2>5 DEF HeadsInv
  <1>3. CASE Heads!FromStream
    <2>1. /\ stream # <<>> /\ stream' = Tail(stream) /\ Heads!Report(Head(stream))
          /\ UNCHANGED <<l1_node, top, sub, next, answer, moves>>
      BY <1>3 DEF Heads!FromStream
    <2>2. Head(stream) \in 1 .. MaxHead /\ Head(stream) <= top
      BY <1>1, <2>1
    <2>3. /\ stream' \in Seq(1 .. MaxHead) /\ Len(stream') = Len(stream) - 1
          /\ \A i \in 1 .. Len(stream') : stream'[i] = stream[i + 1] /\ i + 1 \in 1 .. Len(stream)
      BY <1>1, <2>1
    <2>4. /\ Heads!HeadsRise' /\ reports' \in Seq(1 .. MaxHead)
          /\ last_head' = IF reports' = <<>> THEN 0 ELSE reports'[Len(reports')]
          /\ last_head' \in 0 .. MaxHead /\ l1_head' \in 1 .. MaxHead
      BY <2>1, <2>2, ReportRises
    <2>5. Heads!TypeOK'
      BY <1>1, <2>1, <2>3, <2>4 DEF HeadsInv, Heads!TypeOK, Heads!None
    <2>6. /\ Len(stream') <= moves' /\ moves' \in 0 .. MaxMoves /\ answer' <= top'
          /\ \A i \in 1 .. Len(stream') : stream'[i] <= top'
      BY <1>1, <2>1, <2>3
    <2> QED
      BY <2>4, <2>5, <2>6 DEF HeadsInv
  <1>4. CASE Heads!PollReturns
    <2>1. /\ next = "answer" /\ Heads!Report(answer) /\ next' = "select" /\ answer' = 0
          /\ UNCHANGED <<l1_node, top, stream, sub, moves>>
      BY <1>4 DEF Heads!PollReturns, Heads!None
    <2>2. answer \in 1 .. MaxHead /\ answer <= top
      BY <1>1, <2>1
    <2>3. /\ Heads!HeadsRise' /\ reports' \in Seq(1 .. MaxHead)
          /\ last_head' = IF reports' = <<>> THEN 0 ELSE reports'[Len(reports')]
          /\ last_head' \in 0 .. MaxHead /\ l1_head' \in 1 .. MaxHead
      BY <2>1, <2>2, ReportRises
    <2>4. Heads!TypeOK'
      BY <1>1, <2>1, <2>3 DEF HeadsInv, Heads!TypeOK, Heads!None
    <2> QED
      BY <1>1, <2>1, <2>3, <2>4 DEF HeadsInv
  <1>5. CASE \/ Heads!SubscriptionEnds \/ Heads!StreamEnd \/ Heads!Tick \/ Heads!NodeAnswers
             \/ Heads!PollFails \/ Heads!Dropped \/ UNCHANGED heads
    <2>1. /\ UNCHANGED <<l1_node, top, stream, last_head, l1_head, reports, moves>>
          /\ sub' \in {"live", "ended", "pending"} /\ next' \in {"select", "poll", "answer"}
          /\ answer' \in {answer, 0, l1_node} /\ (next' = "answer" <=> answer' # 0)
      BY <1>1, <1>5 DEF HeadsInv, Heads!TypeOK, Heads!SubscriptionEnds, Heads!StreamEnd,
         Heads!Tick, Heads!NodeAnswers, Heads!PollFails, Heads!Dropped, Heads!None, heads
    <2>2. answer' \in 0 .. MaxHead /\ answer' <= top
      BY <1>1, <2>1
    <2>3. Heads!TypeOK'
      BY <2>1, <2>2 DEF HeadsInv, Heads!TypeOK, Heads!None
    <2>4. Heads!HeadsRise'
      BY <2>1, SMTT(30) DEF HeadsInv, Heads!HeadsRise
    <2> QED
      BY <2>1, <2>2, <2>3, <2>4 DEF HeadsInv
  <1> QED
    BY <1>2, <1>3, <1>4, <1>5 DEF Heads!Next, Heads!Source

-----------------------------------------------------------------------------
(* The L2 blocks.  A block is a sequence of marks, and a status names a block. *)
Blocks == Seq(Ingest!Mark)
Status == [safe_l2 : Blocks \ {<<>>}, current_l1 : Nat]

IngestTypes ==
    /\ chain \in Blocks \ {<<>>} /\ node \in Status
    /\ status = <<>> \/ (status # <<>> /\ status[1] \in Status)
    /\ derivation \in Status
    /\ source_tip \in Blocks /\ blocks \in Seq(Blocks) /\ tip \in Blocks
    /\ fetch \in Blocks

(* The buffer: its blocks are numbered from the safe head, an empty buffer has the safe
   head as its tip, and right after a reset, when there is no tip, the source is there. *)
BufferInv ==
    /\ \A i \in 1 .. Len(blocks) : Len(blocks[i]) = Len(derivation.safe_l2) + i
    /\ blocks = <<>> /\ tip # <<>> => tip = derivation.safe_l2
    /\ tip = <<>> => blocks = <<>> /\ source_tip = derivation.safe_l2

IngestInv == IngestTypes /\ BufferInv /\ Ingest!BufferLinked

\* A part of a sequence.
LEMMA SubSeqIs ==
    ASSUME NEW S, NEW q \in Seq(S), NEW m \in Nat \ {0}, NEW n \in 0 .. Len(q)
    PROVE  /\ SubSeq(q, m, n) \in Seq(S)
           /\ Len(SubSeq(q, m, n)) = IF m <= n THEN n - m + 1 ELSE 0
           /\ \A i \in 1 .. Len(SubSeq(q, m, n)) : SubSeq(q, m, n)[i] = q[m + i - 1]
  OBVIOUS

\* What is left of a sequence when its first k elements are drained.
LEMMA DrainIs ==
    ASSUME NEW S, NEW q \in Seq(S), NEW k \in 0 .. Len(q)
    PROVE  /\ SubSeq(q, k + 1, Len(q)) \in Seq(S)
           /\ Len(SubSeq(q, k + 1, Len(q))) = Len(q) - k
           /\ \A i \in 1 .. Len(q) - k : SubSeq(q, k + 1, Len(q))[i] = q[k + i]
  OBVIOUS

\* A block's parent is one block shorter.
LEMMA ParentIs ==
    ASSUME NEW b \in Blocks, b # <<>>
    PROVE  Ingest!Parent(b) \in Blocks /\ Len(Ingest!Parent(b)) = Len(b) - 1
  <1>1. b \in Seq(Ingest!Mark) /\ Len(b) \in Nat /\ Len(b) >= 1
    BY DEF Blocks
  <1>2. Len(b) - 1 \in 0 .. Len(b) /\ 1 \in Nat \ {0}
    BY <1>1
  <1> DEFINE m == Len(b) - 1
  <1> HIDE DEF m
  <1>3. m \in 0 .. Len(b)
    BY <1>2 DEF m
  <1>4. /\ SubSeq(b, 1, m) \in Seq(Ingest!Mark)
        /\ Len(SubSeq(b, 1, m)) = IF 1 <= m THEN m - 1 + 1 ELSE 0
    BY <1>1, <1>2, <1>3, SubSeqIs
  <1>5. Len(SubSeq(b, 1, m)) = m
    BY <1>1, <1>3, <1>4
  <1> QED
    BY <1>4, <1>5 DEF Ingest!Parent, Blocks, m

\* The part of a chain up to a block of it.
LEMMA TruncateIs ==
    ASSUME NEW b \in Blocks, NEW n \in 0 .. Len(b)
    PROVE  Ingest!Truncate(b, n) \in Blocks /\ Len(Ingest!Truncate(b, n)) = n
  BY SubSeqIs DEF Ingest!Truncate, Blocks

\* The driver starts with nothing in the buffer.
LEMMA IngestInit ==
    ASSUME Ingest!Init
    PROVE  IngestInv
  <1>1. <<0>> \in Blocks \ {<<>>} /\ <<>> \in Blocks /\ <<>> \in Seq(Blocks)
    BY DEF Blocks, Ingest!Mark
  <1>2. node \in Status /\ node.safe_l2 = <<0>>
    BY <1>1 DEF Ingest!Init, Status
  <1>3. IngestTypes
    BY <1>1, <1>2 DEF Ingest!Init, IngestTypes
  <1>4. Len(blocks) = 0 /\ blocks = <<>> /\ tip = <<>> /\ source_tip = derivation.safe_l2
    BY <1>2 DEF Ingest!Init
  <1> QED
    BY <1>3, <1>4 DEF IngestInv, BufferInv, Ingest!BufferLinked

\* A reset to a safe head empties the buffer and starts the source there.
LEMMA ResetKeeps ==
    ASSUME IngestTypes, NEW d \in Status, Ingest!ResetToSafeHead(d), derivation' = d
    PROVE  /\ BufferInv' /\ Ingest!BufferLinked'
           /\ source_tip' \in Blocks /\ blocks' \in Seq(Blocks) /\ tip' \in Blocks
           /\ fetch' \in Blocks
  <1>1. /\ blocks' = <<>> /\ tip' = <<>> /\ source_tip' = d.safe_l2 /\ fetch' = <<>>
        /\ Len(blocks') = 0
    BY DEF Ingest!ResetToSafeHead
  <1>2. <<>> \in Blocks /\ <<>> \in Seq(Blocks) /\ d.safe_l2 \in Blocks
    BY DEF Blocks, Status
  <1> QED
    BY <1>1, <1>2 DEF BufferInv, Ingest!BufferLinked

\* Draining the blocks up to a safe head that is on the buffered chain leaves the rest of
\* that chain, on top of the safe head.
LEMMA PruneKeeps ==
    ASSUME IngestInv, NEW d \in Status, ~Ingest!Mismatch(d.safe_l2),
           Ingest!PruneSafe(d.safe_l2), derivation' = d
    PROVE  /\ BufferInv' /\ Ingest!BufferLinked'
           /\ source_tip' \in Blocks /\ blocks' \in Seq(Blocks) /\ tip' \in Blocks
           /\ fetch' \in Blocks
  <1> DEFINE safe == d.safe_l2
             n == Len(blocks)
             count == IF blocks = <<>> THEN 0 ELSE Len(safe) + 1 - Len(Head(blocks))
             left == SubSeq(blocks, count + 1, n)
  <1>1. safe \in Blocks /\ safe # <<>> /\ Len(safe) \in Nat
    BY DEF Status, Blocks
  <1>2. /\ blocks \in Seq(Blocks) /\ n \in Nat /\ tip \in Blocks
        /\ \A i \in 1 .. n : blocks[i] \in Blocks
        /\ UNCHANGED <<source_tip, fetch>> /\ source_tip \in Blocks /\ fetch \in Blocks
    BY ElementIn DEF IngestInv, IngestTypes, Ingest!PruneSafe
  <1>3. blocks' = left /\ tip' = IF left = <<>> THEN safe ELSE tip
    BY DEF Ingest!PruneSafe
  <1>4. CASE blocks = <<>>
    <2>1. left = <<>> /\ n = 0
      BY <1>4, SubSeqIs, <1>2
    <2> HIDE DEF left, safe
    <2>2. blocks' = <<>> /\ tip' = safe /\ Len(blocks') = 0
      BY <1>3, <2>1
    <2> QED
      BY <1>1, <1>2, <1>4, <2>2 DEF BufferInv, Ingest!BufferLinked, safe
  <1>5. CASE blocks # <<>>
    <2>1. /\ n >= 1 /\ Head(blocks) = blocks[1] /\ blocks[1] \in Blocks
          /\ tip = blocks[n] /\ source_tip = tip
          /\ \A i \in 1 .. n - 1 : Ingest!Parent(blocks[i + 1]) = blocks[i]
      BY <1>2, <1>5 DEF IngestInv, Ingest!BufferLinked
    <2>2. Len(derivation.safe_l2) \in Nat /\ Len(blocks[1]) = Len(derivation.safe_l2) + 1
      <3>1. derivation.safe_l2 \in Blocks
        BY DEF IngestInv, IngestTypes, Status
      <3> QED
        BY <1>2, <2>1, <3>1 DEF IngestInv, BufferInv, Blocks
    <2> DEFINE D == Len(derivation.safe_l2)
    <2>3. Len(Head(blocks)) = D + 1
      BY <2>1, <2>2
    <2> HIDE DEF safe, n
    <2>4. /\ ~(Len(safe) + 1 < D + 1) /\ ~(Len(safe) + 1 > D + 1 + n)
          /\ Len(safe) + 1 = D + 1 => Ingest!Parent(Head(blocks)) = safe
          /\ Len(safe) + 1 > D + 1 /\ Len(safe) + 1 <= D + 1 + n
               => blocks[Len(safe) + 1 - (D + 1)] = safe
      BY <1>5, <2>3, Zenon DEF Ingest!Mismatch, safe, n
    <2> HIDE DEF D
    <2>5. PICK k \in Nat : Len(safe) = D + k
      <3>1. Len(safe) - D \in Nat /\ Len(safe) = D + (Len(safe) - D)
        <4>1. Len(safe) \in Nat /\ D \in Nat /\ ~(Len(safe) + 1 < D + 1)
          BY <1>1, <2>2, <2>4, Zenon DEF D
        <4> QED
          BY <4>1
      <3> QED
        BY <3>1
    <2>6. /\ k \in 0 .. n /\ Len(safe) + 1 - (D + 1) = k
          /\ k = 0 => Ingest!Parent(blocks[1]) = safe
          /\ k > 0 => blocks[k] = safe
      BY <1>2, <2>1, <2>2, <2>4, <2>5 DEF D
    <2>7. left = SubSeq(blocks, k + 1, Len(blocks))
      BY <1>5, <2>3, <2>6, Zenon DEF n
    <2> HIDE DEF left
    <2>8. /\ left \in Seq(Blocks) /\ Len(left) = n - k
          /\ \A i \in 1 .. Len(left) : left[i] = blocks[k + i]
      BY <1>2, <2>6, <2>7, DrainIs DEF n
    <2>9. \A i \in 1 .. Len(left) : Len(left[i]) = Len(safe) + i
      <3> SUFFICES ASSUME NEW i \in 1 .. Len(left) PROVE Len(left[i]) = Len(safe) + i
        OBVIOUS
      <3>1. k + i \in 1 .. n
        BY <1>2, <2>6, <2>8
      <3>2. Len(blocks[k + i]) = D + (k + i)
        BY <3>1 DEF IngestInv, BufferInv, n, D
      <3>3. D \in Nat /\ i \in Nat
        BY <1>2, <2>2, <2>8 DEF D
      <3> QED
        BY <2>5, <2>8, <3>2, <3>3
    <2>10. \A i \in 1 .. Len(left) - 1 : Ingest!Parent(left[i + 1]) = left[i]
      <3> SUFFICES ASSUME NEW i \in 1 .. Len(left) - 1
                   PROVE  Ingest!Parent(left[i + 1]) = left[i]
        OBVIOUS
      <3>1. i \in 1 .. Len(left) /\ i + 1 \in 1 .. Len(left) /\ k + i \in 1 .. n - 1
            /\ k + (i + 1) = (k + i) + 1
        BY <1>2, <2>6, <2>8
      <3> QED
        BY <2>1, <2>8, <3>1
    <2>11. CASE left = <<>>
      <3>1. blocks' = <<>> /\ tip' = safe /\ Len(blocks') = 0
        BY <1>3, <2>11, SMTT(30)
      <3> QED
        BY <1>1, <1>2, <2>8, <2>11, <3>1 DEF BufferInv, Ingest!BufferLinked, safe
    <2>12. CASE left # <<>>
      <3>1. Len(left) >= 1 /\ Head(left) = left[1] /\ left[1] = blocks[k + 1]
            /\ left[Len(left)] = blocks[n]
        <4>1. Len(left) \in Nat /\ Len(left) >= 1 /\ Head(left) = left[1]
          BY <2>8, <2>12
        <4>2. 1 \in 1 .. Len(left) /\ Len(left) \in 1 .. Len(left) /\ k + Len(left) = n
          BY <1>2, <2>6, <2>8, <4>1
        <4> QED
          BY <2>8, <4>1, <4>2
      <3>2. Ingest!Parent(left[1]) = safe
        <4>1. CASE k = 0
          BY <2>6, <3>1, <4>1
        <4>2. CASE k # 0
          <5>1. k \in 1 .. n - 1 /\ k > 0
            BY <1>2, <2>6, <2>8, <3>1, <4>2, SMTT(30)
          <5> QED
            BY <2>1, <2>6, <3>1, <5>1
        <4> QED
          BY <4>1, <4>2
      <3>3. blocks' = left /\ tip' = tip /\ source_tip' = source_tip /\ derivation'.safe_l2 = safe
        BY <1>2, <1>3, <2>12 DEF safe
      <3>4. tip # <<>>
        <4>1. 1 \in 1 .. n /\ n \in 1 .. n
          BY <1>2, <2>1
        <4>2. Len(tip) = Len(derivation.safe_l2) + n
          BY <2>1, <4>1 DEF IngestInv, BufferInv, n
        <4> QED
          BY <1>2, <2>1, <2>2, <4>2
      <3>5. BufferInv'
        BY <2>9, <2>12, <3>3, <3>4, SMTT(30) DEF BufferInv
      <3>6. Ingest!BufferLinked'
        BY <2>1, <2>10, <3>1, <3>2, <3>3, Zenon DEF Ingest!BufferLinked
      <3> QED
        BY <1>2, <2>8, <3>3, <3>5, <3>6
    <2> QED
      BY <2>11, <2>12
  <1> QED
    BY <1>4, <1>5

\* Every step of the sequencer, of the rollup node and of the driver keeps the invariant.
LEMMA IngestKept ==
    ASSUME IngestInv, Ingest!Next \/ UNCHANGED ingest
    PROVE  IngestInv'
  <1>1. /\ chain \in Blocks /\ chain # <<>> /\ Len(chain) \in Nat
        /\ node.safe_l2 \in Blocks /\ node.safe_l2 # <<>> /\ node.current_l1 \in Nat
        /\ Len(node.safe_l2) \in Nat /\ node \in Status
        /\ derivation \in Status /\ derivation.safe_l2 \in Blocks
        /\ derivation.safe_l2 # <<>> /\ Len(derivation.safe_l2) \in Nat
        /\ source_tip \in Blocks /\ Len(source_tip) \in Nat
        /\ blocks \in Seq(Blocks) /\ tip \in Blocks /\ fetch \in Blocks
    BY DEF IngestInv, IngestTypes, Status, Blocks
  <1>2. ASSUME NEW b \in Blocks, NEW n \in 1 .. Len(b)
        PROVE  Ingest!Truncate(b, n) \in Blocks \ {<<>>}
    <2>1. n \in 0 .. Len(b) /\ n # 0
      BY <1>2 DEF Blocks
    <2>2. Ingest!Truncate(b, n) \in Blocks /\ Len(Ingest!Truncate(b, n)) = n
      BY <2>1, TruncateIs
    <2> QED
      BY <2>1, <2>2
  <1>3. ASSUME UNCHANGED <<derivation, source_tip, blocks, tip>>, IngestTypes'
        PROVE  IngestInv'
    BY <1>3 DEF IngestInv, BufferInv, Ingest!BufferLinked
  <1>4. CASE Ingest!L2Grows \/ \E n \in 1 .. MaxLen : Ingest!L2Reorganises(n)
    <2>1. UNCHANGED <<status, derivation, source_tip, blocks, tip, fetch>>
      BY <1>4 DEF Ingest!L2Grows, Ingest!L2Reorganises, Ingest!feed, Ingest!buffer
    <2>2. chain' \in Blocks \ {<<>>} /\ node' \in Status
      <3>1. CASE Ingest!L2Grows
        <4>1. PICK m \in Ingest!Mark : chain' = Append(chain, m)
          BY <3>1 DEF Ingest!L2Grows
        <4> QED
          BY <1>1, <3>1, <4>1 DEF Ingest!L2Grows, Blocks
      <3>2. ASSUME NEW n \in 1 .. MaxLen, Ingest!L2Reorganises(n)
            PROVE  chain' \in Blocks \ {<<>>} /\ node' \in Status
        <4>1. n \in 1 .. Len(chain)
          BY <1>1, <3>2, PartAssumption DEF Ingest!L2Reorganises
        <4>2. Ingest!Truncate(chain, n) \in Blocks \ {<<>>}
          BY <1>1, <1>2, <4>1
        <4>3. PICK m \in Ingest!Mark : chain' = Append(Ingest!Truncate(chain, n), m)
          BY <3>2 DEF Ingest!L2Reorganises
        <4>4. chain' \in Blocks \ {<<>>}
          BY <4>2, <4>3 DEF Blocks
        <4>5. \/ node' = node
              \/ \E l1b \in 0 .. node.current_l1 :
                   node' = [safe_l2 |-> Ingest!Truncate(chain, n), current_l1 |-> l1b]
          BY <3>2 DEF Ingest!L2Reorganises
        <4> QED
          BY <1>1, <4>2, <4>4, <4>5 DEF Status
      <3> QED
        BY <1>4, <3>1, <3>2
    <2>3. IngestTypes'
      BY <2>1, <2>2 DEF IngestInv, IngestTypes
    <2> QED
      BY <1>3, <2>1, <2>3
  <1>5. CASE Ingest!NodeRegresses \/ Ingest!NodeDerives
    <2>1. UNCHANGED <<chain, status, derivation, source_tip, blocks, tip, fetch>>
      BY <1>5 DEF Ingest!NodeRegresses, Ingest!NodeDerives, Ingest!feed, Ingest!buffer
    <2>2. CASE Ingest!NodeRegresses
      <3>1. PICK n \in 1 .. Len(node.safe_l2), l1b \in 0 .. node.current_l1 :
              node' = [safe_l2 |-> Ingest!Truncate(node.safe_l2, n), current_l1 |-> l1b]
        BY <2>2 DEF Ingest!NodeRegresses
      <3>2. Ingest!Truncate(node.safe_l2, n) \in Blocks \ {<<>>} /\ l1b \in Nat
        BY <1>1, <1>2, <3>1
      <3>3. node' \in Status
        BY <3>1, <3>2 DEF Status
      <3>4. IngestTypes'
        BY <2>1, <3>3 DEF IngestInv, IngestTypes
      <3> QED
        BY <1>3, <2>1, <3>4
    <2>3. CASE Ingest!NodeDerives
      <3>1. PICK n \in Len(node.safe_l2) .. Len(chain) :
              node' = [safe_l2 |-> Ingest!Truncate(chain, n), current_l1 |-> node.current_l1 + 1]
        BY <2>3 DEF Ingest!NodeDerives
      <3>2. n \in 1 .. Len(chain)
        <4>1. Len(node.safe_l2) >= 1
          BY <1>1 DEF Blocks
        <4> QED
          BY <1>1, <3>1, <4>1
      <3>3. Ingest!Truncate(chain, n) \in Blocks \ {<<>>} /\ node.current_l1 + 1 \in Nat
        BY <1>1, <1>2, <3>2
      <3>4. node' \in Status
        BY <3>1, <3>3 DEF Status
      <3>5. IngestTypes'
        BY <2>1, <3>4 DEF IngestInv, IngestTypes
      <3> QED
        BY <1>3, <2>1, <3>5
    <2> QED
      BY <1>5, <2>2, <2>3
  <1>6. CASE Ingest!StatusSent
    <2>1. /\ status' = <<node>> /\ status'[1] = node /\ status' # <<>>
          /\ UNCHANGED <<chain, node, derivation, source_tip, blocks, tip, fetch>>
      BY <1>6 DEF Ingest!StatusSent, Ingest!buffer
    <2>2. IngestTypes'
      BY <1>1, <2>1 DEF IngestInv, IngestTypes
    <2> QED
      BY <1>3, <2>1, <2>2
  <1>7. CASE Ingest!OnDerivationStatus
    <2> DEFINE s == status[1]
    <2>1. /\ s \in Status /\ status' = <<>> /\ UNCHANGED <<chain, node>>
          /\ \/ UNCHANGED <<derivation, blocks, tip, source_tip, fetch>>
             \/ derivation' = s /\ Ingest!ResetToSafeHead(s)
             \/ derivation' = s /\ ~Ingest!Mismatch(s.safe_l2) /\ Ingest!PruneSafe(s.safe_l2)
      BY <1>7 DEF Ingest!OnDerivationStatus, IngestInv, IngestTypes
    <2> HIDE DEF s
    <2>2. CASE UNCHANGED <<derivation, blocks, tip, source_tip, fetch>>
      <3>1. IngestTypes'
        BY <2>1, <2>2 DEF IngestInv, IngestTypes
      <3> QED
        BY <1>3, <2>2, <3>1
    <2>3. CASE /\ derivation' = s
               /\ \/ Ingest!ResetToSafeHead(s)
                  \/ ~Ingest!Mismatch(s.safe_l2) /\ Ingest!PruneSafe(s.safe_l2)
      <3>1. /\ BufferInv' /\ Ingest!BufferLinked'
            /\ source_tip' \in Blocks /\ blocks' \in Seq(Blocks) /\ tip' \in Blocks
            /\ fetch' \in Blocks
        BY <2>1, <2>3, ResetKeeps, PruneKeeps, SMTT(30) DEF IngestInv
      <3>2. IngestTypes'
        BY <1>1, <2>1, <2>3, <3>1 DEF IngestTypes
      <3> QED
        BY <3>1, <3>2 DEF IngestInv
    <2> QED
      BY <2>1, <2>2, <2>3
  <1>8. CASE Ingest!Answered \/ Ingest!FetchDropped \/ UNCHANGED ingest
    <2>1. UNCHANGED <<chain, node, status, derivation, source_tip, blocks, tip>>
      BY <1>8 DEF Ingest!Answered, Ingest!FetchDropped, Ingest!feed, Ingest!buffer, ingest
    <2>2. CASE Ingest!Answered
      <3>1. /\ fetch' = Ingest!Truncate(chain, Len(source_tip) + 1)
            /\ Len(source_tip) + 1 \in 1 .. Len(chain)
        BY <1>1, <2>2 DEF Ingest!Answered
      <3>2. fetch' \in Blocks
        BY <1>1, <1>2, <3>1
      <3>3. IngestTypes'
        BY <2>1, <3>2 DEF IngestInv, IngestTypes
      <3> QED
        BY <1>3, <2>1, <3>3
    <2>3. CASE Ingest!FetchDropped \/ UNCHANGED ingest
      <3>1. fetch' = <<>> \/ fetch' = fetch
        BY <2>3 DEF Ingest!FetchDropped, ingest
      <3>2. <<>> \in Blocks
        BY DEF Blocks
      <3>3. fetch' \in Blocks
        BY <1>1, <3>1, <3>2
      <3>4. IngestTypes'
        BY <2>1, <3>3 DEF IngestInv, IngestTypes
      <3> QED
        BY <1>3, <2>1, <3>4
    <2> QED
      BY <1>8, <2>2, <2>3
  <1>9. CASE Ingest!OnSourceEvent
    <2>1. /\ fetch # <<>> /\ fetch' = <<>>
          /\ UNCHANGED <<chain, node, status, derivation>>
      BY <1>9 DEF Ingest!OnSourceEvent, Ingest!feed
    <2>2. /\ Ingest!Parent(fetch) \in Blocks /\ Len(Ingest!Parent(fetch)) = Len(fetch) - 1
          /\ Len(fetch) \in Nat /\ Len(Ingest!Parent(fetch)) \in Nat
      BY <1>1, <2>1, ParentIs DEF Blocks
    <2>3. CASE Ingest!ResetToSafeHead(derivation)
      <3>1. /\ BufferInv' /\ Ingest!BufferLinked'
            /\ source_tip' \in Blocks /\ blocks' \in Seq(Blocks) /\ tip' \in Blocks
            /\ fetch' \in Blocks
        BY <1>1, <2>1, <2>3, ResetKeeps DEF IngestInv
      <3>2. IngestTypes'
        BY <1>1, <2>1, <3>1 DEF IngestInv, IngestTypes
      <3> QED
        BY <3>1, <3>2 DEF IngestInv
    <2>4. CASE /\ Ingest!Parent(fetch) = source_tip /\ source_tip' = fetch
               /\ Len(fetch) <= Len(derivation.safe_l2) /\ UNCHANGED <<blocks, tip>>
      <3>1. blocks = <<>> /\ tip # <<>>
        <4>1. ASSUME blocks # <<>> PROVE FALSE
          <5>1. /\ Len(blocks) \in Nat /\ Len(blocks) >= 1 /\ source_tip = blocks[Len(blocks)]
                /\ Len(blocks) \in 1 .. Len(blocks)
            BY <1>1, <4>1 DEF IngestInv, Ingest!BufferLinked
          <5>2. Len(source_tip) = Len(derivation.safe_l2) + Len(blocks)
            BY <5>1 DEF IngestInv, BufferInv
          <5> QED
            BY <1>1, <2>2, <2>4, <5>1, <5>2
        <4>2. ASSUME tip = <<>> PROVE FALSE
          <5>1. source_tip = derivation.safe_l2
            BY <4>2 DEF IngestInv, BufferInv
          <5> QED
            BY <1>1, <2>2, <2>4, <5>1
        <4> QED
          BY <4>1, <4>2
      <3>2. IngestTypes'
        <4>1. fetch' \in Blocks /\ source_tip' \in Blocks
          BY <1>1, <2>1, <2>4 DEF Blocks
        <4> QED
          BY <2>1, <2>4, <4>1 DEF IngestInv, IngestTypes
      <3>3. BufferInv' /\ Ingest!BufferLinked'
        BY <2>1, <2>4, <3>1 DEF IngestInv, BufferInv, Ingest!BufferLinked
      <3> QED
        BY <3>2, <3>3 DEF IngestInv
    <2>5. CASE /\ Ingest!Parent(fetch) = source_tip /\ (tip = <<>> \/ Ingest!Parent(fetch) = tip)
               /\ source_tip' = fetch /\ blocks' = Append(blocks, fetch) /\ tip' = fetch
      <3> DEFINE n == Len(blocks)
      <3>1. /\ n \in Nat /\ Len(blocks') = n + 1 /\ blocks' \in Seq(Blocks)
            /\ blocks'[n + 1] = fetch /\ \A i \in 1 .. n : blocks'[i] = blocks[i]
            /\ blocks' # <<>> /\ Head(blocks') = blocks'[1]
        BY <1>1, <2>5
      <3> HIDE DEF n
      <3>2. /\ n = 0 => Ingest!Parent(fetch) = derivation.safe_l2
            /\ n # 0 => Ingest!Parent(fetch) = blocks[n]
        <4>1. n = 0 <=> blocks = <<>>
          BY <1>1 DEF n
        <4> QED
          BY <2>5, <4>1 DEF IngestInv, BufferInv, Ingest!BufferLinked, n
      <3>3. Len(fetch) = Len(derivation.safe_l2) + (n + 1)
        <4>1. CASE n = 0
          BY <1>1, <2>2, <3>2, <4>1
        <4>2. CASE n # 0
          <5>1. n \in 1 .. n
            BY <3>1, <4>2
          <5>2. Len(blocks[n]) = Len(derivation.safe_l2) + n
            BY <5>1 DEF IngestInv, BufferInv, n
          <5>3. Len(fetch) - 1 = Len(derivation.safe_l2) + n
            BY <2>2, <3>2, <4>2, <5>2
          <5>4. n \in Nat /\ Len(fetch) \in Nat /\ Len(derivation.safe_l2) \in Nat
            BY <1>1, <2>2, <3>1
          <5>5. \A a, b, c \in Nat : a - 1 = b + c => a = b + (c + 1)
            OBVIOUS
          <5> QED
            BY <5>3, <5>4, <5>5, Zenon
        <4> QED
          BY <4>1, <4>2
      <3>4. \A i \in 1 .. n + 1 : Len(blocks'[i]) = Len(derivation.safe_l2) + i
        <4> SUFFICES ASSUME NEW i \in 1 .. n + 1
                     PROVE  Len(blocks'[i]) = Len(derivation.safe_l2) + i
          OBVIOUS
        <4>1. i = n + 1 \/ i \in 1 .. n
          BY <3>1
        <4> QED
          BY <3>1, <3>3, <4>1, Zenon DEF IngestInv, BufferInv, n
      <3>5. \A i \in 1 .. n : Ingest!Parent(blocks'[i + 1]) = blocks'[i]
        <4> SUFFICES ASSUME NEW i \in 1 .. n
                     PROVE  Ingest!Parent(blocks'[i + 1]) = blocks'[i]
          OBVIOUS
        <4>1. CASE i = n
          <5>1. n # 0
            BY <3>1, <4>1
          <5> QED
            BY <3>1, <3>2, <4>1, <5>1
        <4>2. CASE i # n
          <5>1. i \in 1 .. n - 1 /\ i + 1 \in 1 .. n
            BY <3>1, <4>2
          <5> QED
            BY <3>1, <5>1 DEF IngestInv, Ingest!BufferLinked, n
        <4> QED
          BY <4>1, <4>2
      <3>6. Ingest!Parent(Head(blocks')) = derivation.safe_l2
        <4>1. CASE n = 0
          BY <3>1, <3>2, <4>1
        <4>2. CASE n # 0
          <5>1. 1 \in 1 .. n /\ blocks # <<>> /\ Head(blocks) = blocks[1]
            BY <1>1, <3>1, <4>2 DEF n
          <5> QED
            BY <3>1, <5>1 DEF IngestInv, Ingest!BufferLinked
        <4> QED
          BY <4>1, <4>2
      <3>7. (n + 1) - 1 = n
        BY <3>1
      <3>8. Ingest!BufferLinked'
        BY <2>1, <2>5, <3>1, <3>5, <3>6, <3>7 DEF Ingest!BufferLinked
      <3>9. BufferInv'
        BY <2>1, <2>5, <3>1, <3>4 DEF BufferInv
      <3>10. IngestTypes'
        <4>1. fetch' \in Blocks /\ source_tip' \in Blocks /\ tip' \in Blocks
          BY <1>1, <2>1, <2>5 DEF Blocks
        <4> QED
          BY <2>1, <3>1, <4>1 DEF IngestInv, IngestTypes
      <3> QED
        BY <3>8, <3>9, <3>10 DEF IngestInv
    <2> QED
      BY <1>9, <2>3, <2>4, <2>5 DEF Ingest!OnSourceEvent
  <1> QED
    BY <1>4, <1>5, <1>6, <1>7, <1>8, <1>9 DEF Ingest!Next, Ingest!Driver

-----------------------------------------------------------------------------
(* The sources together.  A step of one leaves the others as they are. *)

\* What the sources hand on is in order, for every chain, every order in which the stream
\* and the poller answer, and however often the driver's select drops what they wait for:
\* the L1 heads reported rise and the encoder's head is the highest of them (next of
\* l1_hybrid.rs, advance_l1_head), and the blocks the driver buffers are one chain from the
\* safe head it acts on to the tip where the source goes on (process, on_block, prune_safe
\* and reset_to_safe_head).
THEOREM SourcesInOrder ==
    MCSpec => []DeliveredInOrder
  <1> DEFINE Inv == HeadsInv /\ IngestInv
  <1>1. MCInit => Inv
    BY HeadsInit, IngestInit DEF MCInit, HeadsStart
  <1>2. Inv /\ [MCNext]_mcvars => Inv'
    <2>1. [MCNext]_mcvars => Heads!Next \/ UNCHANGED heads
      BY DEF MCNext, ScanStep, HeadsStep, IngestStep, ControlStep, PushStep, mcvars
    <2>2. [MCNext]_mcvars => Ingest!Next \/ UNCHANGED ingest
      BY DEF MCNext, ScanStep, HeadsStep, IngestStep, ControlStep, PushStep, mcvars
    <2> QED
      BY <2>1, <2>2, HeadsKept, IngestKept
  <1>3. Inv => DeliveredInOrder
    BY DEF HeadsInv, IngestInv, DeliveredInOrder
  <1> QED
    BY <1>1, <1>2, <1>3, PTL DEF MCSpec

-----------------------------------------------------------------------------
(* The throttle. *)

(* A controller whose configuration passed ThrottleConfig::validate. *)
Configured(ctl) ==
    /\ {ctl.start_threshold, ctl.full_threshold, ctl.max_intensity, ctl.block_lower,
        ctl.block_upper, ctl.tx_lower, ctl.tx_upper} \subseteq Nat
    /\ ctl.strategy \in Strategies
    /\ Valid(ctl)

(* A product grows with either factor. *)
LEMMA ProductGrows ==
    ASSUME NEW a \in Int, NEW b \in Int, NEW c \in Int, a <= b, 0 <= c
    PROVE  a * c <= b * c
  <1>1. 0 <= (b - a) * c
    BY SMT
  <1>2. (b - a) * c = b * c - a * c
    BY SMT
  <1> QED
    BY <1>1, <1>2, SMT

(* The quotient, by what it leaves. *)
LEMMA QuotientIs ==
    ASSUME NEW x \in Int, NEW s \in Int, s > 0
    PROVE  x \div s \in Int /\ (x \div s) * s <= x /\ x < (x \div s) * s + s
  BY SMT

(* Multiples of s less than s apart are in the order of their factors. *)
LEMMA QuotientOrder ==
    ASSUME NEW p \in Int, NEW q \in Int, NEW s \in Int, s > 0, p * s < q * s + s
    PROVE  p <= q
  <1> SUFFICES ASSUME p >= q + 1 PROVE FALSE
    BY SMT
  <1>1. (q + 1) * s <= p * s
    BY ProductGrows
  <1>2. (q + 1) * s = q * s + s
    BY SMT
  <1> QED
    BY <1>1, <1>2, SMT

(* Rounding half up keeps the order. *)
LEMMA RoundingMonotone ==
    ASSUME NEW x \in Int, NEW y \in Int, NEW s \in Int, s > 0, x <= y
    PROVE  (2 * x + s) \div (2 * s) <= (2 * y + s) \div (2 * s)
  <1> DEFINE p == (2 * x + s) \div (2 * s)
             q == (2 * y + s) \div (2 * s)
  <1>1. p \in Int /\ p * (2 * s) <= 2 * x + s
    BY QuotientIs
  <1>2. q \in Int /\ 2 * y + s < q * (2 * s) + 2 * s
    BY QuotientIs
  <1> HIDE DEF p, q
  <1>3. p * (2 * s) < q * (2 * s) + 2 * s
    BY <1>1, <1>2
  <1>4. p <= q
    BY <1>1, <1>2, <1>3, QuotientOrder
  <1> QED
    BY <1>4 DEF p, q

(* A whole number is rounded to itself. *)
LEMMA RoundingExact ==
    ASSUME NEW n \in Int, NEW s \in Int, s > 0
    PROVE  (2 * (n * s) + s) \div (2 * s) = n
  <1> DEFINE p == (2 * (n * s) + s) \div (2 * s)
  <1>1. p \in Int /\ p * (2 * s) <= 2 * (n * s) + s /\ 2 * (n * s) + s < p * (2 * s) + 2 * s
    BY QuotientIs
  <1> HIDE DEF p
  <1>2. 2 * (n * s) = n * (2 * s)
    BY SMT
  <1>3. p <= n
    BY <1>1, <1>2, QuotientOrder
  <1>4. n <= p
    BY <1>1, <1>2, QuotientOrder
  <1> QED
    BY <1>1, <1>3, <1>4 DEF p

(* The intensity is between 0 and 1 and grows with the backlog, under every strategy
   (Intensity of throttle.rs). *)
LEMMA IntensityGrows ==
    ASSUME NEW ctl, Configured(ctl), NEW b \in Nat, NEW c \in Nat, b <= c
    PROVE  /\ Scale(ctl) \in Nat /\ Scale(ctl) > 0
           /\ Intensity(ctl, b) \in 0 .. Scale(ctl)
           /\ Intensity(ctl, b) <= Intensity(ctl, c)
  <1> DEFINE r == ThresholdRange(ctl)
             m == ctl.max_intensity
             lin(x) == IF x - ctl.start_threshold > r THEN r ELSE x - ctl.start_threshold
             fac(x) == CASE ctl.strategy = "Off" -> 0
                         [] ctl.strategy = "Step" -> r * r
                         [] ctl.strategy = "Linear" -> lin(x) * r
                         [] ctl.strategy = "Quadratic" -> lin(x) * lin(x)
  <1>1. r \in Nat /\ r > 0 /\ m \in 0 .. 100 /\ ctl.start_threshold \in Nat
    BY DEF Configured, Valid, ThresholdRange
  <1>2. ASSUME NEW x \in Nat
        PROVE  Intensity(ctl, x) = IF x - ctl.start_threshold < 0 THEN 0 ELSE fac(x) * m
    BY DEF Intensity
  <1>3. Scale(ctl) = r * r * 100
    BY DEF Scale
  <1>4. ctl.strategy \in Strategies
    BY DEF Configured
  <1> HIDE DEF r, m
  <1>5. r * r \in Nat /\ r * r > 0
    BY <1>1
  <1>6. ASSUME NEW x \in Nat, x - ctl.start_threshold >= 0
        PROVE  lin(x) \in 0 .. r
    BY <1>1, <1>6
  <1>7. ASSUME NEW x \in Nat, NEW y \in Nat, x - ctl.start_threshold >= 0, x <= y
        PROVE  lin(x) <= lin(y)
    BY <1>1, <1>7
  <1> HIDE DEF lin
  <1>8. ASSUME NEW x \in 0 .. r
        PROVE  /\ x * r \in Nat /\ x * x \in Nat
               /\ x * x <= r * x /\ r * x = x * r /\ x * r <= r * r
    BY <1>1, ProductGrows
  <1>9. ASSUME NEW x \in Nat, x - ctl.start_threshold >= 0
        PROVE  fac(x) \in 0 .. (r * r)
    <2>1. /\ lin(x) * r \in Nat /\ lin(x) * lin(x) \in Nat
          /\ lin(x) * r <= r * r /\ lin(x) * lin(x) <= r * r
      BY <1>1, <1>5, <1>6, <1>8, <1>9
    <2> QED
      BY <1>4, <1>5, <2>1 DEF Strategies
  <1>10. ASSUME NEW x \in Nat, NEW y \in Nat, x - ctl.start_threshold >= 0, x <= y
         PROVE  fac(x) <= fac(y)
    <2>1. y - ctl.start_threshold >= 0
      BY <1>1, <1>10
    <2>2. lin(x) \in 0 .. r /\ lin(y) \in 0 .. r /\ lin(x) <= lin(y)
      BY <1>6, <1>7, <1>10, <2>1
    <2>3. lin(x) * r <= lin(y) * r
      BY <1>1, <2>2, ProductGrows
    <2>4. lin(x) * lin(x) <= lin(y) * lin(x) /\ lin(x) * lin(y) <= lin(y) * lin(y)
          /\ lin(x) * lin(y) = lin(y) * lin(x)
      BY <1>1, <2>2, ProductGrows
    <2>5. lin(x) * lin(x) \in Int /\ lin(y) * lin(x) \in Int /\ lin(y) * lin(y) \in Int
      BY <2>2
    <2>6. lin(x) * lin(x) <= lin(y) * lin(y)
      BY <2>4, <2>5
    <2> QED
      BY <1>4, <1>5, <2>3, <2>6 DEF Strategies
  <1> HIDE DEF fac
  <1>11. Scale(ctl) \in Nat /\ Scale(ctl) > 0
    BY <1>3, <1>5
  <1>12. ASSUME NEW x \in Nat, x - ctl.start_threshold >= 0
         PROVE  fac(x) * m \in 0 .. Scale(ctl)
    <2>1. fac(x) \in Nat /\ fac(x) <= r * r
      BY <1>5, <1>9, <1>12
    <2>2. fac(x) * m <= r * r * m
      BY <1>1, <1>5, <2>1, ProductGrows
    <2>3. r * r * m <= r * r * 100
      <3>1. m * (r * r) <= 100 * (r * r)
        BY <1>1, <1>5, ProductGrows
      <3> QED
        BY <1>1, <1>5, <3>1
    <2>4. fac(x) * m \in Nat
      BY <1>1, <2>1
    <2> QED
      BY <1>1, <1>3, <1>5, <2>2, <2>3, <2>4
  <1>13. Intensity(ctl, b) \in 0 .. Scale(ctl)
    BY <1>1, <1>2, <1>11, <1>12
  <1>14. Intensity(ctl, b) <= Intensity(ctl, c)
    <2>1. CASE b - ctl.start_threshold < 0
      <3>1. Intensity(ctl, b) = 0
        BY <1>2, <2>1
      <3>2. Intensity(ctl, c) >= 0
        BY <1>1, <1>2, <1>12, <1>11
      <3> QED
        BY <3>1, <3>2
    <2>2. CASE b - ctl.start_threshold >= 0
      <3>1. c - ctl.start_threshold >= 0
        BY <1>1, <2>2
      <3>2. fac(b) <= fac(c) /\ fac(b) \in 0 .. (r * r) /\ fac(c) \in 0 .. (r * r)
        BY <1>9, <1>10, <2>2, <3>1
      <3>3. fac(b) * m <= fac(c) * m
        BY <1>1, <1>5, <3>2, ProductGrows
      <3> QED
        BY <1>1, <1>2, <2>2, <3>1, <3>3
    <2> QED
      BY <1>1, <2>1, <2>2
  <1> QED
    BY <1>11, <1>13, <1>14

(* A limit of compute_limits is within its range and falls when the backlog grows,
   rounding included. *)
LEMMA LimitFalls ==
    ASSUME NEW ctl, Configured(ctl), NEW b \in Nat, NEW c \in Nat, b <= c,
           NEW lower \in Nat, NEW upper \in Nat, lower <= upper
    PROVE  /\ Limit(ctl, b, lower, upper) \in lower .. upper
           /\ Limit(ctl, c, lower, upper) <= Limit(ctl, b, lower, upper)
  <1> DEFINE s == Scale(ctl)
             d == upper - lower
             scaled(x) == upper * s - Intensity(ctl, x) * d
             rounded(x) == (2 * x + s) \div (2 * s)
  <1>1. /\ s \in Nat /\ s > 0
        /\ Intensity(ctl, b) \in 0 .. s /\ Intensity(ctl, c) \in 0 .. s
        /\ Intensity(ctl, b) <= Intensity(ctl, c)
    BY IntensityGrows
  <1>2. d \in Nat
    OBVIOUS
  <1>3. ASSUME NEW x \in Nat PROVE Limit(ctl, x, lower, upper) = rounded(scaled(x))
    BY DEF Limit
  <1> HIDE DEF s
  <1>4. upper * s \in Int /\ lower * s \in Int /\ s * d \in Int /\ upper * s - s * d = lower * s
    BY <1>1
  <1> HIDE DEF d
  <1>5. /\ Intensity(ctl, b) * d <= Intensity(ctl, c) * d
        /\ 0 * d <= Intensity(ctl, b) * d
        /\ Intensity(ctl, b) * d <= s * d
        /\ Intensity(ctl, b) * d \in Int /\ Intensity(ctl, c) * d \in Int
    BY <1>1, <1>2, ProductGrows
  <1>6. /\ scaled(b) \in Int /\ scaled(c) \in Int /\ scaled(c) <= scaled(b)
        /\ lower * s <= scaled(b) /\ scaled(b) <= upper * s
    BY <1>2, <1>4, <1>5
  <1> HIDE DEF scaled
  <1>7. rounded(scaled(c)) <= rounded(scaled(b))
    BY <1>1, <1>6, RoundingMonotone
  <1>8. rounded(lower * s) <= rounded(scaled(b)) /\ rounded(scaled(b)) <= rounded(upper * s)
    BY <1>1, <1>4, <1>6, RoundingMonotone
  <1>9. rounded(lower * s) = lower /\ rounded(upper * s) = upper
    BY <1>1, RoundingExact
  <1>10. rounded(scaled(b)) \in Int
    BY <1>1, <1>6, QuotientIs, SMTT(30)
  <1> QED
    BY <1>3, <1>7, <1>8, <1>9, <1>10

(***************************************************************************)
(* For every controller with a valid configuration and every backlog: the  *)
(* limits lie in the configured ranges, so that they are never 0, and more *)
(* backlog never loosens them (DaThrottle::compute_limits).                *)
(***************************************************************************)
THEOREM LimitsOfEveryController ==
    ASSUME NEW ctl, Configured(ctl), NEW b \in Nat, NEW c \in Nat, b <= c
    PROVE  /\ Limits(ctl, b).max_block_size \in ctl.block_lower..ctl.block_upper
           /\ Limits(ctl, b).max_tx_size \in ctl.tx_lower..ctl.tx_upper
           /\ Limits(ctl, c).max_block_size <= Limits(ctl, b).max_block_size
           /\ Limits(ctl, c).max_tx_size <= Limits(ctl, b).max_tx_size
  <1>1. /\ ctl.block_lower \in Nat /\ ctl.block_upper \in Nat /\ ctl.block_lower <= ctl.block_upper
        /\ ctl.tx_lower \in Nat /\ ctl.tx_upper \in Nat /\ ctl.tx_lower <= ctl.tx_upper
    BY SMTT(30) DEF Configured, Valid
  <1>2. ASSUME NEW x
        PROVE  /\ Limits(ctl, x).max_block_size = Limit(ctl, x, ctl.block_lower, ctl.block_upper)
               /\ Limits(ctl, x).max_tx_size = Limit(ctl, x, ctl.tx_lower, ctl.tx_upper)
    BY Zenon DEF Limits
  <1>3. /\ Limit(ctl, b, ctl.block_lower, ctl.block_upper) \in ctl.block_lower..ctl.block_upper
        /\ Limit(ctl, c, ctl.block_lower, ctl.block_upper)
             <= Limit(ctl, b, ctl.block_lower, ctl.block_upper)
    BY <1>1, LimitFalls, Zenon
  <1>4. /\ Limit(ctl, b, ctl.tx_lower, ctl.tx_upper) \in ctl.tx_lower..ctl.tx_upper
        /\ Limit(ctl, c, ctl.tx_lower, ctl.tx_upper) <= Limit(ctl, b, ctl.tx_lower, ctl.tx_upper)
    BY <1>1, LimitFalls, Zenon
  <1> QED
    BY <1>2, <1>3, <1>4

(* What the throttle published comes from the backlog it was published for. *)
ControlInv ==
    /\ controller \in MCControllers /\ basis.controller \in MCControllers
    /\ basis.backlog \in Nat
    /\ limits = Limits(basis.controller, basis.backlog)

(* The instance's controllers have valid configurations. *)
LEMMA ControllersConfigured ==
    ASSUME NEW ctl \in MCControllers
    PROVE  Configured(ctl)
  <1>1. Valid(ctl)
    BY ThrottleAssumption
  <1>2. /\ ctl.strategy \in Strategies
        /\ {ctl.start_threshold, ctl.full_threshold, ctl.max_intensity, ctl.block_lower,
            ctl.block_upper, ctl.tx_lower, ctl.tx_upper} \subseteq Nat
    BY DEF MCControllers
  <1> QED
    BY <1>1, <1>2 DEF Configured

(* The instance and the throttle compute the same limits. *)
LEMMA SameLimits ==
    ASSUME NEW ctl, NEW backlog
    PROVE  Control!Limits(ctl, backlog) = Limits(ctl, backlog)
  BY DEF Control!Limits, Limits, Control!Limit, Limit, Control!Scale, Scale,
     Control!Intensity, Intensity, Control!ThresholdRange, ThresholdRange

(* Each publication is for the backlog of that moment (publish_limits), and a new
   controller waits for the next one (set_controller). *)
LEMMA ControlInvariant == MCSpec => []ControlInv
  <1>1. MCInit => ControlInv
    <2> SUFFICES ASSUME Control!Init PROVE ControlInv
      BY DEF MCInit, ControlStarts
    <2> QED
      BY SameLimits DEF Control!Init, ControlInv
  <1>2. ControlInv /\ [MCNext]_mcvars => ControlInv'
    <2> SUFFICES ASSUME ControlInv, [MCNext]_mcvars PROVE ControlInv'
      OBVIOUS
    <2>1. Control!Next \/ UNCHANGED control
      BY DEF MCNext, ScanStep, HeadsStep, IngestStep, ControlStep, PushStep, mcvars
    <2>2. CASE Control!PublishLimits
      <3>1. PICK backlog \in 0..MaxBacklog :
              /\ limits' = Control!Limits(controller, backlog)
              /\ basis' = [controller |-> controller, backlog |-> backlog]
              /\ UNCHANGED controller
        BY <2>2 DEF Control!PublishLimits
      <3> QED
        BY <3>1, SameLimits, ThrottleAssumption DEF ControlInv
    <2>3. CASE Control!SetController
      BY <2>3 DEF Control!SetController, ControlInv
    <2>4. CASE UNCHANGED control
      BY <2>4 DEF control, ControlInv
    <2> QED
      BY <2>1, <2>2, <2>3, <2>4 DEF Control!Next
  <1> QED
    BY <1>1, <1>2, PTL DEF MCSpec

(***************************************************************************)
(* Under one controller more backlog never means looser limits, and less   *)
(* never tighter ones (compute_limits, publish_limits).                    *)
(***************************************************************************)
THEOREM LimitsAreMonotone == MCSpec => LimitsMonotone
  <1>1. ControlInv /\ ControlInv' => Control!NeverLooser
    <2> SUFFICES ASSUME ControlInv, ControlInv',
                        basis'.controller = basis.controller, basis'.backlog >= basis.backlog
                 PROVE  /\ limits'.max_block_size <= limits.max_block_size
                        /\ limits'.max_tx_size <= limits.max_tx_size
      BY DEF Control!NeverLooser
    <2>1. Configured(basis.controller)
      BY ControllersConfigured DEF ControlInv
    <2> QED
      BY <2>1, LimitsOfEveryController DEF ControlInv
  <1>2. ControlInv /\ ControlInv' => [Control!NeverLooser]_mcvars
    BY <1>1
  <1> QED
    BY <1>2, ControlInvariant, PTL DEF LimitsMonotone

(* The two limits of a publication, and what the pushers may hold of them. *)
Sizes == [max_tx_size : Nat, max_block_size : Nat]

PusherInv == Pusher!TypeOK /\ Pusher!OnlyPublished

(* Whatever is published lies in the range of a controller (DaThrottle::publish_limits). *)
LEMMA PushedLimitsInRange ==
    ASSUME NEW l \in PushedLimits
    PROVE  l \in Sizes /\ \E ctl \in MCControllers : Control!InRange(ctl, l)
  <1>1. PICK ctl \in PushControllers, backlog \in PushBacklogs : l = Limits(ctl, backlog)
    BY DEF PushedLimits
  <1>2. ctl \in MCControllers /\ backlog \in Nat /\ backlog <= backlog
    BY ThrottleAssumption
  <1>3. /\ l.max_block_size \in ctl.block_lower..ctl.block_upper
        /\ l.max_tx_size \in ctl.tx_lower..ctl.tx_upper
    BY <1>1, <1>2, ControllersConfigured, LimitsOfEveryController, Zenon
  <1>4. l = [max_tx_size |-> l.max_tx_size, max_block_size |-> l.max_block_size]
    BY <1>1, Zenon DEF Limits
  <1>5. {ctl.block_lower, ctl.block_upper, ctl.tx_lower, ctl.tx_upper} \subseteq Nat
    BY <1>2 DEF MCControllers
  <1>6. l.max_block_size \in Nat /\ l.max_tx_size \in Nat
    BY <1>3, <1>5
  <1> QED
    BY <1>2, <1>3, <1>4, <1>6 DEF Sizes, Control!InRange

(* The throttle starts from limits it may publish (DaThrottle::new). *)
LEMMA InitialIsPushed == InitialLimits \subseteq PushedLimits
  BY ThrottleAssumption DEF InitialLimits, PushedLimits

(* Storing the first limit of a publication (set_max_tx_size). *)
LEMMA StoresTx ==
    ASSUME NEW app \in [Builder -> Sizes], NEW b \in Builder, NEW l \in Sizes, NEW new,
           new = [app EXCEPT ![b].max_tx_size = l.max_tx_size]
    PROVE  /\ new \in [Builder -> Sizes]
           /\ \A c \in Builder : /\ new[c].max_tx_size \in {app[c].max_tx_size, l.max_tx_size}
                                 /\ new[c].max_block_size = app[c].max_block_size
  BY DEF Sizes

(* Storing the second limit of a publication (set_max_block_size). *)
LEMMA StoresBlock ==
    ASSUME NEW app \in [Builder -> Sizes], NEW b \in Builder, NEW l \in Sizes, NEW new,
           new = [app EXCEPT ![b].max_block_size = l.max_block_size]
    PROVE  /\ new \in [Builder -> Sizes]
           /\ \A c \in Builder : /\ new[c].max_tx_size = app[c].max_tx_size
                                 /\ new[c].max_block_size \in {app[c].max_block_size, l.max_block_size}
  BY DEF Sizes

(* A store of published limits, on time or late, keeps the builders at published ones. *)
LEMMA StoreKeeps ==
    ASSUME PusherInv, NEW b \in Builder, NEW l \in history,
           Pusher!StoreTx(b, l) \/ Pusher!StoreBlock(b, l)
    PROVE  /\ applied' \in [Builder -> Sizes]
           /\ \A c \in Builder :
                /\ applied'[c].max_tx_size \in {0} \cup {m.max_tx_size : m \in history}
                /\ applied'[c].max_block_size \in {0} \cup {m.max_block_size : m \in history}
  <1>1. applied \in [Builder -> Sizes] /\ history \subseteq PushedLimits
    BY DEF PusherInv, Pusher!TypeOK, Sizes
  <1>2. l \in Sizes
    BY <1>1, PushedLimitsInRange
  <1>3. \A c \in Builder :
          /\ applied[c].max_tx_size \in {0} \cup {m.max_tx_size : m \in history}
          /\ applied[c].max_block_size \in {0} \cup {m.max_block_size : m \in history}
    BY Zenon DEF PusherInv, Pusher!OnlyPublished
  <1>4. CASE Pusher!StoreTx(b, l)
    <2>1. /\ applied' \in [Builder -> Sizes]
          /\ \A c \in Builder : /\ applied'[c].max_tx_size \in {applied[c].max_tx_size, l.max_tx_size}
                                /\ applied'[c].max_block_size = applied[c].max_block_size
      BY <1>1, <1>2, <1>4, StoresTx DEF Pusher!StoreTx
    <2> QED
      BY <1>3, <2>1
  <1>5. CASE Pusher!StoreBlock(b, l)
    <2>1. /\ applied' \in [Builder -> Sizes]
          /\ \A c \in Builder :
               /\ applied'[c].max_tx_size = applied[c].max_tx_size
               /\ applied'[c].max_block_size \in {applied[c].max_block_size, l.max_block_size}
      BY <1>1, <1>2, <1>5, StoresBlock DEF Pusher!StoreBlock
    <2> QED
      BY <1>3, <2>1
  <1> QED
    BY <1>4, <1>5

(* A late push is one of published limits to one of the builders. *)
LatePush == [id : 0..MaxEvents, builder : Builder, limits : PushedLimits, stored : BOOLEAN]

(* The pushers start from the first publication, the builders without limits. *)
LEMMA PusherStarts == Pusher!Init => PusherInv
  <1> SUFFICES ASSUME Pusher!Init PROVE PusherInv
    OBVIOUS
  <1>1. published \in PushedLimits /\ history = {published}
    BY InitialIsPushed DEF Pusher!Init
  <1>2. events \in 0..MaxEvents /\ Pusher!Unlimited \in Sizes
    BY ThrottleAssumption DEF Pusher!Init, Pusher!Unlimited, Sizes
  <1>3. cancelled \in BOOLEAN /\ late = {}
    BY Zenon DEF Pusher!Init
  <1>4. /\ task \in [Builder -> {"push", "stored", "wait", "returned"}]
        /\ pushing \in [Builder -> PushedLimits] /\ applied \in [Builder -> Sizes]
    BY <1>1, <1>2 DEF Pusher!Init
  <1>5. Pusher!TypeOK
    BY <1>1, <1>2, <1>3, <1>4 DEF Pusher!TypeOK, Sizes
  <1>6. \A b \in Builder : /\ pushing[b] = published
                           /\ applied[b].max_tx_size = 0 /\ applied[b].max_block_size = 0
    BY DEF Pusher!Init, Pusher!Unlimited
  <1>7. Pusher!OnlyPublished
    BY <1>1, <1>3, <1>6 DEF Pusher!OnlyPublished
  <1> QED
    BY <1>5, <1>7 DEF PusherInv

(* Events are counted up to their bound. *)
LEMMA EventCounts ==
    ASSUME PusherInv, Pusher!Event
    PROVE  events' \in 0..MaxEvents
  <1>1. events \in 0..MaxEvents
    BY Zenon DEF PusherInv, Pusher!TypeOK
  <1> QED
    BY <1>1, ThrottleAssumption DEF Pusher!Event

(* A publication is remembered (publish_limits). *)
LEMMA PublishKeeps ==
    ASSUME PusherInv, Pusher!Publish
    PROVE  PusherInv'
  <1>1. /\ published' \in PushedLimits /\ history' = history \cup {published'}
        /\ events' \in 0..MaxEvents
        /\ UNCHANGED <<task, pushing, applied, late, cancelled>>
    BY EventCounts, Zenon DEF Pusher!Publish
  <1>2. Pusher!TypeOK'
    BY <1>1, Zenon DEF PusherInv, Pusher!TypeOK
  <1>3. Pusher!OnlyPublished'
    BY <1>1 DEF PusherInv, Pusher!OnlyPublished
  <1> QED
    BY <1>2, <1>3 DEF PusherInv

(* A push on time, in its two steps (push, set_max_da_size). *)
LEMMA PushKeeps ==
    ASSUME PusherInv, NEW b \in Builder, Pusher!PushStored(b) \/ Pusher!PushApplied(b)
    PROVE  PusherInv'
  <1>1. pushing[b] \in history
    BY DEF PusherInv, Pusher!OnlyPublished
  <1>2. Pusher!StoreTx(b, pushing[b]) \/ Pusher!StoreBlock(b, pushing[b])
    BY DEF Pusher!PushStored, Pusher!PushApplied
  <1>3. /\ UNCHANGED <<published, pushing, late, cancelled, events, history>>
        /\ task' \in [Builder -> {"push", "stored", "wait", "returned"}]
    BY DEF Pusher!PushStored, Pusher!PushApplied, PusherInv, Pusher!TypeOK
  <1>4. Pusher!TypeOK'
    BY <1>1, <1>2, <1>3, StoreKeeps, Zenon DEF PusherInv, Pusher!TypeOK, Sizes
  <1>5. Pusher!OnlyPublished'
    BY <1>1, <1>2, <1>3, StoreKeeps, Zenon DEF PusherInv, Pusher!OnlyPublished
  <1> QED
    BY <1>4, <1>5 DEF PusherInv

(* A push the pusher gave up on, in its two steps (set_max_da_size). *)
LEMMA LateKeeps ==
    ASSUME PusherInv, Pusher!LateLands
    PROVE  PusherInv'
  <1>1. PICK lapsed \in late : Pusher!LateStored(lapsed) \/ Pusher!LateApplied(lapsed)
    BY DEF Pusher!LateLands
  <1>2. lapsed \in LatePush /\ lapsed.limits \in history /\ lapsed.builder \in Builder
    BY DEF PusherInv, Pusher!TypeOK, Pusher!OnlyPublished, LatePush
  <1>3. Pusher!StoreTx(lapsed.builder, lapsed.limits) \/ Pusher!StoreBlock(lapsed.builder, lapsed.limits)
    BY <1>1 DEF Pusher!LateStored, Pusher!LateApplied
  <1>4. UNCHANGED <<published, task, pushing, cancelled, events, history>>
    BY <1>1 DEF Pusher!LateStored, Pusher!LateApplied
  <1>5. /\ [lapsed EXCEPT !.stored = TRUE] \in LatePush
        /\ [lapsed EXCEPT !.stored = TRUE].limits = lapsed.limits
    BY <1>2 DEF LatePush
  <1>6. late' \subseteq late \cup {[lapsed EXCEPT !.stored = TRUE]}
    BY <1>1 DEF Pusher!LateStored, Pusher!LateApplied
  <1>7. late' \subseteq LatePush /\ \A p \in late' : p.limits \in history
    BY <1>2, <1>5, <1>6 DEF PusherInv, Pusher!TypeOK, Pusher!OnlyPublished, LatePush
  <1>8. Pusher!TypeOK'
    BY <1>2, <1>3, <1>4, <1>7, StoreKeeps, Zenon DEF PusherInv, Pusher!TypeOK, Sizes, LatePush
  <1>9. Pusher!OnlyPublished'
    BY <1>2, <1>3, <1>4, <1>7, StoreKeeps, Zenon DEF PusherInv, Pusher!OnlyPublished
  <1> QED
    BY <1>8, <1>9 DEF PusherInv

(* A push that fails, or times out and stays on its way (push). *)
LEMMA FailKeeps ==
    ASSUME PusherInv, NEW b \in Builder, Pusher!PushFails(b) \/ Pusher!PushTimesOut(b)
    PROVE  PusherInv'
  <1> DEFINE lost == [id |-> events, builder |-> b, limits |-> pushing[b],
                      stored |-> task[b] = "stored"]
  <1>1. /\ pushing[b] \in history /\ pushing[b] \in PushedLimits /\ events \in 0..MaxEvents
        /\ (task[b] = "stored") \in BOOLEAN
    BY DEF PusherInv, Pusher!TypeOK, Pusher!OnlyPublished
  <1>2. lost \in LatePush /\ lost.limits \in history
    BY <1>1, Zenon DEF LatePush
  <1>3. late' \subseteq late \cup {lost}
    BY DEF Pusher!PushFails, Pusher!PushTimesOut
  <1> HIDE DEF lost
  <1>4. /\ UNCHANGED <<published, pushing, applied, cancelled, history>>
        /\ events' \in 0..MaxEvents
        /\ task' \in [Builder -> {"push", "stored", "wait", "returned"}]
    <2>1. Pusher!Event /\ task' = [task EXCEPT ![b] = "wait"]
      BY Zenon DEF Pusher!PushFails, Pusher!PushTimesOut
    <2>2. task \in [Builder -> {"push", "stored", "wait", "returned"}]
      BY Zenon DEF PusherInv, Pusher!TypeOK
    <2>3. UNCHANGED <<published, pushing, applied, cancelled, history>>
      BY Zenon DEF Pusher!PushFails, Pusher!PushTimesOut
    <2> QED
      BY <2>1, <2>2, <2>3, EventCounts, Zenon
  <1>5. late' \subseteq LatePush /\ \A p \in late' : p.limits \in history
    BY <1>2, <1>3 DEF PusherInv, Pusher!TypeOK, Pusher!OnlyPublished, LatePush
  <1>6. Pusher!TypeOK'
    BY <1>4, <1>5, Zenon DEF PusherInv, Pusher!TypeOK, LatePush
  <1>7. Pusher!OnlyPublished'
    BY <1>4, <1>5, Zenon DEF PusherInv, Pusher!OnlyPublished
  <1> QED
    BY <1>6, <1>7 DEF PusherInv

(* A pusher that reads the channel, returns or finds no API, and the cancellation (run). *)
LEMMA TaskKeeps ==
    ASSUME PusherInv,
           \/ Pusher!Stop
           \/ \E b \in Builder : Pusher!Wake(b) \/ Pusher!Return(b) \/ Pusher!MethodNotFound(b)
    PROVE  PusherInv'
  <1>1. /\ UNCHANGED <<published, applied, late, events, history>>
        /\ cancelled' \in BOOLEAN
        /\ task' \in [Builder -> {"push", "stored", "wait", "returned"}]
    BY Zenon DEF Pusher!Stop, Pusher!Wake, Pusher!Return, Pusher!MethodNotFound, PusherInv, Pusher!TypeOK
  <1>2. /\ pushing' \in [Builder -> PushedLimits]
        /\ \A b \in Builder : pushing'[b] \in {pushing[b], published}
    BY DEF Pusher!Stop, Pusher!Wake, Pusher!Return, Pusher!MethodNotFound, PusherInv, Pusher!TypeOK
  <1>3. Pusher!TypeOK'
    BY <1>1, <1>2, Zenon DEF PusherInv, Pusher!TypeOK
  <1>4. Pusher!OnlyPublished'
    BY <1>1, <1>2 DEF PusherInv, Pusher!OnlyPublished
  <1> QED
    BY <1>3, <1>4 DEF PusherInv

(* A builder that restarts applies no limits, and its handlers are gone. *)
LEMMA RestartKeeps ==
    ASSUME PusherInv, NEW b \in Builder, Pusher!BuilderRestarts(b)
    PROVE  PusherInv'
  <1>1. /\ UNCHANGED <<published, pushing, cancelled, history>> /\ late' \subseteq late
        /\ events' \in 0..MaxEvents
        /\ task' \in [Builder -> {"push", "stored", "wait", "returned"}]
    <2>1. Pusher!Event /\ task' = [task EXCEPT ![b] = IF @ = "stored" THEN "wait" ELSE @]
      BY Zenon DEF Pusher!BuilderRestarts
    <2>2. task \in [Builder -> {"push", "stored", "wait", "returned"}]
      BY Zenon DEF PusherInv, Pusher!TypeOK
    <2>3. task' \in [Builder -> {"push", "stored", "wait", "returned"}]
      BY <2>1, <2>2
    <2>4. UNCHANGED <<published, pushing, cancelled, history>> /\ late' \subseteq late
      BY DEF Pusher!BuilderRestarts
    <2> QED
      BY <2>1, <2>3, <2>4, EventCounts, Zenon
  <1>2. /\ Pusher!Unlimited \in Sizes
        /\ Pusher!Unlimited.max_tx_size = 0 /\ Pusher!Unlimited.max_block_size = 0
    BY DEF Pusher!Unlimited, Sizes
  <1>3. applied' \in [Builder -> Sizes] /\ \A c \in Builder : applied'[c] \in {applied[c], Pusher!Unlimited}
    BY <1>2 DEF Pusher!BuilderRestarts, PusherInv, Pusher!TypeOK, Sizes
  <1>4. Pusher!TypeOK'
    BY <1>1, <1>3, Zenon DEF PusherInv, Pusher!TypeOK, Sizes
  <1>5. Pusher!OnlyPublished'
    BY <1>1, <1>2, <1>3 DEF PusherInv, Pusher!OnlyPublished
  <1> QED
    BY <1>4, <1>5 DEF PusherInv

(***************************************************************************)
(* Nothing but published limits is pushed or applied, for any number of    *)
(* builders, failures and restarts (ThrottlePusher, set_max_da_size).      *)
(***************************************************************************)
LEMMA PusherInvariant == MCSpec => []PusherInv
  <1>1. MCInit => PusherInv
    BY PusherStarts DEF MCInit, PushStarts
  <1>2. PusherInv /\ [MCNext]_mcvars => PusherInv'
    <2> SUFFICES ASSUME PusherInv, [MCNext]_mcvars PROVE PusherInv'
      OBVIOUS
    <2>1. Pusher!Next \/ UNCHANGED push
      BY DEF MCNext, ScanStep, HeadsStep, IngestStep, ControlStep, PushStep, mcvars
    <2>2. CASE UNCHANGED push
      BY <2>2, Zenon DEF push, PusherInv, Pusher!TypeOK, Pusher!OnlyPublished
    <2> QED
      BY <2>1, <2>2, PublishKeeps, PushKeeps, LateKeeps, FailKeeps, TaskKeeps, RestartKeeps, Zenon
         DEF Pusher!Next
  <1> QED
    BY <1>1, <1>2, PTL DEF MCSpec

(***************************************************************************)
(* What is published stays in the range of the controller it comes from,   *)
(* never 0, which a builder takes for no limit, and nothing that was not   *)
(* published reaches a builder, however late a push is handled and         *)
(* whichever pushes interleave (ThrottleConfig::validate, the pusher's     *)
(* run, set_max_da_size).                                                  *)
(***************************************************************************)
THEOREM PublicationsInRange == MCSpec => []PublishedInRange
  <1>1. ControlInv => Control!LimitsInRange
    <2> SUFFICES ASSUME ControlInv PROVE Control!LimitsInRange
      OBVIOUS
    <2>1. Configured(basis.controller)
      BY ControllersConfigured DEF ControlInv
    <2>2. /\ basis.backlog \in Nat /\ basis.backlog <= basis.backlog
          /\ limits = Limits(basis.controller, basis.backlog)
      BY DEF ControlInv
    <2>3. /\ Limits(basis.controller, basis.backlog).max_block_size
               \in basis.controller.block_lower..basis.controller.block_upper
          /\ Limits(basis.controller, basis.backlog).max_tx_size
               \in basis.controller.tx_lower..basis.controller.tx_upper
      BY <2>1, <2>2, LimitsOfEveryController, Zenon
    <2> QED
      BY <2>2, <2>3, Zenon DEF Control!LimitsInRange, Control!InRange
  <1>2. PusherInv => \A l \in history : \E ctl \in MCControllers : Control!InRange(ctl, l)
    <2>1. PusherInv => history \subseteq PushedLimits
      BY Zenon DEF PusherInv, Pusher!TypeOK
    <2> QED
      BY <2>1, PushedLimitsInRange
  <1>3. ControlInv /\ PusherInv => PublishedInRange
    BY <1>1, <1>2 DEF PublishedInRange, PusherInv
  <1> QED
    BY <1>3, ControlInvariant, PusherInvariant, PTL
=============================================================================
