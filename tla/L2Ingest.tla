------------------------------ MODULE L2Ingest ------------------------------
(***************************************************************************)
(* How L2 blocks reach the encoder: the polling source                     *)
(* (crates/batcher/source/src/polling.rs) walks the sequencer's chain from *)
(* a safe head, the driver (crates/batcher/core/src/driver.rs) buffers its *)
(* blocks and starts it again at the safe head of the last derivation      *)
(* status it accepted when blocks do not link up.  The chain reorganises,  *)
(* also below the safe head after an L1 reorganisation, and the rollup     *)
(* node's status goes back when it derives again or another node leads.    *)
(* Channels and encoding are in BatchDriver; here the encoder is its       *)
(* buffer of blocks.                                                       *)
(***************************************************************************)
EXTENDS Naturals, Sequences

CONSTANTS
    MaxLen,    \* length of the L2 chain at which it stops reorganising
    MaxL1,     \* L1 block at which the rollup node stops going back
    MaxReorgs, \* reorganisations and regressions in a run
    MaxDrops   \* fetches the driver's select drops

\* A block is its whole history, one mark per block: its number is the length of it,
\* its parent the history without the last mark, and its hash the history itself.
Mark == {0, 1}

VARIABLES
    chain,  \* the head of the sequencer's chain
    node,   \* the rollup node's status: [safe_l2 |-> block, current_l1 |-> number]
    status, \* the status the driver has not looked at yet, or <<>>
    last,   \* the last status the poller passed on
    derivation, \* the status the driver acts on
    source_tip, \* the polling source's tip
    blocks, \* the encoder's blocks, oldest first
    tip,    \* the encoder's tip
    fetch,  \* the block the source waits for or was answered, or <<>>
    reorgs, drops

feed == <<status, last>>
buffer == <<derivation, source_tip, blocks, tip>>
vars == <<chain, node, feed, buffer, fetch, reorgs, drops>>

Parent(b) == SubSeq(b, 1, Len(b) - 1)

Init ==
    /\ chain = <<0>> /\ node = [safe_l2 |-> <<0>>, current_l1 |-> 0]
    /\ status = <<>> /\ last = node
    /\ derivation = node /\ source_tip = <<0>>
    /\ blocks = <<>> /\ tip = <<>>
    /\ fetch = <<>> /\ reorgs = 0 /\ drops = 0

-----------------------------------------------------------------------------
(* The sequencer and the rollup node. *)

L2Grows ==
    /\ Len(chain) < MaxLen
    /\ \E m \in Mark : chain' = Append(chain, m)
    /\ UNCHANGED <<node, feed, buffer, fetch, reorgs, drops>>

Truncate(b, n) == SubSeq(b, 1, n)

\* The sequencer builds on an older block. Below the safe head that is an L1
\* reorganisation, and the node derives again from an older L1 block.
L2Reorganises(n) ==
    /\ Len(chain) < MaxLen /\ n < Len(chain) /\ node.current_l1 < MaxL1
    /\ reorgs < MaxReorgs /\ reorgs' = reorgs + 1
    /\ \E m \in Mark \ {chain[n + 1]} : chain' = Append(Truncate(chain, n), m)
    /\ node' \in IF n >= Len(node.safe_l2) THEN {node}
                 ELSE {[safe_l2 |-> Truncate(chain, n), current_l1 |-> l1] : l1 \in 0 .. node.current_l1}
    /\ UNCHANGED <<feed, buffer, fetch, drops>>

\* Another node leads, or this one restarts: it is behind on L1.
NodeRegresses ==
    /\ Len(chain) < MaxLen /\ node.current_l1 < MaxL1
    /\ reorgs < MaxReorgs /\ reorgs' = reorgs + 1
    /\ \E n \in 1 .. Len(node.safe_l2), l1 \in 0 .. node.current_l1 :
         node' = [safe_l2 |-> Truncate(node.safe_l2, n), current_l1 |-> l1]
    /\ UNCHANGED <<chain, feed, buffer, fetch, drops>>

\* The node reads an L1 block, which may hold batches.
NodeDerives ==
    /\ node.current_l1 < MaxL1
    /\ \E n \in Len(node.safe_l2) .. Len(chain) :
         node' = [safe_l2 |-> Truncate(chain, n), current_l1 |-> node.current_l1 + 1]
    /\ UNCHANGED <<chain, feed, buffer, fetch, reorgs, drops>>

-----------------------------------------------------------------------------
(* The driver. *)

\* The poller sees a change; StatusFeed has the details.
StatusSent ==
    /\ status = <<>> /\ node # last
    /\ status' = <<node>> /\ last' = node
    /\ UNCHANGED <<chain, node, buffer, fetch, reorgs, drops>>

\* reset_to_safe_head: a new encoder, and the source starts again at the safe head.
ResetToSafeHead(d) ==
    /\ blocks' = <<>> /\ tip' = <<>>
    /\ source_tip' = d.safe_l2 /\ fetch' = <<>>

\* prune_safe fails: the safe head is not on the buffered chain.
Mismatch(safe) ==
    /\ blocks # <<>>
    /\ LET oldest == Len(Head(blocks))
           count == Len(safe) + 1 - oldest
       IN  \/ Len(safe) + 1 < oldest
           \/ Len(safe) + 1 > oldest + Len(blocks)
           \/ Len(safe) + 1 = oldest /\ Parent(Head(blocks)) # safe
           \/ Len(safe) + 1 > oldest /\ Len(safe) + 1 <= oldest + Len(blocks) /\ blocks[count] # safe

\* The blocks up to the safe head are drained.
PruneSafe(safe) ==
    LET count == IF blocks = <<>> THEN 0 ELSE Len(safe) + 1 - Len(Head(blocks))
        left == SubSeq(blocks, count + 1, Len(blocks))
    IN  /\ blocks' = left
        /\ tip' = IF left = <<>> THEN safe ELSE tip
        /\ UNCHANGED <<source_tip, fetch>>

\* A lower safe head is ignored until the node has read past the L1 block of the last
\* status; then it resets the pipeline. So does one that is not on the buffered chain.
OnDerivationStatus ==
    /\ status # <<>> /\ status' = <<>>
    /\ \E s \in {status[1]} :
         \/ /\ Len(s.safe_l2) < Len(derivation.safe_l2) /\ s.current_l1 <= derivation.current_l1
            /\ UNCHANGED <<derivation, blocks, tip, source_tip, fetch>>
         \/ /\ Len(s.safe_l2) < Len(derivation.safe_l2) /\ s.current_l1 > derivation.current_l1
            /\ derivation' = s /\ ResetToSafeHead(s)
         \/ /\ Len(s.safe_l2) >= Len(derivation.safe_l2)
            /\ derivation' = s
            /\ IF Mismatch(s.safe_l2) THEN ResetToSafeHead(s) ELSE PruneSafe(s.safe_l2)
    /\ UNCHANGED <<chain, node, last, reorgs, drops>>

\* The sequencer answers the request for the block above the tip; it may have
\* reorganised before the answer arrives.
Answered ==
    /\ fetch = <<>> /\ Len(chain) > Len(source_tip)
    /\ fetch' = Truncate(chain, Len(source_tip) + 1)
    /\ UNCHANGED <<chain, node, feed, buffer, reorgs, drops>>

(* Mutant: the encoder does not compare a block with its tip. *)
OnSourceEventTrusts ==
    /\ fetch # <<>> /\ fetch' = <<>>
    /\ IF Parent(fetch) # source_tip
       THEN ResetToSafeHead(derivation)
       ELSE /\ source_tip' = fetch
            /\ IF Len(fetch) <= Len(derivation.safe_l2)
               THEN UNCHANGED <<blocks, tip>>
               ELSE blocks' = Append(blocks, fetch) /\ tip' = fetch
    /\ UNCHANGED <<chain, node, feed, derivation, reorgs, drops>>

\* process and on_block: a block with another parent than the tip is a reorganisation,
\* one the driver knows to be safe is dropped, one that does not extend the encoder's
\* tip resets.
OnSourceEvent ==
    /\ fetch # <<>> /\ fetch' = <<>>
    /\ IF Parent(fetch) # source_tip \/
          (Len(fetch) > Len(derivation.safe_l2) /\ tip # <<>> /\ Parent(fetch) # tip)
       THEN ResetToSafeHead(derivation)
       ELSE /\ source_tip' = fetch
            /\ IF Len(fetch) <= Len(derivation.safe_l2)
               THEN UNCHANGED <<blocks, tip>>
               ELSE blocks' = Append(blocks, fetch) /\ tip' = fetch
    /\ UNCHANGED <<chain, node, feed, derivation, reorgs, drops>>

\* Another arm of the select wins: the fetch is dropped.
FetchDropped ==
    /\ fetch # <<>> /\ fetch' = <<>>
    /\ drops < MaxDrops /\ drops' = drops + 1
    /\ UNCHANGED <<chain, node, feed, buffer, reorgs>>

Driver == StatusSent \/ OnDerivationStatus \/ Answered \/ OnSourceEvent

Next ==
    \/ L2Grows \/ NodeRegresses \/ NodeDerives
    \/ \E n \in 1 .. MaxLen : L2Reorganises(n)
    \/ Driver \/ FetchDropped

\* L1 and L2 go on, and the driver looks at what it is sent.
Spec ==
    /\ Init /\ [][Next]_vars
    /\ WF_vars(L2Grows) /\ WF_vars(NodeDerives)
    /\ WF_vars(StatusSent) /\ WF_vars(OnDerivationStatus) /\ WF_vars(Answered) /\ WF_vars(OnSourceEvent)

-----------------------------------------------------------------------------
(* Properties. *)

\* The buffered blocks are one chain, which ends at the encoder's tip and, between two
\* answers, where the source goes on; they start right above the safe head the driver
\* acts on.
BufferLinked ==
    /\ \A i \in 1 .. Len(blocks) - 1 : Parent(blocks[i + 1]) = blocks[i]
    /\ blocks # <<>> =>
         /\ tip = blocks[Len(blocks)] /\ source_tip = tip
         /\ Parent(Head(blocks)) = derivation.safe_l2

\* Once the chain and the node are quiet the encoder holds exactly the blocks of the
\* sequencer's chain above the node's safe head, through reorganisations of either chain
\* and statuses the driver ignored.
BlocksCatchUp ==
    <>[](/\ derivation.safe_l2 = node.safe_l2
         /\ blocks = [i \in 1 .. Len(chain) - Len(node.safe_l2) |->
                        Truncate(chain, Len(node.safe_l2) + i)])
=============================================================================
