------------------------------- MODULE TxQueue -------------------------------
(***************************************************************************)
(* The bounded send queue of crates/utilities/tx-manager/src/queue.rs.     *)
(* One task both sends transactions and drains their results, so it cannot *)
(* drain while it waits for a permit; a completion task per transaction    *)
(* delivers the result over a bounded channel.                             *)
(***************************************************************************)
EXTENDS Naturals, Sequences, FiniteSets

CONSTANTS
    Transactions, \* transactions the caller sends
    MaxPending,   \* permits of the semaphore
    Capacity      \* capacity of the result channel

VARIABLES
    permits,  \* free permits
    caller,   \* "idle", "acquiring" or "dispatching"
    sent,     \* transactions dispatched, in the order of their nonces
    task,     \* task[i]: the completion task of transaction i
    results,  \* the result channel
    received  \* results the caller has taken

vars == <<permits, caller, sent, task, results, received>>

Tx == 1 .. Transactions

Init ==
    /\ permits = MaxPending
    /\ caller = "idle"
    /\ sent = <<>>
    /\ task = [i \in Tx |-> "none"]
    /\ results = <<>>
    /\ received = <<>>

\* send: the caller waits for a permit.
Send ==
    /\ caller = "idle" /\ Len(sent) < Transactions
    /\ caller' = "acquiring"
    /\ UNCHANGED <<permits, sent, task, results, received>>

Acquire ==
    /\ caller = "acquiring" /\ permits > 0
    /\ permits' = permits - 1
    /\ caller' = "dispatching"
    /\ UNCHANGED <<sent, task, results, received>>

\* try_send: a permit is free. Without one it changes nothing.
TrySend ==
    /\ caller = "idle" /\ Len(sent) < Transactions /\ permits > 0
    /\ permits' = permits - 1
    /\ caller' = "dispatching"
    /\ UNCHANGED <<sent, task, results, received>>

\* dispatch: the nonce is reserved on the caller's task, then the completion
\* task is spawned.
Dispatch ==
    /\ caller = "dispatching"
    /\ sent' = Append(sent, Len(sent) + 1)
    /\ task' = [task EXCEPT ![Len(sent) + 1] = "waiting"]
    /\ caller' = "idle"
    /\ UNCHANGED <<permits, results, received>>

(* Mutant: the completion task keeps its permit until the result is delivered. *)
SettleKeepingPermit(i) ==
    /\ task[i] = "waiting"
    /\ task' = [task EXCEPT ![i] = "settled"]
    /\ UNCHANGED <<permits, caller, sent, results, received>>

\* The transaction settles: its permit is released before the result is sent.
Settle(i) ==
    /\ task[i] = "waiting"
    /\ permits' = permits + 1
    /\ task' = [task EXCEPT ![i] = "settled"]
    /\ UNCHANGED <<caller, sent, results, received>>

(* Mutant: a result that finds the channel full is dropped. *)
DeliverOrDrop(i) ==
    /\ task[i] = "settled"
    /\ results' = IF Len(results) < Capacity THEN Append(results, i) ELSE results
    /\ task' = [task EXCEPT ![i] = "done"]
    /\ UNCHANGED <<permits, caller, sent, received>>

\* The result is sent once the channel has room.
Deliver(i) ==
    /\ task[i] = "settled" /\ Len(results) < Capacity
    /\ results' = Append(results, i)
    /\ task' = [task EXCEPT ![i] = "done"]
    /\ UNCHANGED <<permits, caller, sent, received>>

\* The caller takes a result.
Receive ==
    /\ caller = "idle" /\ results # <<>>
    /\ received' = Append(received, Head(results))
    /\ results' = Tail(results)
    /\ UNCHANGED <<permits, caller, sent, task>>

Caller == Send \/ Acquire \/ TrySend \/ Dispatch \/ Receive

Completion(i) == Settle(i) \/ Deliver(i)

Next == Caller \/ \E i \in Tx : Completion(i)

\* The caller and the completion tasks run; transactions settle.
Spec == Init /\ [][Next]_vars /\ WF_vars(Caller) /\ \A i \in Tx : WF_vars(Completion(i))

-----------------------------------------------------------------------------
(* Properties. *)

\* The types of the variables.
TypeOK ==
    /\ permits \in 0 .. MaxPending
    /\ caller \in {"idle", "acquiring", "dispatching"}
    /\ sent \in Seq(Tx) /\ results \in Seq(Tx) /\ received \in Seq(Tx)
    /\ task \in [Tx -> {"none", "waiting", "settled", "done"}]
    /\ Len(results) <= Capacity

\* Permits are neither lost nor made: as many are out as transactions wait to
\* settle, plus the one the caller is about to use.
PermitsAccounted ==
    permits + Cardinality({i \in Tx : task[i] = "waiting"})
      + (IF caller = "dispatching" THEN 1 ELSE 0) = MaxPending

\* Every result reaches the caller, once, although the caller may send all its
\* transactions before it drains the first result.
AllReceived ==
    <>(Len(received) = Transactions /\ {received[i] : i \in 1 .. Len(received)} = Tx)
=============================================================================
