------------------------------ MODULE SafeHeadDb ------------------------------
(***************************************************************************)
(* The safe head database (crates/consensus/safedb/src/db.rs): a table     *)
(* from L1 block numbers to the L2 safe head recorded there.  Every        *)
(* operation is one redb transaction, so it is one step; hashes are left   *)
(* to the blocks themselves.  The entries are L2 blocks, as sequences      *)
(* whose length is the block number.                                       *)
(***************************************************************************)
EXTENDS Naturals, Sequences, FiniteSets, FiniteSetsExt, Functions

EmptyDb == [l \in {} |-> <<>>]

(* safe_head_updated: the entry of the L1 inclusion block is overwritten. *)
DbUpdate(db, l1, b) ==
  [l \in DOMAIN db \cup {l1} |-> IF l = l1 THEN b ELSE db[l]]

(* safe_head_reset to the block b with L1 origin o: from the first entry at or
   after o that is not below b, everything is deleted and b is anchored at o;
   without such an entry nothing happens. *)
DbReset(db, o, b) ==
  LET atOrAbove == {l \in DOMAIN db : l >= o /\ Len(db[l]) >= Len(b)}
  IN  IF atOrAbove = {} THEN db
      ELSE DbUpdate(Restrict(db, {l \in DOMAIN db : l < Min(atOrAbove)}), o, b)

(* safe_head_at_l1: the highest entry at or before the L1 block l1. *)
HasAnswer(db, l1) == \E l \in DOMAIN db : l <= l1

SafeHeadAtL1(db, l1) == db[Max({l \in DOMAIN db : l <= l1})]

=============================================================================
