----------------------------- MODULE CursorList -----------------------------
(***************************************************************************)
(* What a caller of ssobjects' LinkedList<T> (linkedlist.h) sees: a        *)
(* sequence of items and one cursor, m_pCurrent, shared by every traversal *)
(* of the list.  The cursor is an index into the sequence, and NoCurrent   *)
(* stands for m_pCurrent == NULL.  The pointers, the node memory and the   *)
(* dangling cursor are the subject of module LinkedList, which implements  *)
(* these operators; the servers use the operators directly.                *)
(***************************************************************************)
EXTENDS Naturals, Sequences

SE == INSTANCE SequencesExt

NoCurrent == 0

(* getHead() leaves the cursor on the first entry; an empty list leaves it *)
(* where it was.                                                           *)
HeadCursor(items, cur) == IF items = << >> THEN cur ELSE 1
TailCursor(items, cur) == IF items = << >> THEN cur ELSE Len(items)

(* Slip: the walk stops before the last entry.                             *)
NextButLast(items, cur) ==
  IF cur = NoCurrent \/ cur + 1 >= Len(items) THEN NoCurrent ELSE cur + 1

(* getNext() and getPrev() walk off either end to NULL and stay there.     *)
NextCursor(items, cur) ==
  IF cur \in {NoCurrent, Len(items)} THEN NoCurrent ELSE cur + 1
PrevCursor(cur) == IF cur = NoCurrent THEN NoCurrent ELSE cur - 1

(* addTail() and addHead() make the very first entry the current one and   *)
(* otherwise leave the cursor on the entry it was on.                      *)
CursorAfterAddTail(items, cur) == IF items = << >> THEN 1 ELSE cur
CursorAfterAddHead(items, cur) ==
  IF items = << >> THEN 1 ELSE IF cur = NoCurrent THEN cur ELSE cur + 1

(* Slip: the entry after the current one is unlinked.                      *)
WithoutNext(items, cur) ==
  SE!RemoveAt(items, IF cur = Len(items) THEN cur ELSE cur + 1)

(* removeCurrent() unlinks the current entry.  listPREV steps back to the  *)
(* entry before it -- NULL for the head, so that a following getNext()     *)
(* does not resume at the new head -- and listNEXT to the one after it.    *)
Without(items, cur) == SE!RemoveAt(items, cur)
CursorAfterRemovePrev(cur) == PrevCursor(cur)
CursorAfterRemoveNext(items, cur) == IF cur = Len(items) THEN NoCurrent ELSE cur
=============================================================================
