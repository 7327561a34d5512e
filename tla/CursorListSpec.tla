--------------------------- MODULE CursorListSpec ---------------------------
(***************************************************************************)
(* What LinkedList<T> (linkedlist.h) promises its callers: the operators   *)
(* of CursorList as a state machine.  LinkedList.tla, with the nodes and   *)
(* the pointers, is shown to implement it.                                 *)
(*                                                                         *)
(* The cursor is lost once removeHead() or removeTail() removed the entry  *)
(* it was on; the callers then move it to an end of the list before they   *)
(* use it again.                                                           *)
(***************************************************************************)
EXTENDS CursorList

CONSTANTS
  Item,   \* the objects that may be listed
  NULL    \* what a call that has nothing to return returns

VARIABLES
  items, cur,  \* the list and its cursor
  lost,        \* the entry the cursor was on has been removed
  last         \* the last call and what it returned (for an add, took)

Call(op, x) == [op |-> op, item |-> x]

Operation == {"none", "addTail", "addHead", "getHead", "getTail", "getNext",
              "getPrev", "removeHead", "removeTail", "listPREV", "listNEXT",
              "clear"}

Become(list, cursor, call) ==
  /\ items' = list /\ cur' = cursor /\ lost' = FALSE
  /\ last' = call

(* An operation that returns the entry the cursor is on after it.          *)
MoveTo(op, cursor) ==
  Become(items, cursor,
         Call(op, IF cursor = NoCurrent THEN NULL ELSE items[cursor]))

ReturnNull(op) ==
  /\ last' = Call(op, NULL)
  /\ UNCHANGED <<items, cur, lost>>

CLInit ==
  /\ items = << >> /\ cur = NoCurrent /\ lost = FALSE
  /\ last = Call("none", NULL)

AddTail(x) ==
  /\ items' = Append(items, x) /\ cur' = CursorAfterAddTail(items, cur)
  /\ lost' = (lost /\ items # << >>)
  /\ last' = Call("addTail", x)

AddHead(x) ==
  /\ items' = <<x>> \o items /\ cur' = CursorAfterAddHead(items, cur)
  /\ lost' = (lost /\ items # << >>)
  /\ last' = Call("addHead", x)

GetHead ==
  IF items = << >> THEN ReturnNull("getHead")
                   ELSE MoveTo("getHead", HeadCursor(items, cur))

GetTail ==
  IF items = << >> THEN ReturnNull("getTail")
                   ELSE MoveTo("getTail", TailCursor(items, cur))

GetNext == ~lost /\ MoveTo("getNext", NextCursor(items, cur))
GetPrev == ~lost /\ MoveTo("getPrev", PrevCursor(cur))

(* Removal of the entry at an end; a cursor elsewhere stays on its entry.  *)
RemoveAtEnd(op, end, cursor) ==
  IF items = << >> THEN ReturnNull(op)
  ELSE /\ items' = Without(items, end)
       /\ lost' = (lost \/ cur = end)
       /\ cur' = IF cur = end THEN NoCurrent ELSE cursor
       /\ last' = Call(op, items[end])

RemoveHead == RemoveAtEnd("removeHead", 1, PrevCursor(cur))
RemoveTail == RemoveAtEnd("removeTail", Len(items), cur)

RemoveCurrent(direction, cursor) ==
  /\ ~lost
  /\ IF cur = NoCurrent THEN ReturnNull(direction)
     ELSE Become(Without(items, cur), cursor, Call(direction, items[cur]))

Clear == items # << >> /\ Become(<< >>, NoCurrent, Call("clear", NULL))

CLNext ==
  \/ \E x \in Item : AddTail(x) \/ AddHead(x)
  \/ GetHead \/ GetTail \/ GetNext \/ GetPrev
  \/ RemoveHead \/ RemoveTail
  \/ RemoveCurrent("listPREV", CursorAfterRemovePrev(cur))
  \/ RemoveCurrent("listNEXT", CursorAfterRemoveNext(items, cur))
  \/ Clear

CLSpec == CLInit /\ [][CLNext]_<<items, cur, lost, last>>
=============================================================================
