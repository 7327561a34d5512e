----------------------------- MODULE LinkedList -----------------------------
(***************************************************************************)
(* LinkedList<T> of linkedlist.h, the container of every queue and client  *)
(* list of ssobjects: nodes with two pointers each, and the list's head,   *)
(* tail and current pointers.                                              *)
(*                                                                         *)
(* The heap is a function from the allocated nodes, so that a step that    *)
(* reads or writes a freed node has no meaning.  Callers use the current   *)
(* pointer only where it is not lost, as those in this repository do.      *)
(*                                                                         *)
(* The objects are the callers': that purge() deletes them and empty()     *)
(* does not, and the copies of a list, are not modelled.                   *)
(***************************************************************************)
EXTENDS CursorList, FiniteSets

CONSTANTS
  Node,   \* addresses of nodes
  Item,   \* the objects that may be listed
  NULL

ASSUME NullIsNothing == NULL \notin Node \cup Item

VARIABLES
  heap,         \* the allocated nodes
  head,         \* m_pHead
  tail,         \* m_pTail
  current,      \* m_pCurrent
  nNumEntries,  \* m_nNumEntries
  last,         \* the last call and the object it returned
  pNode,        \* purge() and empty(): the node at which their loop is, or NULL
  order,        \* history: the nodes in the order they should be linked
  lost          \* history: the node m_pCurrent was on has been deleted

pointers == <<head, tail, current, nNumEntries>>
vars == <<heap, pointers, last, pNode, order, lost>>

Call(op, x) == [op |-> op, item |-> x]

Operation == {"none", "addTail", "addHead", "getHead", "getTail", "getNext",
              "getPrev", "removeHead", "removeTail", "listPREV", "listNEXT",
              "clear"}

NewNode(x, p, n) == [item |-> x, prev |-> p, next |-> n]

(* The heap without n, and m_pPrev or m_pNext of one node, if there is     *)
(* one, set anew.                                                          *)
SetPrevNothing(h, n, p) == h     \* slip: m_pPrev of the neighbour is not set
Delete(h, n) == [m \in DOMAIN h \ {n} |-> h[m]]
SetPrev(h, n, p) == IF n = NULL THEN h ELSE [h EXCEPT ![n].prev = p]
SetNext(h, n, p) == IF n = NULL THEN h ELSE [h EXCEPT ![n].next = p]
Add(h, n, node) == [m \in DOMAIN h \cup {n} |-> IF m = n THEN node ELSE h[m]]

ItemAt(n) == IF n = NULL THEN NULL ELSE heap[n].item

Place(n) == CHOOSE i \in 1 .. Len(order) : order[i] = n

Idle == pNode = NULL

Returns(op, x) == last' = Call(op, x)

Init ==
  /\ heap = << >>
  /\ head = NULL /\ tail = NULL /\ current = NULL /\ nNumEntries = 0
  /\ last = Call("none", NULL)
  /\ pNode = NULL
  /\ order = << >> /\ lost = FALSE

-----------------------------------------------------------------------------
(* addTail() and addHead().                                                *)

Counted(n) ==
  /\ nNumEntries' = nNumEntries + 1
  /\ current' = IF nNumEntries' = 1 THEN n ELSE current
  /\ lost' = (lost /\ nNumEntries' # 1)

AddTail(x) ==
  /\ Idle
  /\ \E n \in Node \ DOMAIN heap :
       /\ heap' = Add(SetNext(heap, tail, n), n, NewNode(x, tail, NULL))
       /\ head' = IF tail = NULL THEN n ELSE head
       /\ tail' = n
       /\ Counted(n)
       /\ order' = Append(order, n)
  /\ Returns("addTail", x)
  /\ UNCHANGED pNode

AddHead(x) ==
  /\ Idle
  /\ \E n \in Node \ DOMAIN heap :
       /\ heap' = Add(SetPrev(heap, head, n), n, NewNode(x, NULL, head))
       /\ head' = n
       /\ tail' = IF tail = NULL THEN n ELSE tail
       /\ Counted(n)
       /\ order' = <<n>> \o order
  /\ Returns("addHead", x)
  /\ UNCHANGED pNode

-----------------------------------------------------------------------------
(* The traversals.                                                         *)

MoveTo(op, n) ==
  /\ current' = n /\ lost' = FALSE
  /\ Returns(op, ItemAt(n))
  /\ UNCHANGED <<heap, head, tail, nNumEntries, pNode, order>>

ReturnNull(op) ==
  /\ Returns(op, NULL)
  /\ UNCHANGED <<heap, pointers, pNode, order, lost>>

GetHead ==
  Idle /\ IF head = NULL THEN ReturnNull("getHead") ELSE MoveTo("getHead", head)

GetTail ==
  Idle /\ IF tail = NULL THEN ReturnNull("getTail") ELSE MoveTo("getTail", tail)

GetNext ==
  /\ Idle /\ ~lost
  /\ IF current = NULL THEN ReturnNull("getNext")
     ELSE MoveTo("getNext", heap[current].next)

GetPrev ==
  /\ Idle /\ ~lost
  /\ IF current = NULL THEN ReturnNull("getPrev")
     ELSE MoveTo("getPrev", heap[current].prev)

-----------------------------------------------------------------------------
(* removeHead() and removeTail() do not move m_pCurrent, which is left on  *)
(* a deleted node: "need to reassign the current pointer" (linkedlist.h).  *)

RemoveHead ==
  /\ Idle
  /\ IF head = NULL THEN ReturnNull("removeHead")
     ELSE LET next == heap[head].next IN
          /\ heap' = Delete(SetPrev(heap, next, NULL), head)
          /\ head' = next
          /\ tail' = IF next = NULL THEN NULL ELSE tail
          /\ nNumEntries' = nNumEntries - 1
          /\ Returns("removeHead", ItemAt(head))
          /\ order' = Without(order, Place(head))
          /\ lost' = (lost \/ current = head)
          /\ UNCHANGED <<current, pNode>>

RemoveTail ==
  /\ Idle
  /\ IF tail = NULL THEN ReturnNull("removeTail")
     ELSE LET prev == heap[tail].prev IN
          /\ heap' = Delete(SetNext(heap, prev, NULL), tail)
          /\ tail' = prev
          /\ head' = IF prev = NULL THEN NULL ELSE head
          /\ nNumEntries' = nNumEntries - 1
          /\ Returns("removeTail", ItemAt(tail))
          /\ order' = Without(order, Place(tail))
          /\ lost' = (lost \/ current = tail)
          /\ UNCHANGED <<current, pNode>>

(* Slip: the current pointer starts over at the head.                      *)
RemoveCurrentToHead(direction) ==
  /\ Idle /\ ~lost
  /\ IF current = NULL THEN ReturnNull(direction)
     ELSE LET prev == heap[current].prev
              next == heap[current].next
          IN
          /\ nNumEntries' = nNumEntries - 1
          /\ Returns(direction, ItemAt(current))
          /\ order' = Without(order, Place(current))
          /\ heap' = Delete(SetPrev(SetNext(heap, prev, next), next, prev), current)
          /\ head' = IF prev = NULL THEN next ELSE head
          /\ tail' = IF next = NULL THEN prev ELSE tail
          /\ current' = head'
          /\ UNCHANGED <<pNode, lost>>

RemoveCurrent(direction) ==
  /\ Idle /\ ~lost
  /\ IF current = NULL THEN ReturnNull(direction)
     ELSE LET prev == heap[current].prev
              next == heap[current].next
          IN
          /\ nNumEntries' = nNumEntries - 1
          /\ Returns(direction, ItemAt(current))
          /\ order' = Without(order, Place(current))
          /\ IF nNumEntries' = 0
               THEN /\ head' = NULL /\ tail' = NULL /\ current' = NULL
                    /\ heap' = Delete(heap, current)
               ELSE /\ heap' = Delete(SetPrev(SetNext(heap, prev, next), next, prev),
                                      current)
                    /\ head' = IF prev = NULL THEN next ELSE head
                    /\ tail' = IF prev # NULL /\ next = NULL THEN prev ELSE tail
                    /\ current' = IF direction = "listPREV" THEN prev ELSE next
          /\ UNCHANGED <<pNode, lost>>

-----------------------------------------------------------------------------
(* purge() and empty(): one node per turn of their loop.                   *)

Clear ==
  /\ Idle /\ nNumEntries # 0
  /\ pNode' = head
  /\ Returns("clear", NULL)
  /\ UNCHANGED <<heap, pointers, order, lost>>

ClearTurn ==
  /\ ~Idle
  /\ pNode' = heap[pNode].next
  /\ heap' = Delete(heap, pNode)
  /\ order' = Tail(order)
  /\ IF pNode' = NULL
       THEN /\ head' = NULL /\ tail' = NULL /\ current' = NULL
            /\ nNumEntries' = 0 /\ lost' = FALSE
       ELSE /\ nNumEntries' = nNumEntries - 1
            /\ UNCHANGED <<head, tail, current, lost>>
  /\ UNCHANGED last

Next ==
  \/ \E x \in Item : AddTail(x) \/ AddHead(x)
  \/ GetHead \/ GetTail \/ GetNext \/ GetPrev
  \/ RemoveHead \/ RemoveTail
  \/ \E direction \in {"listPREV", "listNEXT"} : RemoveCurrent(direction)
  \/ Clear \/ ClearTurn

Spec == Init /\ [][Next]_vars

-----------------------------------------------------------------------------
(* The type invariant.                                                     *)
TypeOK ==
  /\ heap \in [DOMAIN heap -> [item : Item, prev : Node \cup {NULL},
                               next : Node \cup {NULL}]]
  /\ DOMAIN heap \subseteq Node
  /\ {head, tail, current, pNode} \subseteq Node \cup {NULL}
  /\ nNumEntries \in Nat
  /\ last \in [op : Operation, item : Item \cup {NULL}]
  /\ lost \in BOOLEAN
  /\ order \in Seq(Node)

(* The pointers spell the list: from the head by m_pNext and from the tail *)
(* by m_pPrev, whichever end or middle entry was added or removed; the     *)
(* current pointer, unless it is lost, is on one of its entries; and the   *)
(* allocated nodes are those of the list: none leaks, none linked is       *)
(* deleted.                                                                *)
Linked ==
  /\ DOMAIN heap = SE!ToSet(order) /\ Cardinality(DOMAIN heap) = Len(order)
  /\ nNumEntries = Len(order)
  /\ \A i \in 1 .. Len(order) : LET node == heap[order[i]] IN
       /\ node.next = IF i = Len(order) THEN NULL ELSE order[i + 1]
       /\ Idle \/ i # 1 =>
            node.prev = IF i = 1 THEN NULL ELSE order[i - 1]
  /\ Idle => /\ head = IF order = << >> THEN NULL ELSE order[1]
             /\ tail = IF order = << >> THEN NULL ELSE order[Len(order)]
             /\ lost \/ current \in SE!ToSet(order) \cup {NULL}
  /\ ~Idle => order # << >> /\ pNode = order[1]

(* The nodes implement the sequence with a cursor of CursorListSpec; a     *)
(* list that is being purged is empty already.                             *)
CL == INSTANCE CursorListSpec WITH
  items <- IF Idle THEN [i \in 1 .. Len(order) |-> heap[order[i]].item] ELSE << >>,
  cur   <- IF ~Idle \/ lost \/ current = NULL THEN NoCurrent ELSE Place(current),
  lost  <- Idle /\ lost

ImplementsCursorList == CL!CLSpec
=============================================================================
