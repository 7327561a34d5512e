-------------------------- MODULE LinkedList_proofs --------------------------
(***************************************************************************)
(* The nodes and pointers of LinkedList<T> spell the list after any number *)
(* of operations on any number of nodes and objects, and a caller sees the *)
(* sequence with a cursor of CursorListSpec.                               *)
(***************************************************************************)
EXTENDS LinkedList, SequenceTheorems, FiniteSetTheorems, TLAPS

-----------------------------------------------------------------------------
(* What removing one entry makes of a sequence.                            *)

LEMMA WithoutEntry ==
  ASSUME NEW S, NEW s \in Seq(S), NEW i \in 1 .. Len(s)
  PROVE  /\ Without(s, i) \in Seq(S)
         /\ Len(Without(s, i)) = Len(s) - 1
         /\ \A j \in 1 .. Len(s) - 1 :
              Without(s, i)[j] = IF j < i THEN s[j] ELSE s[j + 1]
<1> DEFINE front == SubSeq(s, 1, i - 1)
           back  == SubSeq(s, i + 1, Len(s))
<1>0. Len(s) \in Nat /\ i \in Nat /\ \A j \in 1 .. Len(s) : s[j] \in S
  BY LenProperties, ElementOfSeq
<1>1. front \in Seq(S) /\ Len(front) = i - 1 /\ \A j \in 1 .. i - 1 : front[j] = s[j]
  <2>1. \A j \in 1 .. i - 1 : s[j] \in S
    BY <1>0
  <2> QED
    BY <1>0, <2>1, SubSeqProperties
<1>2. /\ back \in Seq(S) /\ Len(back) = Len(s) - i
      /\ \A j \in 1 .. Len(s) - i : back[j] = s[i + j]
  <2>1. \A j \in i + 1 .. Len(s) : s[j] \in S
    BY <1>0
  <2> QED
    BY <1>0, <2>1, SubSeqProperties
<1>3. Without(s, i) = front \o back
  BY DEF Without, SE!RemoveAt
<1> HIDE DEF front, back
<1>4. /\ front \o back \in Seq(S) /\ Len(front \o back) = Len(s) - 1
      /\ \A j \in 1 .. Len(s) - 1 :
           (front \o back)[j] = IF j < i THEN front[j] ELSE back[j - (i - 1)]
  <2>1. /\ front \o back \in Seq(S) /\ Len(front \o back) = Len(front) + Len(back)
        /\ \A j \in 1 .. Len(front) + Len(back) :
             (front \o back)[j] = IF j <= Len(front) THEN front[j] ELSE back[j - Len(front)]
    BY <1>1, <1>2, ConcatProperties
  <2>2. Len(front) = i - 1 /\ Len(front) + Len(back) = Len(s) - 1
    BY <1>0, <1>1, <1>2
  <2> QED
    BY <1>0, <2>1, <2>2
<1>5. \A j \in 1 .. Len(s) - 1 :
        (front \o back)[j] = IF j < i THEN s[j] ELSE s[j + 1]
  <2> SUFFICES ASSUME NEW j \in 1 .. Len(s) - 1
               PROVE  (front \o back)[j] = IF j < i THEN s[j] ELSE s[j + 1]
    OBVIOUS
  <2>1. CASE j < i
    BY <1>0, <1>1, <1>4, <2>1
  <2>2. CASE ~(j < i)
    <3>1. j - (i - 1) \in 1 .. Len(s) - i /\ i + (j - (i - 1)) = j + 1
      BY <1>0, <2>2
    <3> QED
      BY <1>0, <1>2, <1>4, <2>2, <3>1
  <2> QED
    BY <2>1, <2>2
<1> QED
  BY <1>3, <1>4, <1>5

-----------------------------------------------------------------------------
(* The heap and the sequence it spells.                                    *)

Ref == Node \cup {NULL}
Members(o) == {o[i] : i \in 1 .. Len(o)}
At(o, i) == IF i \in 1 .. Len(o) THEN o[i] ELSE NULL
Distinct(o) == \A i, j \in 1 .. Len(o) : o[i] = o[j] => i = j

IsHeap(h) ==
  DOMAIN h \subseteq Node /\ h \in [DOMAIN h -> [item : Item, prev : Ref, next : Ref]]

(* Only purge() and empty(), which free the nodes from the head on, leave  *)
(* m_pPrev of the first one behind: the list is not whole.                 *)
Chain(h, o, whole) ==
  /\ o \in Seq(Node) /\ Distinct(o)
  /\ IsHeap(h) /\ DOMAIN h = Members(o)
  /\ \A i \in 1 .. Len(o) : h[o[i]].next = At(o, i + 1)
  /\ \A i \in 1 .. Len(o) : whole \/ i # 1 => h[o[i]].prev = At(o, i - 1)

(* No purge() is under way.                                                *)
Whole(h, o) == Chain(h, o, TRUE)

LInv ==
  /\ Chain(heap, order, Idle)
  /\ nNumEntries = Len(order)
  /\ lost \in BOOLEAN
  /\ Idle => /\ head = At(order, 1) /\ tail = At(order, Len(order))
             /\ lost \/ current \in DOMAIN heap \cup {NULL}
  /\ ~Idle => order # << >> /\ pNode = order[1]

(* g is h with m_pPrev, or m_pNext, of n set to p.                         *)
PrevSet(g, h, n, p) ==
  /\ IsHeap(g) /\ DOMAIN g = DOMAIN h
  /\ \A m \in DOMAIN h : /\ g[m].item = h[m].item /\ g[m].next = h[m].next
                         /\ g[m].prev = IF m = n THEN p ELSE h[m].prev

NextSet(g, h, n, p) ==
  /\ IsHeap(g) /\ DOMAIN g = DOMAIN h
  /\ \A m \in DOMAIN h : /\ g[m].item = h[m].item /\ g[m].prev = h[m].prev
                         /\ g[m].next = IF m = n THEN p ELSE h[m].next

LEMMA SetPrevFields ==
  ASSUME NEW h, IsHeap(h), NEW n \in DOMAIN h \cup {NULL}, NEW p \in Ref
  PROVE  PrevSet(SetPrev(h, n, p), h, n, p)
<1>1. CASE n = NULL
  BY <1>1, NullIsNothing DEF SetPrev, IsHeap, PrevSet
<1>2. CASE n # NULL
  BY <1>2 DEF SetPrev, IsHeap, PrevSet
<1> QED
  BY <1>1, <1>2

LEMMA SetNextFields ==
  ASSUME NEW h, IsHeap(h), NEW n \in DOMAIN h \cup {NULL}, NEW p \in Ref
  PROVE  NextSet(SetNext(h, n, p), h, n, p)
<1>1. CASE n = NULL
  BY <1>1, NullIsNothing DEF SetNext, IsHeap, NextSet
<1>2. CASE n # NULL
  BY <1>2 DEF SetNext, IsHeap, NextSet
<1> QED
  BY <1>1, <1>2

LEMMA DeleteFields ==
  ASSUME NEW h, IsHeap(h), NEW n \in DOMAIN h
  PROVE  /\ IsHeap(Delete(h, n)) /\ DOMAIN Delete(h, n) = DOMAIN h \ {n}
         /\ \A m \in DOMAIN h \ {n} : Delete(h, n)[m] = h[m]
  BY DEF Delete, IsHeap

(* g is h and the node n.                                                  *)
Added(g, h, n, p, q) ==
  /\ IsHeap(g) /\ DOMAIN g = DOMAIN h \cup {n}
  /\ \A m \in DOMAIN h : g[m] = h[m]
  /\ g[n].prev = p /\ g[n].next = q

LEMMA AddFields ==
  ASSUME NEW h, IsHeap(h), NEW n \in Node \ DOMAIN h, NEW x \in Item,
         NEW p \in Ref, NEW q \in Ref
  PROVE  Added(Add(h, n, NewNode(x, p, q)), h, n, p, q)
  BY DEF Add, IsHeap, NewNode, Added

(* removeCurrent() on the entry k; removeHead() and removeTail() are the   *)
(* cases of the first and of the last entry, where one neighbour is NULL.  *)
Shrunk(g, w, h, o, k, p, q) ==
  /\ Whole(g, w) /\ Len(w) = Len(o) - 1 /\ DOMAIN g = DOMAIN h \ {o[k]}
  /\ \A m \in DOMAIN g : g[m].item = h[m].item
  /\ p \in DOMAIN g \cup {NULL} /\ q \in DOMAIN g \cup {NULL}
  /\ At(w, 1) = IF p = NULL THEN q ELSE At(o, 1)
  /\ At(w, Len(o) - 1) = IF q = NULL THEN p ELSE At(o, Len(o))

LEMMA Unlink ==
  ASSUME NEW h, NEW o, Whole(h, o), NEW k \in 1 .. Len(o), NEW p, NEW q,
         p = h[o[k]].prev, q = h[o[k]].next, NEW w, w = Without(o, k),
         NEW g, g = Delete(SetPrev(SetNext(h, p, q), q, p), o[k])
  PROVE  Shrunk(g, w, h, o, k, p, q)
<1>1. /\ Len(o) \in Nat /\ k \in Nat /\ \A i \in 1 .. Len(o) : o[i] \in Node
      /\ \A i \in 1 .. Len(o) : o[i] # NULL
  BY LenProperties, ElementOfSeq, NullIsNothing DEF Chain, Whole
<1>2. /\ w \in Seq(Node) /\ Len(w) = Len(o) - 1
      /\ \A i \in 1 .. Len(o) - 1 : w[i] = IF i < k THEN o[i] ELSE o[i + 1]
  BY WithoutEntry DEF Chain, Whole
<1>3. p = At(o, k - 1) /\ q = At(o, k + 1)
  BY DEF Chain, Whole
<1>a. \A i \in 1 .. Len(o) : o[i] \in DOMAIN h /\ (i # k => o[i] # o[k])
  BY <1>1 DEF Chain, Whole, Distinct, Members
<1>b. \A i, j \in 1 .. Len(o) : o[i] = o[j] => i = j
  BY DEF Chain, Whole, Distinct
<1>c. \A i \in 1 .. Len(o) : h[o[i]].next = At(o, i + 1) /\ h[o[i]].prev = At(o, i - 1)
  BY DEF Chain, Whole
<1>4. p \in (DOMAIN h \ {o[k]}) \cup {NULL} /\ q \in (DOMAIN h \ {o[k]}) \cup {NULL}
  <2>1. p \in (DOMAIN h \ {o[k]}) \cup {NULL}
    BY <1>1, <1>3, <1>a DEF At
  <2>2. q \in (DOMAIN h \ {o[k]}) \cup {NULL}
    BY <1>1, <1>3, <1>a DEF At
  <2> QED
    BY <2>1, <2>2
<1>5. o[k] \in DOMAIN h /\ p \in Ref /\ q \in Ref
  BY <1>1, <1>3 DEF Chain, Whole, At, Members, Ref
<1>6. /\ IsHeap(g) /\ DOMAIN g = DOMAIN h \ {o[k]}
      /\ \A m \in DOMAIN g : /\ g[m].item = h[m].item
                             /\ g[m].next = IF m = p THEN q ELSE h[m].next
                             /\ g[m].prev = IF m = q THEN p ELSE h[m].prev
  <2> DEFINE a == SetNext(h, p, q)
             b == SetPrev(a, q, p)
  <2>1. NextSet(a, h, p, q)
    <3>1. IsHeap(h) /\ p \in DOMAIN h \cup {NULL}
      BY <1>4 DEF Chain, Whole
    <3> QED
      BY <1>5, <3>1, SetNextFields
  <2> HIDE DEF a
  <2>2. PrevSet(b, a, q, p)
    <3>1. q \in DOMAIN a \cup {NULL}
      BY <1>4, <2>1 DEF NextSet
    <3> QED
      BY <1>5, <2>1, <3>1, SetPrevFields DEF NextSet
  <2> HIDE DEF b
  <2>3. /\ IsHeap(Delete(b, o[k])) /\ DOMAIN Delete(b, o[k]) = DOMAIN b \ {o[k]}
        /\ \A m \in DOMAIN b \ {o[k]} : Delete(b, o[k])[m] = b[m]
    BY <1>5, <2>1, <2>2, DeleteFields DEF NextSet, PrevSet
  <2> QED
    <3>1. g = Delete(b, o[k])
      BY DEF a, b
    <3>2. IsHeap(g) /\ DOMAIN g = DOMAIN h \ {o[k]}
      BY <2>1, <2>2, <2>3, <3>1 DEF NextSet, PrevSet
    <3>3. ASSUME NEW m \in DOMAIN g
          PROVE  /\ g[m].item = h[m].item
                 /\ g[m].next = IF m = p THEN q ELSE h[m].next
                 /\ g[m].prev = IF m = q THEN p ELSE h[m].prev
      BY <2>1, <2>2, <2>3, <3>1, <3>2 DEF NextSet, PrevSet
    <3> QED
      BY <3>2, <3>3
<1>7. Distinct(w)
  <2> SUFFICES ASSUME NEW i \in 1 .. Len(w), NEW j \in 1 .. Len(w), w[i] = w[j] PROVE i = j
    BY DEF Distinct
  <2> DEFINE up(m) == IF m < k THEN m ELSE m + 1
  <2>1. /\ up(i) \in 1 .. Len(o) /\ up(j) \in 1 .. Len(o)
        /\ w[i] = o[up(i)] /\ w[j] = o[up(j)]
    BY <1>1, <1>2
  <2>2. up(i) = up(j)
    BY <2>1 DEF Chain, Whole, Distinct
  <2> QED
    BY <1>1, <1>2, <2>2
<1>8. DOMAIN g = Members(w)
  <2>1. ASSUME NEW i \in 1 .. Len(w) PROVE w[i] \in DOMAIN g
    <3>1. CASE i < k
      <4>1. i \in 1 .. Len(o) /\ i # k /\ w[i] = o[i]
        BY <1>1, <1>2, <3>1
      <4> QED
        BY <1>6, <1>a, <4>1
    <3>2. CASE i >= k
      <4>1. i + 1 \in 1 .. Len(o) /\ i + 1 # k /\ w[i] = o[i + 1]
        BY <1>1, <1>2, <3>2
      <4> QED
        BY <1>6, <1>a, <4>1
    <3> QED
      BY <1>1, <3>1, <3>2
  <2>2. ASSUME NEW i \in 1 .. Len(o), i # k PROVE o[i] \in Members(w)
    <3>1. CASE i < k
      BY <1>1, <1>2, <3>1 DEF Members
    <3>2. CASE i > k
      <4>1. i - 1 \in 1 .. Len(w) /\ w[i - 1] = o[i]
        BY <1>1, <1>2, <3>2
      <4> QED
        BY <4>1 DEF Members
    <3> QED
      BY <1>1, <2>2, <3>1, <3>2
  <2>3. ASSUME NEW m \in DOMAIN g PROVE m \in Members(w)
    <3>1. PICK i \in 1 .. Len(o) : m = o[i]
      BY <1>6 DEF Chain, Whole, Members
    <3> QED
      BY <1>6, <2>2, <3>1
  <2>4. ASSUME NEW m \in Members(w) PROVE m \in DOMAIN g
    BY <2>1 DEF Members
  <2> QED
    BY <2>3, <2>4
<1>9. ASSUME NEW i \in 1 .. Len(w) PROVE w[i] \in DOMAIN g
  BY <1>8 DEF Members
<1>10. ASSUME NEW i \in 1 .. Len(w) PROVE g[w[i]].next = At(w, i + 1)
  <2>1. g[w[i]].next = IF w[i] = p THEN q ELSE h[w[i]].next
    BY <1>6, <1>9
  <2>2. CASE i < k - 1
    <3>1. w[i] = o[i] /\ i \in 1 .. Len(o) /\ k - 1 \in 1 .. Len(o)
      BY <1>1, <1>2, <2>2
    <3>2. w[i] # p
      BY <1>1, <1>3, <1>b, <2>2, <3>1 DEF At
    <3>3. h[w[i]].next = At(o, i + 1)
      BY <1>1, <1>c, <3>1
    <3> QED
      <4>1. At(o, i + 1) = At(w, i + 1)
        BY <1>1, <1>2, <2>2 DEF At
      <4> QED
        BY <2>1, <3>1, <3>2, <3>3, <4>1
  <2>3. CASE i = k - 1
    BY <1>1, <1>2, <1>3, <2>1, <2>3 DEF At
  <2>4. CASE i >= k
    <3>1. w[i] = o[i + 1] /\ i + 1 \in 1 .. Len(o) /\ w[i] # p
      BY <1>1, <1>2, <1>3, <1>b, <2>4 DEF At
    <3>2. h[w[i]].next = At(o, i + 2)
      <4>1. h[o[i + 1]].next = At(o, (i + 1) + 1) /\ (i + 1) + 1 = i + 2
        BY <1>c, <3>1
      <4> QED
        BY <3>1, <4>1
    <3> QED
      <4>1. At(o, i + 2) = At(w, i + 1)
        BY <1>1, <1>2, <2>4 DEF At
      <4> QED
        BY <2>1, <3>1, <3>2, <4>1
  <2>5. i < k - 1 \/ i = k - 1 \/ i >= k
    BY <1>1
  <2> QED
    BY <2>2, <2>3, <2>4, <2>5
<1>11. ASSUME NEW i \in 1 .. Len(w) PROVE g[w[i]].prev = At(w, i - 1)
  <2>1. g[w[i]].prev = IF w[i] = q THEN p ELSE h[w[i]].prev
    BY <1>6, <1>9
  <2>2. CASE i < k
    <3>1. w[i] = o[i] /\ i \in 1 .. Len(o) /\ w[i] # NULL
      BY <1>1, <1>2, <2>2
    <3>2. w[i] # q
      BY <1>1, <1>3, <1>b, <2>2, <3>1 DEF At
    <3>3. h[w[i]].prev = At(o, i - 1)
      BY <1>1, <1>c, <3>1
    <3> QED
      <4>1. At(o, i - 1) = At(w, i - 1)
        BY <1>1, <1>2, <2>2 DEF At
      <4> QED
        BY <2>1, <3>1, <3>2, <3>3, <4>1
  <2>3. CASE i = k
    BY <1>1, <1>2, <1>3, <2>1, <2>3 DEF At
  <2>4. CASE i > k
    <3>1. w[i] = o[i + 1] /\ i + 1 \in 1 .. Len(o) /\ w[i] # q
      BY <1>1, <1>2, <1>3, <1>b, <2>4 DEF At
    <3>2. h[w[i]].prev = At(o, i)
      <4>1. h[o[i + 1]].prev = At(o, (i + 1) - 1) /\ (i + 1) - 1 = i
        BY <1>c, <3>1
      <4> QED
        BY <3>1, <4>1
    <3> QED
      <4>1. At(o, i) = At(w, i - 1)
        BY <1>1, <1>2, <2>4 DEF At
      <4> QED
        BY <2>1, <3>1, <3>2, <4>1
  <2>5. i < k \/ i = k \/ i > k
    BY <1>1
  <2> QED
    BY <2>2, <2>3, <2>4, <2>5
<1>12. Whole(g, w)
  BY <1>2, <1>6, <1>7, <1>8, <1>10, <1>11 DEF Chain, Whole
<1>13. /\ At(w, 1) = IF p = NULL THEN q ELSE At(o, 1)
       /\ At(w, Len(o) - 1) = IF q = NULL THEN p ELSE At(o, Len(o))
  BY <1>1, <1>2, <1>3 DEF At
<1> QED
  BY <1>2, <1>4, <1>6, <1>12, <1>13 DEF Shrunk

(* addTail() and addHead(): the heap g and the sequence w are h and o and  *)
(* the node n at one end.                                                  *)
Grown(g, w, h, o, n) ==
  /\ Whole(g, w) /\ Len(w) = Len(o) + 1 /\ DOMAIN g = DOMAIN h \cup {n}
  /\ \A m \in DOMAIN h : g[m].item = h[m].item
GrownTail(g, w, h, o, n, p) ==
  /\ Grown(g, w, h, o, n)
  /\ At(w, Len(o) + 1) = n /\ At(w, 1) = IF p = NULL THEN n ELSE At(o, 1)
GrownHead(g, w, h, o, n, q) ==
  /\ Grown(g, w, h, o, n)
  /\ At(w, 1) = n /\ At(w, Len(o) + 1) = IF q = NULL THEN n ELSE At(o, Len(o))

LEMMA LinkTail ==
  ASSUME NEW h, NEW o, Whole(h, o), NEW n \in Node \ DOMAIN h, NEW p, p = At(o, Len(o)),
         NEW w, w = Append(o, n),
         NEW g, \E x \in Item : g = Add(SetNext(h, p, n), n, NewNode(x, p, NULL))
  PROVE  GrownTail(g, w, h, o, n, p)
<1> PICK x \in Item : g = Add(SetNext(h, p, n), n, NewNode(x, p, NULL))
  OBVIOUS
<1> DEFINE a == SetNext(h, p, n)
<1>1. /\ Len(o) \in Nat /\ n # NULL /\ n \in Ref /\ NULL \in Ref
      /\ \A i \in 1 .. Len(o) : o[i] \in DOMAIN h /\ o[i] \in Node /\ o[i] # NULL /\ o[i] # n
  <2>1. Len(o) \in Nat /\ \A i \in 1 .. Len(o) : o[i] \in Node
    BY LenProperties, ElementOfSeq DEF Chain, Whole
  <2> QED
    BY <2>1, NullIsNothing DEF Chain, Whole, Members, Ref
<1>2. /\ w \in Seq(Node) /\ Len(w) = Len(o) + 1
      /\ \A i \in 1 .. Len(o) : w[i] = o[i]
      /\ w[Len(o) + 1] = n
  BY AppendProperties DEF Chain, Whole
<1>3. p \in DOMAIN h \cup {NULL} /\ p \in Ref
  BY <1>1 DEF At, Ref
<1>4. NextSet(a, h, p, n)
  BY <1>1, <1>3, SetNextFields DEF Chain, Whole
<1> HIDE DEF a
<1>5. /\ IsHeap(g) /\ DOMAIN g = DOMAIN h \cup {n}
      /\ \A m \in DOMAIN h : g[m] = a[m] /\ g[m].item = h[m].item
      /\ g[n].prev = p /\ g[n].next = NULL
  <2>1. Added(g, a, n, p, NULL)
    BY <1>1, <1>3, <1>4, AddFields DEF NextSet, a
  <2> QED
    BY <1>4, <2>1 DEF Added, NextSet
<1>6. Distinct(w)
  <2> SUFFICES ASSUME NEW i \in 1 .. Len(w), NEW j \in 1 .. Len(w), w[i] = w[j] PROVE i = j
    BY DEF Distinct
  <2>1. CASE i \in 1 .. Len(o) /\ j \in 1 .. Len(o)
    BY <1>2, <2>1 DEF Chain, Whole, Distinct
  <2> QED
    BY <1>1, <1>2, <2>1
<1>7. DOMAIN g = Members(w)
  <2>1. ASSUME NEW m \in DOMAIN g PROVE m \in Members(w)
    <3>1. CASE m = n
      BY <1>1, <1>2, <3>1 DEF Members
    <3>2. CASE m \in DOMAIN h
      <4>1. PICK i \in 1 .. Len(o) : m = o[i]
        BY <3>2 DEF Chain, Whole, Members
      <4> QED
        BY <1>1, <1>2, <4>1 DEF Members
    <3> QED
      BY <1>5, <3>1, <3>2
  <2>2. ASSUME NEW i \in 1 .. Len(w) PROVE w[i] \in DOMAIN g
    BY <1>1, <1>2, <1>5
  <2> QED
    BY <2>1, <2>2 DEF Members
<1>8. ASSUME NEW i \in 1 .. Len(w)
      PROVE  g[w[i]].next = At(w, i + 1) /\ g[w[i]].prev = At(w, i - 1)
  <2>1. CASE i = Len(o) + 1
    <3>1. At(w, i + 1) = NULL /\ At(w, i - 1) = p
      BY <1>1, <1>2, <2>1 DEF At
    <3> QED
      BY <1>2, <1>5, <2>1, <3>1
  <2>2. CASE i \in 1 .. Len(o)
    <3>1. /\ g[w[i]].next = IF o[i] = p THEN n ELSE h[o[i]].next
          /\ g[w[i]].prev = h[o[i]].prev
      BY <1>1, <1>2, <1>4, <1>5, <2>2 DEF NextSet
    <3>2. h[o[i]].next = At(o, i + 1) /\ h[o[i]].prev = At(o, i - 1)
      BY <2>2 DEF Chain, Whole
    <3>3. o[i] = p <=> i = Len(o)
      BY <1>1, <2>2 DEF Chain, Whole, Distinct, At
    <3>4. At(w, i - 1) = At(o, i - 1)
      BY <1>1, <1>2, <2>2 DEF At
    <3>5. At(w, i + 1) = IF i = Len(o) THEN n ELSE At(o, i + 1)
      BY <1>1, <1>2, <2>2 DEF At
    <3> QED
      BY <3>1, <3>2, <3>3, <3>4, <3>5
  <2> QED
    BY <1>1, <1>2, <2>1, <2>2
<1>9. Whole(g, w)
  BY <1>2, <1>5, <1>6, <1>7, <1>8 DEF Chain, Whole
<1>10. At(w, Len(o) + 1) = n /\ At(w, 1) = IF p = NULL THEN n ELSE At(o, 1)
  BY <1>1, <1>2 DEF At
<1> QED
  BY <1>2, <1>5, <1>9, <1>10 DEF Grown, GrownTail

LEMMA LinkHead ==
  ASSUME NEW h, NEW o, Whole(h, o), NEW n \in Node \ DOMAIN h, NEW q, q = At(o, 1),
         NEW w, w = <<n>> \o o,
         NEW g, \E x \in Item : g = Add(SetPrev(h, q, n), n, NewNode(x, NULL, q))
  PROVE  GrownHead(g, w, h, o, n, q)
<1> PICK x \in Item : g = Add(SetPrev(h, q, n), n, NewNode(x, NULL, q))
  OBVIOUS
<1> DEFINE a == SetPrev(h, q, n)
<1>1. /\ Len(o) \in Nat /\ n # NULL /\ n \in Ref /\ NULL \in Ref
      /\ \A i \in 1 .. Len(o) : o[i] \in DOMAIN h /\ o[i] \in Node /\ o[i] # NULL /\ o[i] # n
  <2>1. Len(o) \in Nat /\ \A i \in 1 .. Len(o) : o[i] \in Node
    BY LenProperties, ElementOfSeq DEF Chain, Whole
  <2> QED
    BY <2>1, NullIsNothing DEF Chain, Whole, Members, Ref
<1>2. /\ w \in Seq(Node) /\ Len(w) = Len(o) + 1 /\ w[1] = n
      /\ \A i \in 2 .. Len(o) + 1 : w[i] = o[i - 1]
  <2>1. <<n>> \in Seq(Node) /\ Len(<<n>>) = 1 /\ <<n>>[1] = n
    OBVIOUS
  <2>2. /\ w \in Seq(Node) /\ Len(w) = Len(<<n>>) + Len(o)
        /\ \A i \in 1 .. Len(<<n>>) + Len(o) :
             w[i] = IF i <= Len(<<n>>) THEN <<n>>[i] ELSE o[i - Len(<<n>>)]
    BY <2>1, ConcatProperties DEF Chain, Whole
  <2> QED
    BY <1>1, <2>1, <2>2
<1>3. q \in DOMAIN h \cup {NULL} /\ q \in Ref
  BY <1>1 DEF At, Ref
<1>4. PrevSet(a, h, q, n)
  BY <1>1, <1>3, SetPrevFields DEF Chain, Whole
<1> HIDE DEF a
<1>5. /\ IsHeap(g) /\ DOMAIN g = DOMAIN h \cup {n}
      /\ \A m \in DOMAIN h : g[m] = a[m] /\ g[m].item = h[m].item
      /\ g[n].prev = NULL /\ g[n].next = q
  <2>1. Added(g, a, n, NULL, q)
    BY <1>1, <1>3, <1>4, AddFields DEF PrevSet, a
  <2> QED
    BY <1>4, <2>1 DEF Added, PrevSet
<1>6. Distinct(w)
  <2> SUFFICES ASSUME NEW i \in 1 .. Len(w), NEW j \in 1 .. Len(w), w[i] = w[j] PROVE i = j
    BY DEF Distinct
  <2>1. CASE i # 1 /\ j # 1
    <3>1. /\ i - 1 \in 1 .. Len(o) /\ j - 1 \in 1 .. Len(o) /\ i \in Nat /\ j \in Nat
          /\ o[i - 1] = o[j - 1]
      BY <1>1, <1>2, <2>1
    <3>2. i - 1 = j - 1
      BY <3>1 DEF Chain, Whole, Distinct
    <3> QED
      BY <3>1, <3>2
  <2>2. ASSUME NEW m \in 1 .. Len(w), m # 1 PROVE w[m] # n
    <3>1. m - 1 \in 1 .. Len(o) /\ w[m] = o[m - 1]
      BY <1>1, <1>2, <2>2
    <3> QED
      BY <1>1, <3>1
  <2> QED
    BY <1>2, <2>1, <2>2
<1>7. DOMAIN g = Members(w)
  <2>1. ASSUME NEW m \in DOMAIN g PROVE m \in Members(w)
    <3>1. CASE m = n
      BY <1>1, <1>2, <3>1 DEF Members
    <3>2. CASE m \in DOMAIN h
      <4>1. PICK i \in 1 .. Len(o) : m = o[i]
        BY <3>2 DEF Chain, Whole, Members
      <4>2. i + 1 \in 1 .. Len(w) /\ w[i + 1] = m
        BY <1>1, <1>2, <4>1
      <4> QED
        BY <4>2 DEF Members
    <3> QED
      BY <1>5, <3>1, <3>2
  <2>2. ASSUME NEW i \in 1 .. Len(w) PROVE w[i] \in DOMAIN g
    <3>1. CASE i = 1
      BY <1>2, <1>5, <3>1
    <3>2. CASE i # 1
      <4>1. i - 1 \in 1 .. Len(o) /\ w[i] = o[i - 1]
        BY <1>1, <1>2, <3>2
      <4> QED
        BY <1>1, <1>5, <4>1
    <3> QED
      BY <3>1, <3>2
  <2> QED
    BY <2>1, <2>2 DEF Members
<1>8. ASSUME NEW i \in 1 .. Len(w)
      PROVE  g[w[i]].next = At(w, i + 1) /\ g[w[i]].prev = At(w, i - 1)
  <2>1. CASE i = 1
    <3>1. At(w, 2) = q /\ At(w, 0) = NULL
      BY <1>1, <1>2 DEF At
    <3> QED
      BY <1>2, <1>5, <2>1, <3>1
  <2>2. CASE i # 1
    <3> DEFINE j == i - 1
    <3>1. j \in 1 .. Len(o) /\ w[i] = o[j] /\ i = j + 1
      BY <1>1, <1>2, <2>2
    <3> HIDE DEF j
    <3>2. /\ g[w[i]].prev = IF o[j] = q THEN n ELSE h[o[j]].prev
          /\ g[w[i]].next = h[o[j]].next
      BY <1>1, <1>4, <1>5, <3>1 DEF PrevSet
    <3>3. h[o[j]].next = At(o, j + 1) /\ h[o[j]].prev = At(o, j - 1)
      BY <3>1 DEF Chain, Whole
    <3>4. o[j] = q <=> j = 1
      BY <1>1, <3>1 DEF Chain, Whole, Distinct, At
    <3>5. At(w, i + 1) = At(o, j + 1)
      BY <1>1, <1>2, <3>1 DEF At
    <3>6. At(w, i - 1) = IF j = 1 THEN n ELSE At(o, j - 1)
      BY <1>1, <1>2, <3>1 DEF At
    <3> QED
      BY <3>2, <3>3, <3>4, <3>5, <3>6
  <2> QED
    BY <2>1, <2>2
<1>9. Whole(g, w)
  BY <1>2, <1>5, <1>6, <1>7, <1>8 DEF Chain, Whole
<1>10. At(w, 1) = n /\ At(w, Len(o) + 1) = IF q = NULL THEN n ELSE At(o, Len(o))
  BY <1>1, <1>2 DEF At
<1> QED
  BY <1>2, <1>5, <1>9, <1>10 DEF Grown, GrownHead

(* One turn of the loop of purge() and empty().                            *)
LEMMA UnlinkFirst ==
  ASSUME NEW h, NEW o, NEW whole, Chain(h, o, whole), o # << >>
  PROVE  /\ Chain(Delete(h, o[1]), Tail(o), FALSE)
         /\ Len(Tail(o)) = Len(o) - 1
         /\ h[o[1]].next = IF Tail(o) = << >> THEN NULL ELSE Tail(o)[1]
<1> DEFINE w == Tail(o)
           g == Delete(h, o[1])
<1>1. /\ Len(o) \in Nat /\ Len(o) # 0 /\ 1 \in 1 .. Len(o)
      /\ \A i \in 1 .. Len(o) : o[i] \in DOMAIN h /\ o[i] \in Node /\ o[i] # NULL
  <2>1. Len(o) \in Nat /\ Len(o) # 0 /\ \A i \in 1 .. Len(o) : o[i] \in Node
    BY LenProperties, ElementOfSeq, EmptySeq DEF Chain, Whole
  <2> QED
    BY <2>1, NullIsNothing DEF Chain, Whole, Members
<1>2. /\ w \in Seq(Node) /\ Len(w) = Len(o) - 1
      /\ \A i \in 1 .. Len(w) : w[i] = o[i + 1]
  BY HeadTailProperties DEF Chain, Whole
<1>3. IsHeap(g) /\ DOMAIN g = DOMAIN h \ {o[1]} /\ \A m \in DOMAIN h \ {o[1]} : g[m] = h[m]
  BY <1>1, DeleteFields DEF Chain, Whole
<1> HIDE DEF w, g
<1>4. Distinct(w)
  <2> SUFFICES ASSUME NEW i \in 1 .. Len(w), NEW j \in 1 .. Len(w), w[i] = w[j] PROVE i = j
    BY DEF Distinct
  <2>1. i + 1 \in 1 .. Len(o) /\ j + 1 \in 1 .. Len(o) /\ o[i + 1] = o[j + 1]
    BY <1>1, <1>2
  <2>2. i + 1 = j + 1
    BY <2>1 DEF Chain, Whole, Distinct
  <2> QED
    BY <2>2
<1>5. ASSUME NEW i \in 1 .. Len(w)
      PROVE  w[i] = o[i + 1] /\ i + 1 \in 1 .. Len(o) /\ w[i] \in DOMAIN g
  <2>1. w[i] = o[i + 1] /\ i + 1 \in 1 .. Len(o) /\ i + 1 # 1
    BY <1>1, <1>2
  <2>2. o[i + 1] # o[1]
    BY <1>1, <2>1 DEF Chain, Whole, Distinct
  <2> QED
    BY <1>1, <1>3, <2>1, <2>2
<1>6. DOMAIN g = Members(w)
  <2>1. ASSUME NEW m \in DOMAIN g PROVE m \in Members(w)
    <3>1. PICK i \in 1 .. Len(o) : m = o[i]
      BY <1>3 DEF Chain, Whole, Members
    <3>2. i # 1
      BY <1>3, <3>1
    <3>3. i - 1 \in 1 .. Len(w) /\ w[i - 1] = m
      BY <1>1, <1>2, <3>1, <3>2
    <3> QED
      BY <3>3 DEF Members
  <2> QED
    BY <1>5, <2>1 DEF Members
<1>7. ASSUME NEW i \in 1 .. Len(w)
      PROVE  g[w[i]].next = At(w, i + 1) /\ (i # 1 => g[w[i]].prev = At(w, i - 1))
  <2>1. g[w[i]] = h[o[i + 1]]
    BY <1>3, <1>5
  <2>2. h[o[i + 1]].next = At(o, i + 2) /\ h[o[i + 1]].prev = At(o, i)
    BY <1>1, <1>5 DEF Chain, Whole
  <2>3. At(o, i + 2) = At(w, i + 1) /\ (i # 1 => At(o, i) = At(w, i - 1))
    BY <1>1, <1>2 DEF At
  <2> QED
    BY <2>1, <2>2, <2>3
<1>8. Chain(g, w, FALSE)
  BY <1>2, <1>3, <1>4, <1>6, <1>7 DEF Chain, Whole
<1>9. h[o[1]].next = IF w = << >> THEN NULL ELSE w[1]
  <2>1. h[o[1]].next = At(o, 2)
    BY <1>1 DEF Chain, Whole
  <2>2. w = << >> <=> Len(o) = 1
    BY <1>1, <1>2, EmptySeq
  <2> QED
    BY <1>1, <1>2, <2>1, <2>2 DEF At
<1> QED
  BY <1>2, <1>8, <1>9 DEF w, g

-----------------------------------------------------------------------------
(* The invariant.                                                          *)

LEMMA Entries ==
  ASSUME LInv
  PROVE  /\ Len(order) \in Nat /\ (order = << >> <=> Len(order) = 0)
         /\ \A i \in 1 .. Len(order) :
              order[i] \in DOMAIN heap /\ order[i] \in Node /\ order[i] # NULL
         /\ At(order, 1) = NULL <=> order = << >>
         /\ At(order, Len(order)) = NULL <=> order = << >>
         /\ At(order, 1) \in DOMAIN heap \cup {NULL}
         /\ At(order, Len(order)) \in DOMAIN heap \cup {NULL}
<1>1. /\ Len(order) \in Nat /\ (order = << >> <=> Len(order) = 0)
      /\ \A i \in 1 .. Len(order) : order[i] \in Node
  BY LenProperties, ElementOfSeq, EmptySeq DEF LInv, Chain, Whole
<1>2. \A i \in 1 .. Len(order) : order[i] \in DOMAIN heap /\ order[i] # NULL
  BY <1>1, NullIsNothing DEF LInv, Chain, Whole, Members
<1>3. /\ At(order, 1) = NULL <=> order = << >>
      /\ At(order, 1) \in DOMAIN heap \cup {NULL}
  BY <1>1, <1>2 DEF At
<1>4. /\ At(order, Len(order)) = NULL <=> order = << >>
      /\ At(order, Len(order)) \in DOMAIN heap \cup {NULL}
  BY <1>1, <1>2 DEF At
<1> QED
  BY <1>1, <1>2, <1>3, <1>4

LEMMA Placed ==
  ASSUME LInv, NEW n \in DOMAIN heap
  PROVE  Place(n) \in 1 .. Len(order) /\ order[Place(n)] = n
<1>1. \E i \in 1 .. Len(order) : order[i] = n
  BY DEF LInv, Chain, Whole, Members
<1> QED
  BY <1>1, Zenon DEF Place

(* The nodes that the node n points to are its neighbours in the list.     *)
LEMMA Neighbours ==
  ASSUME LInv, Idle, NEW n \in DOMAIN heap
  PROVE  /\ heap[n].prev = At(order, Place(n) - 1)
         /\ heap[n].next = At(order, Place(n) + 1)
         /\ heap[n].prev \in DOMAIN heap \cup {NULL}
         /\ heap[n].next \in DOMAIN heap \cup {NULL}
<1>1. Place(n) \in 1 .. Len(order) /\ order[Place(n)] = n /\ Len(order) \in Nat
  BY Placed, Entries
<1>2. heap[n].prev = At(order, Place(n) - 1) /\ heap[n].next = At(order, Place(n) + 1)
  BY <1>1 DEF LInv, Chain, Whole
<1>3. heap[n].prev \in DOMAIN heap \cup {NULL}
  BY <1>1, <1>2, Entries DEF At
<1>4. heap[n].next \in DOMAIN heap \cup {NULL}
  BY <1>1, <1>2, Entries DEF At
<1> QED
  BY <1>2, <1>3, <1>4

LEMMA InitLinked == Init => LInv
<1> SUFFICES ASSUME Init PROVE LInv
  OBVIOUS
<1>1. << >> \in Seq(Node) /\ Len(<< >>) = 0
  OBVIOUS
<1>2. IsHeap(heap) /\ DOMAIN heap = {}
  BY DEF Init, IsHeap
<1>3. DOMAIN heap = Members(order)
  BY <1>1, <1>2 DEF Init, Members
<1>4. Chain(heap, order, Idle)
  BY <1>1, <1>2, <1>3 DEF Init, Chain, Whole, Distinct
<1>5. At(order, 1) = NULL /\ At(order, Len(order)) = NULL
  BY <1>1 DEF Init, At
<1> QED
  BY <1>1, <1>4, <1>5 DEF Init, LInv, Idle

LEMMA MoveKeeps ==
  ASSUME LInv, Idle, NEW op, NEW n \in DOMAIN heap \cup {NULL},
         MoveTo(op, n) \/ ReturnNull(op)
  PROVE  LInv'
  BY DEF LInv, MoveTo, ReturnNull, pointers, Idle

LEMMA TraversalsKeep ==
  ASSUME LInv, GetHead \/ GetTail \/ GetNext \/ GetPrev
  PROVE  LInv'
<1>1. CASE GetHead
  <2>1. head \in DOMAIN heap \cup {NULL} /\ Idle
    BY <1>1, Entries DEF GetHead, LInv
  <2> QED
    BY <1>1, <2>1, MoveKeeps DEF GetHead
<1>2. CASE GetTail
  <2>1. tail \in DOMAIN heap \cup {NULL} /\ Idle
    BY <1>2, Entries DEF GetTail, LInv
  <2> QED
    BY <1>2, <2>1, MoveKeeps DEF GetTail
<1>3. CASE GetNext
  <2>1. Idle /\ NULL \in DOMAIN heap \cup {NULL}
    BY <1>3 DEF GetNext
  <2>2. CASE current = NULL
    BY <1>3, <2>1, <2>2, MoveKeeps DEF GetNext
  <2>3. CASE current # NULL
    <3>1. heap[current].next \in DOMAIN heap \cup {NULL}
      BY <1>3, <2>1, <2>3, Neighbours DEF GetNext, LInv
    <3> QED
      BY <1>3, <2>1, <2>3, <3>1, MoveKeeps DEF GetNext
  <2> QED
    BY <2>2, <2>3
<1>4. CASE GetPrev
  <2>1. Idle /\ NULL \in DOMAIN heap \cup {NULL}
    BY <1>4 DEF GetPrev
  <2>2. CASE current = NULL
    BY <1>4, <2>1, <2>2, MoveKeeps DEF GetPrev
  <2>3. CASE current # NULL
    <3>1. heap[current].prev \in DOMAIN heap \cup {NULL}
      BY <1>4, <2>1, <2>3, Neighbours DEF GetPrev, LInv
    <3> QED
      BY <1>4, <2>1, <2>3, <3>1, MoveKeeps DEF GetPrev
  <2> QED
    BY <2>2, <2>3
<1> QED
  BY <1>1, <1>2, <1>3, <1>4

LEMMA AddsKeep ==
  ASSUME LInv, NEW x \in Item, AddTail(x) \/ AddHead(x)
  PROVE  LInv'
<1>0. Idle /\ Idle' /\ Whole(heap, order)
  BY DEF AddTail, AddHead, Idle, LInv, Whole
<1>1. /\ Len(order) \in Nat /\ nNumEntries = Len(order) /\ lost \in BOOLEAN
      /\ head = At(order, 1) /\ tail = At(order, Len(order))
      /\ head = NULL <=> tail = NULL
      /\ lost \/ current \in DOMAIN heap \cup {NULL}
  BY <1>0, Entries DEF LInv
<1>2. ASSUME NEW n \in Node \ DOMAIN heap, DOMAIN heap' = DOMAIN heap \cup {n}, Counted(n)
      PROVE  /\ nNumEntries' = Len(order) + 1 /\ lost' \in BOOLEAN
             /\ lost' \/ current' \in DOMAIN heap' \cup {NULL}
  BY <1>1, <1>2 DEF Counted
<1>3. CASE AddTail(x)
  <2>1. PICK n \in Node \ DOMAIN heap :
          /\ heap' = Add(SetNext(heap, tail, n), n, NewNode(x, tail, NULL))
          /\ head' = IF tail = NULL THEN n ELSE head
          /\ tail' = n
          /\ Counted(n)
          /\ order' = Append(order, n)
    BY <1>3 DEF AddTail
  <2>2. GrownTail(heap', order', heap, order, n, tail)
    BY <1>0, <1>1, <2>1, LinkTail
  <2> QED
    BY <1>0, <1>1, <1>2, <2>1, <2>2 DEF LInv, Grown, GrownTail, GrownHead, Whole
<1>4. CASE AddHead(x)
  <2>1. PICK n \in Node \ DOMAIN heap :
          /\ heap' = Add(SetPrev(heap, head, n), n, NewNode(x, NULL, head))
          /\ head' = n
          /\ tail' = IF tail = NULL THEN n ELSE tail
          /\ Counted(n)
          /\ order' = <<n>> \o order
    BY <1>4 DEF AddHead
  <2>2. GrownHead(heap', order', heap, order, n, head)
    BY <1>0, <1>1, <2>1, LinkHead
  <2> QED
    BY <1>0, <1>1, <1>2, <2>1, <2>2 DEF LInv, Grown, GrownTail, GrownHead, Whole
<1> QED
  BY <1>3, <1>4

(* The entry that n was is gone, and its neighbours are linked.            *)
Removed(n) ==
  Shrunk(heap', order', heap, order, Place(n), heap[n].prev, heap[n].next)

LEMMA RemovalKeeps ==
  ASSUME LInv, Idle, Idle', NEW n \in DOMAIN heap, Removed(n),
         nNumEntries' = nNumEntries - 1, lost' \in BOOLEAN,
         lost' \/ current' \in (DOMAIN heap \ {n}) \cup {NULL},
         head' = IF heap[n].prev = NULL THEN heap[n].next ELSE head,
         tail' = IF heap[n].next = NULL THEN heap[n].prev ELSE tail
  PROVE  LInv'
<1>1. Place(n) \in 1 .. Len(order) /\ order[Place(n)] = n
  BY Placed
<1> QED
  BY <1>1, Entries DEF LInv, Removed, Shrunk, Whole

(* What a removal that finds an entry does.                                *)

LEMMA HeadRemoved ==
  ASSUME LInv, RemoveHead, head # NULL
  PROVE  /\ Idle /\ Idle' /\ head \in DOMAIN heap /\ Place(head) = 1 /\ Removed(head)
         /\ nNumEntries' = nNumEntries - 1 /\ order' = Without(order, Place(head))
         /\ head' = heap[head].next /\ heap[head].prev = NULL
         /\ tail' = IF heap[head].next = NULL THEN NULL ELSE tail
         /\ last' = Call("removeHead", heap[head].item)
         /\ current' = current /\ lost' = (lost \/ current = head)
<1> DEFINE next == heap[head].next
<1>1. /\ Idle /\ Idle' /\ nNumEntries' = nNumEntries - 1 /\ head' = next
      /\ heap' = Delete(SetPrev(heap, next, NULL), head)
      /\ tail' = IF next = NULL THEN NULL ELSE tail
      /\ order' = Without(order, Place(head))
      /\ current' = current /\ lost' = (lost \/ current = head)
  BY DEF RemoveHead, Idle
<1>2. head \in DOMAIN heap /\ head = At(order, 1) /\ Whole(heap, order)
  BY <1>1, Entries DEF LInv, Whole
<1>3. /\ Place(head) = 1 /\ order[Place(head)] = head
      /\ Place(head) \in 1 .. Len(order) /\ Len(order) \in Nat
  BY <1>2, Placed, Entries DEF Chain, Whole, Distinct, At
<1>4. heap[head].prev = NULL
  BY <1>1, <1>2, <1>3, Neighbours DEF At
<1>5. heap' = Delete(SetPrev(SetNext(heap, NULL, next), next, NULL), order[Place(head)])
  BY <1>1, <1>3 DEF SetNext
<1>6. Removed(head)
  BY <1>1, <1>2, <1>3, <1>4, <1>5, Unlink DEF Removed
<1>7. last' = Call("removeHead", heap[head].item)
  BY DEF RemoveHead, Returns, ItemAt
<1> QED
  BY <1>1, <1>2, <1>3, <1>4, <1>6, <1>7

LEMMA TailRemoved ==
  ASSUME LInv, RemoveTail, tail # NULL
  PROVE  /\ Idle /\ Idle' /\ tail \in DOMAIN heap /\ Place(tail) = Len(order) /\ Removed(tail)
         /\ nNumEntries' = nNumEntries - 1 /\ order' = Without(order, Place(tail))
         /\ tail' = heap[tail].prev /\ heap[tail].next = NULL
         /\ head' = IF heap[tail].prev = NULL THEN NULL ELSE head
         /\ last' = Call("removeTail", heap[tail].item)
         /\ current' = current /\ lost' = (lost \/ current = tail)
<1> DEFINE prev == heap[tail].prev
<1>1. /\ Idle /\ Idle' /\ nNumEntries' = nNumEntries - 1 /\ tail' = prev
      /\ heap' = Delete(SetNext(heap, prev, NULL), tail)
      /\ head' = IF prev = NULL THEN NULL ELSE head
      /\ order' = Without(order, Place(tail))
      /\ current' = current /\ lost' = (lost \/ current = tail)
  BY DEF RemoveTail, Idle
<1>2. tail \in DOMAIN heap /\ tail = At(order, Len(order)) /\ Whole(heap, order)
  BY <1>1, Entries DEF LInv, Whole
<1>3. /\ Place(tail) = Len(order) /\ order[Place(tail)] = tail
      /\ Place(tail) \in 1 .. Len(order) /\ Len(order) \in Nat
  BY <1>2, Placed, Entries DEF Chain, Whole, Distinct, At
<1>4. heap[tail].next = NULL
  BY <1>1, <1>2, <1>3, Neighbours DEF At
<1>5. heap' = Delete(SetPrev(SetNext(heap, prev, NULL), NULL, prev), order[Place(tail)])
  BY <1>1, <1>3 DEF SetPrev
<1>6. Removed(tail)
  BY <1>1, <1>2, <1>3, <1>4, <1>5, Unlink DEF Removed
<1>7. last' = Call("removeTail", heap[tail].item)
  BY DEF RemoveTail, Returns, ItemAt
<1> QED
  BY <1>1, <1>2, <1>3, <1>4, <1>6, <1>7

LEMMA CurrentRemoved ==
  ASSUME LInv, NEW direction, RemoveCurrent(direction), current # NULL
  PROVE  /\ Idle /\ Idle' /\ ~lost /\ lost' = lost /\ current \in DOMAIN heap /\ Removed(current)
         /\ nNumEntries' = nNumEntries - 1 /\ order' = Without(order, Place(current))
         /\ head' = IF heap[current].prev = NULL THEN heap[current].next ELSE head
         /\ tail' = IF heap[current].next = NULL THEN heap[current].prev ELSE tail
         /\ last' = Call(direction, heap[current].item)
         /\ current' = IF direction = "listPREV" THEN heap[current].prev
                       ELSE heap[current].next
<1> DEFINE prev == heap[current].prev
           next == heap[current].next
<1>1. /\ Idle /\ Idle' /\ ~lost /\ lost' = lost /\ nNumEntries' = nNumEntries - 1
      /\ order' = Without(order, Place(current))
  BY DEF RemoveCurrent, Idle
<1>2. current \in DOMAIN heap /\ Whole(heap, order) /\ nNumEntries = Len(order)
  BY <1>1 DEF LInv, Whole
<1>3. /\ order[Place(current)] = current
      /\ Place(current) \in 1 .. Len(order) /\ Len(order) \in Nat
  BY <1>2, Placed, Entries
<1>4. prev = At(order, Place(current) - 1) /\ next = At(order, Place(current) + 1)
  BY <1>1, <1>2, Neighbours
<1>5. prev = NULL /\ next = NULL <=> nNumEntries' = 0
  BY <1>1, <1>2, <1>3, <1>4, Entries DEF At
<1>6. /\ heap' = Delete(SetPrev(SetNext(heap, prev, next), next, prev), current)
      /\ head' = IF prev = NULL THEN next ELSE head
      /\ tail' = IF next = NULL THEN prev ELSE tail
      /\ current' = IF direction = "listPREV" THEN prev ELSE next
  <2>1. CASE nNumEntries' = 0
    <3>1. /\ head' = NULL /\ tail' = NULL /\ current' = NULL
          /\ heap' = Delete(heap, current)
      BY <2>1 DEF RemoveCurrent
    <3>2. SetPrev(SetNext(heap, prev, next), next, prev) = heap
      BY <1>5, <2>1 DEF SetNext, SetPrev
    <3> QED
      BY <1>5, <2>1, <3>1, <3>2
  <2>2. CASE nNumEntries' # 0
    <3>1. /\ heap' = Delete(SetPrev(SetNext(heap, prev, next), next, prev), current)
          /\ head' = IF prev = NULL THEN next ELSE head
          /\ tail' = IF prev # NULL /\ next = NULL THEN prev ELSE tail
          /\ current' = IF direction = "listPREV" THEN prev ELSE next
      BY <2>2 DEF RemoveCurrent
    <3> QED
      BY <1>5, <2>2, <3>1
  <2> QED
    BY <2>1, <2>2
<1>7. Removed(current)
  BY <1>1, <1>2, <1>3, <1>6, Unlink DEF Removed
<1>8. last' = Call(direction, heap[current].item)
  BY DEF RemoveCurrent, Returns, ItemAt
<1> QED
  BY <1>1, <1>2, <1>6, <1>7, <1>8

LEMMA RemoveHeadKeeps == ASSUME LInv, RemoveHead PROVE LInv'
<1>1. CASE head = NULL
  <2>1. Idle /\ NULL \in DOMAIN heap \cup {NULL} /\ ReturnNull("removeHead")
    BY <1>1 DEF RemoveHead
  <2> QED
    BY <2>1, MoveKeeps
<1>2. CASE head # NULL
  BY <1>2, HeadRemoved, RemovalKeeps DEF LInv
<1> QED
  BY <1>1, <1>2

LEMMA RemoveTailKeeps == ASSUME LInv, RemoveTail PROVE LInv'
<1>1. CASE tail = NULL
  <2>1. Idle /\ NULL \in DOMAIN heap \cup {NULL} /\ ReturnNull("removeTail")
    BY <1>1 DEF RemoveTail
  <2> QED
    BY <2>1, MoveKeeps
<1>2. CASE tail # NULL
  BY <1>2, TailRemoved, RemovalKeeps DEF LInv
<1> QED
  BY <1>1, <1>2

LEMMA RemoveCurrentKeeps ==
  ASSUME LInv, NEW direction, RemoveCurrent(direction) PROVE LInv'
<1>1. CASE current = NULL
  <2>1. Idle /\ NULL \in DOMAIN heap \cup {NULL} /\ ReturnNull(direction)
    BY <1>1 DEF RemoveCurrent
  <2> QED
    BY <2>1, MoveKeeps
<1>2. CASE current # NULL
  <2>1. /\ current \in DOMAIN heap /\ Removed(current) /\ lost' = lost
        /\ current' \in {heap[current].prev, heap[current].next}
    BY <1>2, CurrentRemoved
  <2>2. current' \in (DOMAIN heap \ {current}) \cup {NULL} /\ lost' \in BOOLEAN
    BY <2>1, Placed DEF Removed, Shrunk, LInv
  <2> QED
    BY <1>2, <2>2, CurrentRemoved, RemovalKeeps
<1> QED
  BY <1>1, <1>2

LEMMA ClearKeeps == ASSUME LInv, Clear \/ ClearTurn PROVE LInv'
<1>1. CASE Clear
  <2>1. /\ Idle /\ order # << >> /\ head = At(order, 1) /\ head # NULL
    BY <1>1, Entries DEF Clear, LInv
  <2>2. head = order[1] /\ Chain(heap, order, FALSE)
    BY <2>1 DEF At, LInv, Chain, Whole
  <2> QED
    BY <1>1, <2>1, <2>2 DEF Clear, LInv, Idle, pointers
<1>2. CASE ClearTurn
  <2>1. /\ ~Idle /\ order # << >> /\ pNode = order[1] /\ pNode' = heap[pNode].next
        /\ heap' = Delete(heap, pNode) /\ order' = Tail(order)
    BY <1>2 DEF ClearTurn, LInv
  <2>2. /\ Chain(heap', order', FALSE) /\ Len(order') = Len(order) - 1
        /\ pNode' = IF order' = << >> THEN NULL ELSE order'[1]
    BY <2>1, UnlinkFirst DEF LInv
  <2>3. order' \in Seq(Node) /\ \A i \in 1 .. Len(order') : order'[i] # NULL
    BY <2>2, ElementOfSeq, NullIsNothing DEF Chain, Whole
  <2>4. /\ Len(order') \in Nat /\ (order' = << >> <=> Len(order') = 0)
    BY <2>3, LenProperties, EmptySeq
  <2>5. CASE order' = << >>
    <3>1. /\ head' = NULL /\ tail' = NULL /\ current' = NULL /\ nNumEntries' = 0
          /\ lost' = FALSE /\ Idle'
      BY <1>2, <2>2, <2>5 DEF ClearTurn, Idle
    <3>2. Whole(heap', order') /\ At(order', 1) = NULL /\ At(order', Len(order')) = NULL
      <4>1. Len(order') = 0 /\ 1 .. Len(order') = {}
        BY <2>4, <2>5
      <4>2. Whole(heap', order')
        BY <2>2, <4>1 DEF Chain, Whole
      <4> QED
        BY <4>1, <4>2 DEF At
    <3> QED
      BY <2>4, <2>5, <3>1, <3>2 DEF LInv, Whole
  <2>6. CASE order' # << >>
    <3>1. pNode' = order'[1] /\ pNode' # NULL
      BY <2>2, <2>3, <2>4, <2>6
    <3>2. nNumEntries' = nNumEntries - 1 /\ lost' = lost /\ ~Idle'
      BY <1>2, <3>1 DEF ClearTurn, Idle
    <3> QED
      <4>1. Chain(heap', order', Idle')
        BY <2>2, <3>2 DEF Idle
      <4>2. nNumEntries' = Len(order') /\ lost' \in BOOLEAN
        BY <2>2, <3>2 DEF LInv
      <4> QED
        BY <2>6, <3>1, <3>2, <4>1, <4>2 DEF LInv
  <2> QED
    BY <2>5, <2>6
<1> QED
  BY <1>1, <1>2

LEMMA LinkedStep == LInv /\ [Next]_vars => LInv'
<1> SUFFICES ASSUME LInv, [Next]_vars PROVE LInv'
  OBVIOUS
<1>1. CASE UNCHANGED vars
  BY <1>1 DEF vars, pointers, LInv, Idle
<1> QED
  BY <1>1, AddsKeep, TraversalsKeep, RemoveHeadKeeps, RemoveTailKeeps, RemoveCurrentKeeps,
    ClearKeeps DEF Next

(* A sequence of distinct entries has as many as its set of entries.       *)
LEMMA DistinctCounted ==
  ASSUME NEW o \in Seq(Node), Distinct(o)
  PROVE  Cardinality(Members(o)) = Len(o)
<1>1. /\ Len(o) \in Nat /\ o \in [1 .. Len(o) -> Members(o)]
  BY LenProperties DEF Members
<1>2. o \in Surjection(1 .. Len(o), Members(o)) /\ o \in Injection(1 .. Len(o), Members(o))
  BY <1>1 DEF Distinct, Members, Surjection, Injection, IsInjective
<1>3. IsFiniteSet(1 .. Len(o)) /\ Cardinality(1 .. Len(o)) = Len(o)
  BY <1>1, FS_Interval
<1> QED
  BY <1>2, <1>3, FS_Surjection

LEMMA LInvLinked == LInv => Linked
<1> SUFFICES ASSUME LInv PROVE Linked
  OBVIOUS
<1>1. Len(order) \in Nat /\ DOMAIN order = 1 .. Len(order) /\ DOMAIN heap = Members(order)
  BY LenProperties DEF LInv, Chain, Whole
<1>2. DOMAIN heap = SE!ToSet(order)
  BY <1>1 DEF Members, SE!ToSet
<1>3. Cardinality(DOMAIN heap) = Len(order)
  BY <1>1, DistinctCounted DEF LInv, Chain, Whole
<1>4. ASSUME NEW i \in 1 .. Len(order)
      PROVE  /\ heap[order[i]].next = IF i = Len(order) THEN NULL ELSE order[i + 1]
             /\ Idle \/ i # 1 => heap[order[i]].prev = IF i = 1 THEN NULL ELSE order[i - 1]
  BY <1>1 DEF LInv, Chain, Whole, At
<1>5. Idle => /\ head = IF order = << >> THEN NULL ELSE order[1]
              /\ tail = IF order = << >> THEN NULL ELSE order[Len(order)]
  BY <1>1, Entries DEF LInv, At
<1> QED
  BY <1>2, <1>3, <1>4, <1>5 DEF Linked, LInv

(* The nodes that are allocated and the pointers between them spell the    *)
(* list, whatever is added, removed or purged, at either end or at the     *)
(* cursor: linkedlist.h leaks no node and links none it deleted.           *)
THEOREM PointersSpellList == Spec => []Linked
  BY InitLinked, LinkedStep, LInvLinked, PTL DEF Spec

-----------------------------------------------------------------------------
(* The list as CursorListSpec sees it.                                     *)

Items(h, o) == [i \in 1 .. Len(o) |-> h[o[i]].item]
AItems == IF Idle THEN Items(heap, order) ELSE << >>
ACur   == IF ~Idle \/ lost \/ current = NULL THEN NoCurrent ELSE Place(current)
ALost  == Idle /\ lost

LEMMA InFront ==
  ASSUME NEW S, NEW s \in Seq(S), NEW x \in S
  PROVE  /\ <<x>> \o s \in Seq(S) /\ Len(<<x>> \o s) = Len(s) + 1
         /\ \A i \in 1 .. Len(s) + 1 : (<<x>> \o s)[i] = IF i = 1 THEN x ELSE s[i - 1]
<1>1. Len(s) \in Nat /\ <<x>> \in Seq(S) /\ Len(<<x>>) = 1 /\ <<x>>[1] = x
  BY LenProperties
<1>2. /\ <<x>> \o s \in Seq(S) /\ Len(<<x>> \o s) = 1 + Len(s)
      /\ \A i \in 1 .. 1 + Len(s) :
           (<<x>> \o s)[i] = IF i <= 1 THEN <<x>>[i] ELSE s[i - 1]
  BY <1>1, ConcatProperties
<1> QED
  BY <1>1, <1>2

Spells(s, h, o) ==
  /\ s \in Seq(Item) /\ Len(s) = Len(o) /\ Len(o) \in Nat
  /\ \A i \in 1 .. Len(o) : s[i] = h[o[i]].item
  /\ s = << >> <=> o = << >>

LEMMA ItemsOf ==
  ASSUME NEW h, NEW o, Whole(h, o)
  PROVE  Spells(Items(h, o), h, o)
<1>1. Len(o) \in Nat /\ \A i \in 1 .. Len(o) : h[o[i]].item \in Item
  <2>1. Len(o) \in Nat /\ \A i \in 1 .. Len(o) : o[i] \in DOMAIN h
    BY LenProperties DEF Chain, Whole, Members
  <2> QED
    BY <2>1 DEF Chain, Whole, IsHeap
<1>2. Items(h, o) \in Seq(Item) /\ Len(Items(h, o)) = Len(o)
  BY <1>1, IsASeq DEF Items
<1>3. \A i \in 1 .. Len(o) : Items(h, o)[i] = h[o[i]].item
  BY DEF Items
<1>4. Items(h, o) = << >> <=> o = << >>
  BY <1>1, <1>2, EmptySeq DEF Chain, Whole
<1> QED
  BY <1>1, <1>2, <1>3, <1>4 DEF Spells

(* The objects of the list after an entry was unlinked, or one linked at   *)
(* an end.                                                                 *)
LEMMA UnlinkedItems ==
  ASSUME NEW h, NEW o, Whole(h, o), NEW k \in 1 .. Len(o), NEW g, NEW w,
         w = Without(o, k), NEW p, NEW q, Shrunk(g, w, h, o, k, p, q)
  PROVE  Items(g, w) = Without(Items(h, o), k)
<1> DEFINE s == Items(h, o)
           t == Items(g, w)
<1>1. /\ s \in Seq(Item) /\ Len(s) = Len(o) /\ Len(o) \in Nat
      /\ \A i \in 1 .. Len(o) : s[i] = h[o[i]].item
  <2>1. Spells(s, h, o)
    BY ItemsOf
  <2> QED
    BY <2>1 DEF Spells
<1>2. /\ t \in Seq(Item) /\ Len(t) = Len(o) - 1
      /\ \A i \in 1 .. Len(w) : t[i] = g[w[i]].item
  <2>1. Whole(g, w) /\ Len(w) = Len(o) - 1
    BY DEF Shrunk
  <2>2. Spells(t, g, w)
    BY <2>1, ItemsOf
  <2> QED
    BY <2>1, <2>2 DEF Spells
<1>3. \A i \in 1 .. Len(o) - 1 : w[i] = IF i < k THEN o[i] ELSE o[i + 1]
  BY WithoutEntry DEF Chain, Whole
<1>4. \A i \in 1 .. Len(w) : g[w[i]].item = h[w[i]].item
  BY DEF Shrunk, Chain, Whole, Members
<1> HIDE DEF s, t
<1>5. /\ Without(s, k) \in Seq(Item) /\ Len(Without(s, k)) = Len(s) - 1
      /\ \A i \in 1 .. Len(s) - 1 : Without(s, k)[i] = IF i < k THEN s[i] ELSE s[i + 1]
  BY <1>1, WithoutEntry
<1>6. ASSUME NEW i \in 1 .. Len(o) - 1 PROVE t[i] = Without(s, k)[i]
  <2>1. Len(w) = Len(o) - 1 /\ t[i] = h[w[i]].item
    BY <1>2, <1>4 DEF Shrunk
  <2>2. CASE i < k
    BY <1>1, <1>3, <1>5, <2>1, <2>2
  <2>3. CASE ~(i < k)
    BY <1>1, <1>3, <1>5, <2>1, <2>3
  <2> QED
    BY <2>2, <2>3
<1>7. t = Without(s, k)
  BY <1>1, <1>2, <1>5, <1>6, SeqEqual
<1> QED
  BY <1>7 DEF s, t

(* w is o and n after it.                                                  *)
Extends(w, o, n) == w = Append(o, n)

LEMMA LinkedItemsTail ==
  ASSUME NEW h, NEW o, Whole(h, o), NEW n, NEW g, NEW w, Extends(w, o, n),
         Grown(g, w, h, o, n)
  PROVE  Items(g, w) = Append(Items(h, o), g[n].item)
<1> DEFINE s == Items(h, o)
           t == Items(g, w)
           x == g[n].item
<1>0. x \in Item
  BY DEF Grown, Whole, Chain, IsHeap
<1>1. /\ s \in Seq(Item) /\ Len(s) = Len(o) /\ Len(o) \in Nat
      /\ \A i \in 1 .. Len(o) : s[i] = h[o[i]].item
  <2>1. Spells(s, h, o)
    BY ItemsOf
  <2> QED
    BY <2>1 DEF Spells
<1>2. /\ t \in Seq(Item) /\ Len(t) = Len(o) + 1
      /\ \A i \in 1 .. Len(o) + 1 : t[i] = g[w[i]].item
  <2>1. Whole(g, w) /\ Len(w) = Len(o) + 1
    BY DEF Grown
  <2>2. Spells(t, g, w)
    BY <2>1, ItemsOf
  <2> QED
    BY <2>1, <2>2 DEF Spells
<1>3. \A i \in 1 .. Len(o) + 1 : w[i] = IF i <= Len(o) THEN o[i] ELSE n
  <2>1. n \in Node
    BY DEF Grown, Chain, Whole, IsHeap
  <2> QED
    BY <1>1, <2>1, AppendProperties DEF Chain, Whole, Extends
<1>4. \A i \in 1 .. Len(o) : g[o[i]].item = h[o[i]].item
  BY DEF Grown, Chain, Whole, Members
<1> HIDE DEF s, t, x
<1>5. /\ Append(s, x) \in Seq(Item) /\ Len(Append(s, x)) = Len(o) + 1
      /\ \A i \in 1 .. Len(o) + 1 : Append(s, x)[i] = IF i <= Len(o) THEN s[i] ELSE x
  BY <1>0, <1>1, AppendProperties
<1>6. ASSUME NEW i \in 1 .. Len(o) + 1 PROVE t[i] = Append(s, x)[i]
  BY <1>1, <1>2, <1>3, <1>4, <1>5 DEF x
<1>7. t = Append(s, x)
  BY <1>1, <1>2, <1>5, <1>6, SeqEqual
<1> QED
  BY <1>7 DEF s, t, x

LEMMA LinkedItemsHead ==
  ASSUME NEW h, NEW o, Whole(h, o), NEW n, NEW g, NEW w, w = <<n>> \o o,
         Grown(g, w, h, o, n)
  PROVE  Items(g, w) = <<g[n].item>> \o Items(h, o)
<1> DEFINE s == Items(h, o)
           t == Items(g, w)
           x == g[n].item
           u == <<x>> \o s
<1>0. x \in Item
  BY DEF Grown, Whole, Chain, IsHeap
<1>1. /\ s \in Seq(Item) /\ Len(s) = Len(o) /\ Len(o) \in Nat
      /\ \A i \in 1 .. Len(o) : s[i] = h[o[i]].item
  <2>1. Spells(s, h, o)
    BY ItemsOf
  <2> QED
    BY <2>1 DEF Spells
<1>2. /\ t \in Seq(Item) /\ Len(t) = Len(o) + 1
      /\ \A i \in 1 .. Len(o) + 1 : t[i] = g[w[i]].item
  <2>1. Whole(g, w) /\ Len(w) = Len(o) + 1
    BY DEF Grown
  <2>2. Spells(t, g, w)
    BY <2>1, ItemsOf
  <2> QED
    BY <2>1, <2>2 DEF Spells
<1>3. \A i \in 1 .. Len(o) + 1 : w[i] = IF i = 1 THEN n ELSE o[i - 1]
  <2>1. n \in Node
    BY DEF Grown, Chain, Whole, IsHeap
  <2> QED
    BY <1>1, <2>1, InFront DEF Chain, Whole
<1>4. \A i \in 1 .. Len(o) : g[o[i]].item = h[o[i]].item
  BY DEF Grown, Chain, Whole, Members
<1> HIDE DEF s, t, x
<1>5. /\ u \in Seq(Item) /\ Len(u) = Len(o) + 1
      /\ \A i \in 1 .. Len(o) + 1 : u[i] = IF i = 1 THEN x ELSE s[i - 1]
  BY <1>0, <1>1, InFront
<1> HIDE DEF u
<1>6. ASSUME NEW i \in 1 .. Len(o) + 1 PROVE t[i] = u[i]
  <2>1. CASE i = 1
    <3>1. w[i] = n /\ u[i] = x
      BY <1>3, <1>5, <2>1
    <3> QED
      BY <1>2, <3>1 DEF x
  <2>2. CASE i # 1
    <3>1. i - 1 \in 1 .. Len(o) /\ w[i] = o[i - 1] /\ u[i] = s[i - 1]
      BY <1>1, <1>3, <1>5, <2>2
    <3> QED
      BY <1>1, <1>2, <1>4, <3>1
  <2> QED
    BY <2>1, <2>2
<1>7. t = u
  BY <1>1, <1>2, <1>5, <1>6, SeqEqual
<1> QED
  BY <1>7 DEF s, t, u, x

(* A step of CursorListSpec, told from what it makes of its variables.     *)

LEMMA SpecAddTail ==
  ASSUME NEW x \in Item, AItems' = Append(AItems, x), last' = Call("addTail", x),
         ACur' = (IF AItems = << >> THEN 1 ELSE ACur), ALost' = (ALost /\ AItems # << >>)
  PROVE  CL!AddTail(x)
  BY DEF CL!AddTail, CL!Call, Call, CL!CursorAfterAddTail, NoCurrent, AItems, ACur, ALost, Items

LEMMA SpecAddHead ==
  ASSUME NEW x \in Item, AItems' = <<x>> \o AItems, last' = Call("addHead", x),
         ACur' = (IF AItems = << >> THEN 1 ELSE IF ACur = NoCurrent THEN ACur ELSE ACur + 1),
         ALost' = (ALost /\ AItems # << >>)
  PROVE  CL!AddHead(x)
  BY DEF CL!AddHead, CL!Call, Call, CL!CursorAfterAddHead, CL!NoCurrent, NoCurrent,
         AItems, ACur, ALost, Items

SpecMove(op, i) ==
  /\ AItems' = AItems /\ ACur' = i /\ ALost' = FALSE
  /\ last' = Call(op, IF i = NoCurrent THEN NULL ELSE AItems[i])

SpecNothing(op) ==
  AItems' = AItems /\ ACur' = ACur /\ ALost' = ALost /\ last' = Call(op, NULL)

LEMMA SpecGetHead ==
  ASSUME IF AItems = << >> THEN SpecNothing("getHead") ELSE SpecMove("getHead", 1)
  PROVE  CL!GetHead
  BY DEF CL!GetHead, CL!ReturnNull, CL!MoveTo, CL!Become, CL!Call, Call, CL!HeadCursor,
         CL!NoCurrent, NoCurrent, SpecMove, SpecNothing, AItems, ACur, ALost, Items

LEMMA SpecGetTail ==
  ASSUME IF AItems = << >> THEN SpecNothing("getTail") ELSE SpecMove("getTail", Len(AItems))
  PROVE  CL!GetTail
  BY DEF CL!GetTail, CL!ReturnNull, CL!MoveTo, CL!Become, CL!Call, Call, CL!TailCursor,
         CL!NoCurrent, NoCurrent, SpecMove, SpecNothing, AItems, ACur, ALost, Items

LEMMA SpecGetNext ==
  ASSUME ~ALost,
         SpecMove("getNext", IF ACur \in {NoCurrent, Len(AItems)} THEN NoCurrent ELSE ACur + 1)
  PROVE  CL!GetNext
  BY DEF CL!GetNext, CL!MoveTo, CL!Become, CL!Call, Call, CL!NextCursor,
         CL!NoCurrent, NoCurrent, SpecMove, AItems, ACur, ALost, Items

LEMMA SpecGetPrev ==
  ASSUME ~ALost, SpecMove("getPrev", IF ACur = NoCurrent THEN NoCurrent ELSE ACur - 1)
  PROVE  CL!GetPrev
  BY DEF CL!GetPrev, CL!MoveTo, CL!Become, CL!Call, Call, CL!PrevCursor,
         CL!NoCurrent, NoCurrent, SpecMove, AItems, ACur, ALost, Items

(* Removal of the entry i that leaves the cursor at `cursor`.              *)
SpecRemove(op, i, cursor) ==
  /\ AItems' = Without(AItems, i) /\ ACur' = cursor
  /\ last' = Call(op, AItems[i])

LEMMA SpecRemoveHead ==
  ASSUME IF AItems = << >> THEN SpecNothing("removeHead")
         ELSE /\ ALost' = (ALost \/ ACur = 1)
              /\ SpecRemove("removeHead", 1, IF ACur \in {1, NoCurrent} THEN NoCurrent
                                             ELSE ACur - 1)
  PROVE  CL!RemoveHead
  BY DEF CL!RemoveHead, CL!RemoveAtEnd, CL!ReturnNull, CL!Call, Call, CL!PrevCursor,
         CL!Without, Without, CL!SE!RemoveAt, SE!RemoveAt,
         CL!NoCurrent, NoCurrent, SpecRemove, SpecNothing, AItems, ACur, ALost, Items

LEMMA SpecRemoveTail ==
  ASSUME IF AItems = << >> THEN SpecNothing("removeTail")
         ELSE /\ ALost' = (ALost \/ ACur = Len(AItems))
              /\ SpecRemove("removeTail", Len(AItems),
                            IF ACur = Len(AItems) THEN NoCurrent ELSE ACur)
  PROVE  CL!RemoveTail
  BY DEF CL!RemoveTail, CL!RemoveAtEnd, CL!ReturnNull, CL!Call, Call,
         CL!Without, Without, CL!SE!RemoveAt, SE!RemoveAt,
         CL!NoCurrent, NoCurrent, SpecRemove, SpecNothing, AItems, ACur, ALost, Items

SpecRemoved(direction, cursor) ==
  IF ACur = NoCurrent THEN SpecNothing(direction)
  ELSE ALost' = FALSE /\ SpecRemove(direction, ACur, cursor)

LEMMA SpecRemovePrev ==
  ASSUME ~ALost, SpecRemoved("listPREV", IF ACur = NoCurrent THEN NoCurrent ELSE ACur - 1)
  PROVE  CL!CLNext
<1>1. CL!RemoveCurrent("listPREV", CL!CursorAfterRemovePrev(ACur))
  BY DEF CL!RemoveCurrent, CL!CursorAfterRemovePrev, CL!PrevCursor, CL!ReturnNull,
         CL!Become, CL!Call, Call, CL!Without, Without, CL!SE!RemoveAt, SE!RemoveAt,
         CL!NoCurrent, NoCurrent, SpecRemoved, SpecRemove, SpecNothing, AItems, ACur, ALost, Items
<1> QED
  BY <1>1 DEF CL!CLNext, ACur, CL!NoCurrent, NoCurrent

LEMMA SpecRemoveNext ==
  ASSUME ~ALost, SpecRemoved("listNEXT", IF ACur = Len(AItems) THEN NoCurrent ELSE ACur)
  PROVE  CL!CLNext
<1>1. CL!RemoveCurrent("listNEXT", CL!CursorAfterRemoveNext(AItems, ACur))
  BY DEF CL!RemoveCurrent, CL!CursorAfterRemoveNext, CL!ReturnNull,
         CL!Become, CL!Call, Call, CL!Without, Without, CL!SE!RemoveAt, SE!RemoveAt,
         CL!NoCurrent, NoCurrent, SpecRemoved, SpecRemove, SpecNothing, AItems, ACur, ALost, Items
<1> QED
  BY <1>1 DEF CL!CLNext, AItems, ACur, CL!NoCurrent, NoCurrent, Items

LEMMA SpecClear ==
  ASSUME AItems # << >>, AItems' = << >>, ACur' = NoCurrent, ALost' = FALSE,
         last' = Call("clear", NULL)
  PROVE  CL!Clear
  BY DEF CL!Clear, CL!Become, CL!Call, Call, CL!NoCurrent, NoCurrent,
         AItems, ACur, ALost, Items

-----------------------------------------------------------------------------
(* Every step of the nodes is one of CursorListSpec, or a turn of purge(). *)

View ==
  /\ AItems = Items(heap, order) /\ Spells(AItems, heap, order) /\ ALost = lost
  /\ ACur \in 0 .. Len(order)
  /\ ACur = NoCurrent <=> lost \/ current = NULL
  /\ ACur # NoCurrent => order[ACur] = current
  /\ \A i \in 1 .. Len(order) : ~lost /\ current = order[i] => ACur = i

LEMMA ViewIs == LInv /\ Idle => View
<1> SUFFICES ASSUME LInv, Idle PROVE View
  OBVIOUS
<1>1. /\ Whole(heap, order) /\ lost \in BOOLEAN /\ Len(order) \in Nat
      /\ \A i \in 1 .. Len(order) : order[i] # NULL
  BY Entries DEF LInv, Whole
<1>2. AItems = Items(heap, order) /\ ALost = lost
  BY <1>1 DEF AItems, ALost
<1>3. Spells(AItems, heap, order)
  BY <1>1, <1>2, ItemsOf
<1>4. CASE lost \/ current = NULL
  <2>1. ACur = NoCurrent
    BY <1>4 DEF ACur
  <2> QED
    BY <1>1, <1>2, <1>3, <1>4, <2>1 DEF View, NoCurrent
<1>5. CASE ~lost /\ current # NULL
  <2>1. ACur = Place(current) /\ current \in DOMAIN heap
    BY <1>5 DEF ACur, LInv
  <2>2. ACur \in 1 .. Len(order) /\ order[ACur] = current
    BY <2>1, Placed
  <2> QED
    BY <1>1, <1>2, <1>3, <1>5, <2>2 DEF View, NoCurrent, Chain, Whole, Distinct
<1> QED
  BY <1>4, <1>5

LEMMA ViewNext == LInv' /\ Idle' => View'
  BY ViewIs, PTL

LEMMA Nothing == ASSUME NEW op, ReturnNull(op) PROVE SpecNothing(op)
  BY DEF ReturnNull, pointers, SpecNothing, Returns, AItems, Items, ACur, ALost, Place, Idle

(* The cursor moves to the entry i, or off the list.                       *)
LEMMA Moves ==
  ASSUME LInv, LInv', Idle, NEW op, NEW i \in 0 .. Len(order), MoveTo(op, At(order, i))
  PROVE  SpecMove(op, i)
<1>1. /\ heap' = heap /\ order' = order /\ current' = At(order, i) /\ ~lost' /\ Idle'
      /\ last' = Call(op, ItemAt(At(order, i)))
  BY DEF MoveTo, Idle, Returns
<1>2. View /\ View'
  BY <1>1, ViewIs, ViewNext
<1>3. AItems' = AItems /\ ALost' = FALSE
  BY <1>1, <1>2 DEF View
<1>4. CASE i = 0
  <2>1. At(order, i) = NULL
    BY <1>4 DEF At
  <2> QED
    BY <1>1, <1>2, <1>3, <1>4, <2>1 DEF View, SpecMove, NoCurrent, ItemAt
<1>5. CASE i # 0
  <2>1. i \in 1 .. Len(order) /\ Len(order) \in Nat /\ order[i] # NULL
    BY <1>5, Entries
  <2>2. At(order, i) = order[i] /\ ItemAt(order[i]) = AItems[i]
    BY <1>2, <2>1 DEF At, ItemAt, View, Spells
  <2>3. ACur' = i
    BY <1>1, <1>2, <2>1, <2>2 DEF View
  <2> QED
    BY <1>1, <1>3, <1>5, <2>2, <2>3 DEF SpecMove, NoCurrent
<1> QED
  BY <1>4, <1>5

LEMMA TraversalsImplement ==
  ASSUME LInv, LInv', GetHead \/ GetTail \/ GetNext \/ GetPrev
  PROVE  CL!CLNext
<1>1. /\ Idle /\ View /\ head = At(order, 1) /\ tail = At(order, Len(order))
      /\ Len(order) \in Nat /\ (AItems = << >> <=> Len(order) = 0) /\ Len(AItems) = Len(order)
      /\ lost \/ current \in DOMAIN heap \cup {NULL}
  <2>1. Idle
    BY DEF GetHead, GetTail, GetNext, GetPrev
  <2>2. View
    BY <2>1, ViewIs
  <2> QED
    BY <2>1, <2>2, Entries DEF LInv, View, Spells
<1>2. head = NULL <=> AItems = << >>
  BY <1>1, Entries
<1>3. tail = NULL <=> AItems = << >>
  BY <1>1, Entries
<1>4. CASE GetHead
  <2>1. CASE AItems = << >>
    <3>1. ReturnNull("getHead")
      BY <1>2, <1>4, <2>1 DEF GetHead
    <3> QED
      BY <2>1, <3>1, Nothing, SpecGetHead DEF CL!CLNext
  <2>2. CASE AItems # << >>
    <3>1. MoveTo("getHead", At(order, 1)) /\ 1 \in 0 .. Len(order)
      BY <1>1, <1>2, <1>4, <2>2 DEF GetHead
    <3> QED
      BY <1>1, <2>2, <3>1, Moves, SpecGetHead DEF CL!CLNext
  <2> QED
    BY <2>1, <2>2
<1>5. CASE GetTail
  <2>1. CASE AItems = << >>
    <3>1. ReturnNull("getTail")
      BY <1>3, <1>5, <2>1 DEF GetTail
    <3> QED
      BY <2>1, <3>1, Nothing, SpecGetTail DEF CL!CLNext
  <2>2. CASE AItems # << >>
    <3>1. MoveTo("getTail", At(order, Len(order))) /\ Len(order) \in 0 .. Len(order)
      BY <1>1, <1>3, <1>5, <2>2 DEF GetTail
    <3>2. SpecMove("getTail", Len(AItems))
      BY <1>1, <3>1, Moves
    <3> QED
      BY <2>2, <3>2, SpecGetTail DEF CL!CLNext
  <2> QED
    BY <2>1, <2>2
<1>6. CASE GetNext
  <2>1. ~lost /\ ~ALost
    BY <1>1, <1>6 DEF GetNext, View
  <2>2. CASE current = NULL
    <3>1. ReturnNull("getNext") /\ ACur = NoCurrent
      BY <1>1, <1>6, <2>2 DEF GetNext, View
    <3>2. SpecMove("getNext", NoCurrent)
      BY <2>1, <3>1, Nothing DEF SpecNothing, SpecMove
    <3> QED
      BY <2>1, <3>1, <3>2, SpecGetNext DEF CL!CLNext
  <2>3. CASE current # NULL
    <3>1. /\ current \in DOMAIN heap /\ ACur \in 1 .. Len(order) /\ ACur # NoCurrent
          /\ ACur = Place(current)
      BY <1>1, <2>1, <2>3, Placed DEF View, NoCurrent, ACur
    <3>2. MoveTo("getNext", At(order, ACur + 1))
      BY <1>1, <1>6, <2>3, <3>1, Neighbours DEF GetNext
    <3>3. CASE ACur = Len(order)
      <4>1. At(order, ACur + 1) = At(order, 0) /\ 0 \in 0 .. Len(order)
        BY <1>1, <3>1, <3>3 DEF At
      <4>2. SpecMove("getNext", NoCurrent)
        BY <1>1, <3>2, <4>1, Moves DEF NoCurrent
      <4> QED
        BY <1>1, <2>1, <3>3, <4>2, SpecGetNext DEF CL!CLNext
    <3>4. CASE ACur # Len(order)
      <4>1. ACur + 1 \in 0 .. Len(order) /\ ACur \notin {NoCurrent, Len(AItems)}
        BY <1>1, <3>1, <3>4
      <4>2. SpecMove("getNext", ACur + 1)
        BY <1>1, <3>2, <4>1, Moves
      <4> QED
        BY <2>1, <4>1, <4>2, SpecGetNext DEF CL!CLNext
    <3> QED
      BY <3>3, <3>4
  <2> QED
    BY <2>2, <2>3
<1>7. CASE GetPrev
  <2>1. ~lost /\ ~ALost
    BY <1>1, <1>7 DEF GetPrev, View
  <2>2. CASE current = NULL
    <3>1. ReturnNull("getPrev") /\ ACur = NoCurrent
      BY <1>1, <1>7, <2>2 DEF GetPrev, View
    <3>2. SpecMove("getPrev", NoCurrent)
      BY <2>1, <3>1, Nothing DEF SpecNothing, SpecMove
    <3> QED
      BY <2>1, <3>1, <3>2, SpecGetPrev DEF CL!CLNext
  <2>3. CASE current # NULL
    <3>1. /\ current \in DOMAIN heap /\ ACur \in 1 .. Len(order) /\ ACur # NoCurrent
          /\ ACur = Place(current)
      BY <1>1, <2>1, <2>3, Placed DEF View, NoCurrent, ACur
    <3>2. MoveTo("getPrev", At(order, ACur - 1)) /\ ACur - 1 \in 0 .. Len(order)
      BY <1>1, <1>7, <2>3, <3>1, Neighbours DEF GetPrev
    <3>3. SpecMove("getPrev", ACur - 1)
      BY <1>1, <3>2, Moves
    <3> QED
      BY <2>1, <3>1, <3>3, SpecGetPrev DEF CL!CLNext
  <2> QED
    BY <2>2, <2>3
<1> QED
  BY <1>4, <1>5, <1>6, <1>7

-----------------------------------------------------------------------------
(* The adds, the removals and purge().                                     *)

LEMMA AddsImplement ==
  ASSUME LInv, LInv', NEW x \in Item, AddTail(x) \/ AddHead(x)
  PROVE  CL!AddTail(x) \/ CL!AddHead(x)
<1>0. /\ Idle /\ Idle' /\ Whole(heap, order) /\ View /\ View'
      /\ Len(order) \in Nat /\ (order = << >> <=> Len(order) = 0)
      /\ (AItems = << >> <=> order = << >>) /\ nNumEntries = Len(order)
      /\ head = At(order, 1) /\ tail = At(order, Len(order))
  <2>1. Idle /\ Idle'
    BY DEF AddTail, AddHead, Idle
  <2>2. View /\ View'
    BY <2>1, ViewIs, ViewNext
  <2> QED
    BY <2>1, <2>2, Entries DEF LInv, View, Spells, Whole
<1>1. ASSUME NEW n \in Node \ DOMAIN heap, Counted(n)
      PROVE  /\ order = << >> => current' = n /\ lost' = FALSE
             /\ order # << >> => current' = current /\ lost' = lost
  <2>1. nNumEntries' = 1 <=> order = << >>
    BY <1>0, <1>1 DEF Counted
  <2>2. lost \in BOOLEAN
    BY DEF LInv
  <2> QED
    BY <1>1, <2>1, <2>2, Zenon DEF Counted
<1>2. CASE AddTail(x)
  <2>1. PICK n \in Node \ DOMAIN heap :
          /\ heap' = Add(SetNext(heap, tail, n), n, NewNode(x, tail, NULL))
          /\ Counted(n)
          /\ order' = Append(order, n)
    BY <1>2 DEF AddTail
  <2>2. Grown(heap', order', heap, order, n)
    BY <1>0, <2>1, LinkTail DEF GrownTail
  <2>3. heap'[n].item = x
    BY <2>1 DEF Add, NewNode
  <2>4. AItems' = Append(AItems, x)
    <3>1. Items(heap', order') = Append(Items(heap, order), x)
      <4>1. Whole(heap, order) /\ Extends(order', order, n)
        BY <1>0, <2>1 DEF Extends
      <4> QED
        BY <2>2, <2>3, <4>1, LinkedItemsTail
    <3> QED
      BY <1>0, <3>1 DEF View
  <2>5. /\ Len(order') = Len(order) + 1 /\ order'[Len(order) + 1] = n
        /\ \A i \in 1 .. Len(order) : order'[i] = order[i]
    BY <1>0, <2>1, AppendProperties DEF Chain, Whole
  <2>6. /\ ACur' = IF AItems = << >> THEN 1 ELSE ACur
        /\ ALost' = (ALost /\ AItems # << >>)
    <3>1. CASE order = << >>
      <4>0. current' = n /\ ~lost'
        BY <1>1, <2>1, <3>1
      <4>1. current' = n /\ ~lost' /\ 1 \in 1 .. Len(order') /\ order'[1] = n
        BY <1>0, <2>5, <3>1, <4>0
      <4>2. ACur' = 1 /\ ~ALost'
        BY <1>0, <4>1 DEF View
      <4> QED
        BY <1>0, <3>1, <4>2 DEF ALost
    <3>2. CASE order # << >>
      <4>1. /\ current' = current /\ lost' = lost /\ AItems # << >>
            /\ ALost' = (ALost /\ AItems # << >>)
        BY <1>0, <1>1, <2>1, <3>2 DEF View, LInv
      <4>2. CASE ACur = NoCurrent
        BY <1>0, <4>1, <4>2 DEF View
      <4>3. CASE ACur # NoCurrent
        <5>1. ACur \in 1 .. Len(order') /\ order'[ACur] = current' /\ ~lost'
          BY <1>0, <2>5, <4>1, <4>3 DEF View, NoCurrent
        <5> QED
          BY <1>0, <4>1, <5>1 DEF View
      <4> QED
        BY <4>2, <4>3
    <3> QED
      BY <3>1, <3>2
  <2>7. last' = Call("addTail", x)
    BY <1>2 DEF AddTail, Returns
  <2> QED
    BY <2>4, <2>6, <2>7, SpecAddTail
<1>3. CASE AddHead(x)
  <2>1. PICK n \in Node \ DOMAIN heap :
          /\ heap' = Add(SetPrev(heap, head, n), n, NewNode(x, NULL, head))
          /\ Counted(n)
          /\ order' = <<n>> \o order
    BY <1>3 DEF AddHead
  <2>2. Grown(heap', order', heap, order, n)
    BY <1>0, <2>1, LinkHead DEF GrownHead
  <2>3. heap'[n].item = x
    BY <2>1 DEF Add, NewNode
  <2>4. AItems' = <<x>> \o AItems
    <3>1. Items(heap', order') = <<x>> \o Items(heap, order)
      <4>1. Whole(heap, order) /\ order' = <<n>> \o order
        BY <1>0, <2>1
      <4> QED
        BY <2>2, <2>3, <4>1, LinkedItemsHead
    <3> QED
      BY <1>0, <3>1 DEF View
  <2>5. /\ Len(order') = Len(order) + 1 /\ order'[1] = n
        /\ \A i \in 1 .. Len(order) : order'[i + 1] = order[i]
    <3>1. \A i \in 1 .. Len(order) + 1 : order'[i] = IF i = 1 THEN n ELSE order[i - 1]
      BY <1>0, <2>1, InFront DEF Chain, Whole
    <3> QED
      BY <1>0, <2>1, <3>1, InFront DEF Chain, Whole
  <2>6. /\ ACur' = IF AItems = << >> THEN 1 ELSE IF ACur = NoCurrent THEN ACur ELSE ACur + 1
        /\ ALost' = (ALost /\ AItems # << >>)
    <3>1. CASE order = << >>
      <4>0. current' = n /\ ~lost'
        BY <1>1, <2>1, <3>1
      <4>1. current' = n /\ ~lost' /\ 1 \in 1 .. Len(order') /\ order'[1] = n
        BY <1>0, <2>5, <3>1, <4>0
      <4>2. ACur' = 1 /\ ~ALost'
        BY <1>0, <4>1 DEF View
      <4> QED
        BY <1>0, <3>1, <4>2 DEF ALost
    <3>2. CASE order # << >>
      <4>1. current' = current /\ lost' = lost /\ ALost' = (ALost /\ AItems # << >>)
        BY <1>0, <1>1, <2>1, <3>2 DEF View, LInv
      <4>2. CASE ACur = NoCurrent
        BY <1>0, <3>2, <4>1, <4>2 DEF View
      <4>3. CASE ACur # NoCurrent
        <5>1. ACur + 1 \in 1 .. Len(order') /\ order'[ACur + 1] = current' /\ ~lost'
          BY <1>0, <2>5, <4>1, <4>3 DEF View, NoCurrent
        <5> QED
          BY <1>0, <3>2, <4>1, <4>3, <5>1 DEF View
      <4> QED
        BY <4>2, <4>3
    <3> QED
      BY <3>1, <3>2
  <2>7. last' = Call("addHead", x)
    BY <1>3 DEF AddHead, Returns
  <2> QED
    BY <2>4, <2>6, <2>7, SpecAddHead
<1> QED
  BY <1>2, <1>3

(* What every removal makes of the list and of the positions in it.        *)
LEMMA RemovalImplements ==
  ASSUME LInv, LInv', Idle, Idle', NEW n \in DOMAIN heap, Removed(n),
         order' = Without(order, Place(n))
  PROVE  /\ View /\ View' /\ Len(order) \in Nat /\ Len(AItems) = Len(order)
         /\ AItems # << >> /\ Place(n) \in 1 .. Len(order) /\ order[Place(n)] = n
         /\ AItems' = Without(AItems, Place(n)) /\ AItems[Place(n)] = heap[n].item
         /\ Len(order') = Len(order) - 1
         /\ \A i \in 1 .. Len(order) - 1 :
              order'[i] = IF i < Place(n) THEN order[i] ELSE order[i + 1]
<1>1. Place(n) \in 1 .. Len(order) /\ order[Place(n)] = n
  BY Placed
<1>2. View /\ View'
  BY ViewIs, ViewNext
<1>3. /\ Whole(heap, order) /\ Len(order) \in Nat
      /\ (order = << >> <=> Len(order) = 0)
  BY Entries DEF LInv, Whole
<1>4. Items(heap', order') = Without(Items(heap, order), Place(n))
  <2>1. \A p, q : Shrunk(heap', order', heap, order, Place(n), p, q) =>
          Items(heap', order') = Without(Items(heap, order), Place(n))
    BY <1>1, <1>3, UnlinkedItems
  <2>2. Shrunk(heap', order', heap, order, Place(n), heap[n].prev, heap[n].next)
    BY DEF Removed
  <2> QED
    BY <2>1, <2>2
<1>5. /\ Len(order') = Len(order) - 1
      /\ \A i \in 1 .. Len(order) - 1 :
           order'[i] = IF i < Place(n) THEN order[i] ELSE order[i + 1]
  BY <1>1, <1>3, WithoutEntry DEF Chain, Whole
<1>6. /\ Len(AItems) = Len(order) /\ AItems # << >> /\ AItems[Place(n)] = heap[n].item
      /\ AItems = Items(heap, order) /\ AItems' = Items(heap', order')
  BY <1>1, <1>2, <1>3 DEF View, Spells
<1> QED
  BY <1>1, <1>2, <1>3, <1>4, <1>5, <1>6

LEMMA RemoveHeadImplements ==
  ASSUME LInv, LInv', RemoveHead PROVE CL!RemoveHead
<1>0. Idle /\ (head = NULL <=> AItems = << >>)
  <2>1. Idle /\ head = At(order, 1)
    BY DEF RemoveHead, LInv
  <2> QED
    BY <2>1, ViewIs, Entries DEF View, Spells
<1>1. CASE head = NULL
  <2>1. ReturnNull("removeHead")
    BY <1>1 DEF RemoveHead
  <2> QED
    BY <1>0, <1>1, <2>1, Nothing, SpecRemoveHead
<1>2. CASE head # NULL
  <2>1. /\ Idle /\ Idle' /\ head \in DOMAIN heap /\ Place(head) = 1 /\ Removed(head)
        /\ order' = Without(order, Place(head))
        /\ last' = Call("removeHead", heap[head].item)
        /\ current' = current /\ lost' = (lost \/ current = head)
    BY <1>2, HeadRemoved
  <2>2. /\ View /\ View' /\ Len(order) \in Nat /\ AItems # << >> /\ 1 \in 1 .. Len(order)
        /\ order[1] = head /\ AItems' = Without(AItems, 1) /\ AItems[1] = heap[head].item
        /\ Len(order') = Len(order) - 1
        /\ \A i \in 1 .. Len(order) - 1 : order'[i] = order[i + 1]
    BY <2>1, RemovalImplements
  <2>3. ACur = 1 <=> ~lost /\ current = head
    BY <1>2, <2>2 DEF View, NoCurrent
  <2>4. ALost' = (ALost \/ ACur = 1)
    BY <2>1, <2>2, <2>3 DEF View, LInv
  <2>5. ACur' = IF ACur \in {1, NoCurrent} THEN NoCurrent ELSE ACur - 1
    <3>1. CASE ACur \in {1, NoCurrent}
      BY <2>1, <2>2, <2>3, <3>1 DEF View
    <3>2. CASE ACur \notin {1, NoCurrent}
      <4>1. ACur - 1 \in 1 .. Len(order') /\ order'[ACur - 1] = order[ACur]
        BY <2>2, <3>2 DEF View, NoCurrent
      <4>2. order[ACur] = current' /\ ~lost'
        BY <2>1, <2>2, <2>3, <3>2 DEF View
      <4> QED
        BY <2>2, <3>2, <4>1, <4>2 DEF View
    <3> QED
      BY <3>1, <3>2
  <2> QED
    BY <2>1, <2>2, <2>4, <2>5, SpecRemoveHead DEF SpecRemove
<1> QED
  BY <1>1, <1>2

LEMMA RemoveTailImplements ==
  ASSUME LInv, LInv', RemoveTail PROVE CL!RemoveTail
<1>0. Idle /\ (tail = NULL <=> AItems = << >>)
  <2>1. Idle /\ tail = At(order, Len(order))
    BY DEF RemoveTail, LInv
  <2> QED
    BY <2>1, ViewIs, Entries DEF View, Spells
<1>1. CASE tail = NULL
  <2>1. ReturnNull("removeTail")
    BY <1>1 DEF RemoveTail
  <2> QED
    BY <1>0, <1>1, <2>1, Nothing, SpecRemoveTail
<1>2. CASE tail # NULL
  <2>1. /\ Idle /\ Idle' /\ tail \in DOMAIN heap /\ Place(tail) = Len(order) /\ Removed(tail)
        /\ order' = Without(order, Place(tail))
        /\ last' = Call("removeTail", heap[tail].item)
        /\ current' = current /\ lost' = (lost \/ current = tail)
    BY <1>2, TailRemoved
  <2>2. /\ View /\ View' /\ Len(order) \in Nat /\ Len(AItems) = Len(order) /\ AItems # << >>
        /\ Len(order) \in 1 .. Len(order) /\ order[Len(order)] = tail
        /\ AItems' = Without(AItems, Len(order)) /\ AItems[Len(order)] = heap[tail].item
        /\ Len(order') = Len(order) - 1
        /\ \A i \in 1 .. Len(order) - 1 : order'[i] = order[i]
    BY <2>1, RemovalImplements
  <2>3. ACur = Len(order) <=> ~lost /\ current = tail
    BY <1>2, <2>2 DEF View, NoCurrent
  <2>4. ALost' = (ALost \/ ACur = Len(order))
    BY <2>1, <2>2, <2>3 DEF View, LInv
  <2>5. ACur' = IF ACur = Len(order) THEN NoCurrent ELSE ACur
    <3>1. CASE ACur \in {Len(order), NoCurrent}
      BY <2>1, <2>2, <2>3, <3>1 DEF View
    <3>2. CASE ACur \notin {Len(order), NoCurrent}
      <4>1. ACur \in 1 .. Len(order') /\ order'[ACur] = order[ACur]
        BY <2>2, <3>2 DEF View, NoCurrent
      <4>2. order[ACur] = current' /\ ~lost'
        BY <2>1, <2>2, <2>3, <3>2 DEF View
      <4> QED
        BY <2>2, <3>2, <4>1, <4>2 DEF View
    <3> QED
      BY <3>1, <3>2
  <2> QED
    BY <2>1, <2>2, <2>4, <2>5, SpecRemoveTail DEF SpecRemove
<1> QED
  BY <1>1, <1>2

LEMMA RemoveCurrentImplements ==
  ASSUME LInv, LInv', NEW direction \in {"listPREV", "listNEXT"}, RemoveCurrent(direction)
  PROVE  CL!CLNext
<1>0. /\ Idle /\ ~lost /\ ~ALost /\ View /\ (current = NULL <=> ACur = NoCurrent)
  <2>1. Idle /\ ~lost
    BY DEF RemoveCurrent
  <2> QED
    BY <2>1, ViewIs DEF View
<1>1. ASSUME /\ direction = "listPREV" =>
                  SpecRemoved("listPREV", IF ACur = NoCurrent THEN NoCurrent ELSE ACur - 1)
             /\ direction = "listNEXT" =>
                  SpecRemoved("listNEXT", IF ACur = Len(AItems) THEN NoCurrent ELSE ACur)
      PROVE  CL!CLNext
  <2>1. CASE direction = "listPREV"
    BY <1>0, <1>1, <2>1, SpecRemovePrev
  <2>2. CASE direction = "listNEXT"
    BY <1>0, <1>1, <2>2, SpecRemoveNext
  <2> QED
    BY <2>1, <2>2
<1>2. CASE current = NULL
  <2>1. ReturnNull(direction)
    BY <1>2 DEF RemoveCurrent
  <2>2. SpecNothing(direction)
    BY <2>1, Nothing
  <2> QED
    BY <1>0, <1>1, <1>2, <2>2 DEF SpecRemoved
<1>3. CASE current # NULL
  <2> DEFINE k == Place(current)
  <2>1. /\ Idle' /\ lost' = lost /\ current \in DOMAIN heap /\ Removed(current)
        /\ order' = Without(order, k)
        /\ last' = Call(direction, heap[current].item)
        /\ current' = IF direction = "listPREV" THEN heap[current].prev
                      ELSE heap[current].next
    BY <1>3, CurrentRemoved
  <2>2. heap[current].prev = At(order, k - 1) /\ heap[current].next = At(order, k + 1)
    BY <1>0, <2>1, Neighbours
  <2>3. /\ View' /\ Len(order) \in Nat /\ Len(AItems) = Len(order) /\ k \in 1 .. Len(order)
        /\ order[k] = current /\ AItems' = Without(AItems, k) /\ AItems[k] = heap[current].item
        /\ Len(order') = Len(order) - 1
        /\ \A i \in 1 .. Len(order) - 1 : order'[i] = IF i < k THEN order[i] ELSE order[i + 1]
    BY <1>0, <2>1, RemovalImplements
  <2>4. ACur = k /\ ACur # NoCurrent
    BY <1>0, <1>3, <2>3 DEF View, NoCurrent
  <2> HIDE DEF k
  <2>5. ALost' = FALSE
    <3>1. ~lost' /\ lost' \in BOOLEAN
      BY <1>0, <2>1 DEF LInv
    <3> QED
      BY <2>3, <3>1 DEF View
  <2>6. CASE direction = "listPREV"
    <3>1. current' = At(order, k - 1) /\ ~lost'
      BY <1>0, <2>1, <2>2, <2>6
    <3>2. CASE k = 1
      <4>1. current' = NULL
        BY <3>1, <3>2 DEF At
      <4>2. ACur' = k - 1
        BY <2>3, <3>2, <4>1 DEF View, NoCurrent
      <4> QED
        BY <1>1, <2>1, <2>3, <2>4, <2>5, <2>6, <4>2 DEF SpecRemoved, SpecRemove
    <3>3. CASE k # 1
      <4>1. k - 1 \in 1 .. Len(order') /\ order'[k - 1] = current'
        BY <2>3, <3>1, <3>3 DEF At
      <4>2. ACur' = k - 1
        BY <2>3, <3>1, <4>1 DEF View
      <4> QED
        BY <1>1, <2>1, <2>3, <2>4, <2>5, <2>6, <4>2 DEF SpecRemoved, SpecRemove
    <3> QED
      BY <3>2, <3>3
  <2>7. CASE direction = "listNEXT"
    <3>1. current' = At(order, k + 1) /\ ~lost'
      BY <1>0, <2>1, <2>2, <2>7
    <3>2. CASE k = Len(order)
      <4>1. current' = NULL
        BY <2>3, <3>1, <3>2 DEF At
      <4>2. ACur' = NoCurrent
        BY <2>3, <4>1 DEF View
      <4> QED
        BY <1>1, <2>1, <2>3, <2>4, <2>5, <2>7, <3>2, <4>2 DEF SpecRemoved, SpecRemove
    <3>3. CASE k # Len(order)
      <4>1. k \in 1 .. Len(order') /\ order'[k] = current'
        BY <2>3, <3>1, <3>3 DEF At
      <4>2. ACur' = k
        BY <2>3, <3>1, <4>1 DEF View
      <4> QED
        BY <1>1, <2>1, <2>3, <2>4, <2>5, <2>7, <3>3, <4>2 DEF SpecRemoved, SpecRemove
    <3> QED
      BY <3>2, <3>3
  <2> QED
    BY <2>6, <2>7
<1> QED
  BY <1>2, <1>3

LEMMA ClearImplements ==
  ASSUME LInv, LInv', Clear PROVE CL!Clear
<1>1. Idle /\ head = At(order, 1) /\ order # << >> /\ pNode' = head
      /\ last' = Call("clear", NULL)
  BY Entries DEF Clear, LInv, Returns
<1>2. head # NULL
  BY <1>1, Entries
<1>3. AItems # << >>
  BY <1>1, ViewIs DEF View, Spells
<1>4. ~Idle'
  BY <1>1, <1>2 DEF Idle
<1>5. AItems' = << >> /\ ACur' = NoCurrent /\ ALost' = FALSE
  BY <1>4 DEF AItems, ACur, ALost
<1> QED
  BY <1>1, <1>3, <1>5, SpecClear

LEMMA ClearTurnStutters ==
  ASSUME LInv, LInv', ClearTurn
  PROVE  AItems' = AItems /\ ACur' = ACur /\ ALost' = ALost /\ last' = last
<1>1. AItems = << >> /\ ACur = NoCurrent /\ ALost = FALSE /\ last' = last
  BY DEF ClearTurn, AItems, ACur, ALost
<1>2. CASE Idle'
  <2>1. current' = NULL /\ ~lost' /\ nNumEntries' = 0
    BY <1>2 DEF ClearTurn, Idle
  <2>2. View' /\ Len(order') = 0
    BY <1>2, <2>1, ViewNext DEF LInv
  <2>3. AItems' = << >> /\ ACur' = NoCurrent
    BY <2>1, <2>2, EmptySeq DEF View, Spells
  <2>4. ALost' = FALSE
    BY <2>1 DEF ALost
  <2> QED
    BY <1>1, <2>3, <2>4
<1>3. CASE ~Idle'
  <2>1. AItems' = << >> /\ ACur' = NoCurrent /\ ALost' = FALSE
    BY <1>3 DEF AItems, ACur, ALost
  <2> QED
    BY <1>1, <2>1
<1> QED
  BY <1>2, <1>3

(* The variables of CursorListSpec.                                        *)
Abstract == <<AItems, ACur, ALost, last>>

LEMMA InitImplements == Init => CL!CLInit
  BY DEF Init, CL!CLInit, CL!Call, Call, Idle, CL!NoCurrent, NoCurrent

LEMMA StepImplements ==
  ASSUME LInv, LInv', [Next]_vars
  PROVE  [CL!CLNext]_Abstract
<1>1. CASE UNCHANGED vars
  BY <1>1 DEF vars, pointers, Abstract, AItems, Items, ACur, ALost, Place, Idle
<1>2. ASSUME NEW x \in Item, AddTail(x) \/ AddHead(x) PROVE CL!CLNext
  BY <1>2, AddsImplement DEF CL!CLNext
<1>3. CASE GetHead \/ GetTail \/ GetNext \/ GetPrev
  BY <1>3, TraversalsImplement
<1>4. CASE RemoveHead
  BY <1>4, RemoveHeadImplements DEF CL!CLNext
<1>5. CASE RemoveTail
  BY <1>5, RemoveTailImplements DEF CL!CLNext
<1>6. ASSUME NEW direction \in {"listPREV", "listNEXT"}, RemoveCurrent(direction)
      PROVE  CL!CLNext
  BY <1>6, RemoveCurrentImplements
<1>7. CASE Clear
  BY <1>7, ClearImplements DEF CL!CLNext
<1>8. CASE ClearTurn
  BY <1>8, ClearTurnStutters DEF Abstract
<1> QED
  BY <1>1, <1>2, <1>3, <1>4, <1>5, <1>6, <1>7, <1>8 DEF Next

(* What linkedlist.h does to nodes and pointers is, seen by a caller, what *)
(* CursorListSpec promises: every call changes the sequence and the cursor *)
(* as the specification says and returns the same object, and the turns of *)
(* the loop of purge() and empty() change nothing more that can be seen.   *)
THEOREM CursorListImplemented == Spec => ImplementsCursorList
<1>1. LInv /\ LInv' /\ [Next]_vars => [CL!CLNext]_Abstract
  BY StepImplements
<1> QED
  BY InitLinked, LinkedStep, InitImplements, <1>1, PTL
     DEF Spec, ImplementsCursorList, CL!CLSpec, Abstract, AItems, ACur, ALost, Items
=============================================================================
