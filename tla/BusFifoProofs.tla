--------------------------- MODULE BusFifoProofs ---------------------------
(***************************************************************************)
(* Proofs about the linked list of BusFifo: however long the queue, its    *)
(* two operations keep the list in step with the sequence that Bus has in  *)
(* its place.                                                              *)
(***************************************************************************)
EXTENDS BusFifo, FiniteSetTheorems, SequenceTheorems, TLAPS

IsList(list) == DOMAIN list = {"node", "head", "tail"}

-----------------------------------------------------------------------------
(***************************************************************************)
(* There is an address that is not in use, whatever the heap holds.        *)
(***************************************************************************)
LEMMA FreshNodeIsFresh ==
  ASSUME NEW list, IsFiniteSet(DOMAIN list.node)
  PROVE  FreshNode(list) \in Nat \ {Null} /\ FreshNode(list) \notin DOMAIN list.node
<1> DEFINE D == DOMAIN list.node
           n == Cardinality(D)
<1>1. n \in Nat
  BY FS_CardinalityType
<1>2. IsFiniteSet(1 .. n + 1) /\ Cardinality(1 .. n + 1) = n + 1
  BY <1>1, FS_Interval
<1>3. ~ (1 .. n + 1 \subseteq D)
  <2>1. SUFFICES ASSUME 1 .. n + 1 \in SUBSET D PROVE FALSE
    OBVIOUS
  <2>2. Cardinality(1 .. n + 1) <= n
    BY <2>1, FS_Subset
  <2> QED BY <1>1, <1>2, <2>2
<1>4. \E a \in 1 .. n + 1 : a \notin D
  BY <1>3
<1>5. FreshNode(list) \in 1 .. n + 1 /\ FreshNode(list) \notin D
  BY <1>4 DEF FreshNode
<1> QED BY <1>1, <1>5 DEF Null

(***************************************************************************)
(* A list that holds a queue has as many nodes as the queue has packets,   *)
(* and so only finitely many.                                              *)
(***************************************************************************)
LEMMA NodesAreFinite ==
  ASSUME NEW Packets, NEW queue \in Seq(Packets), NEW path \in Seq(Nat),
         NEW list, HoldsAlong(list, path, queue)
  PROVE  IsFiniteSet(DOMAIN list.node)
<1> DEFINE n == Len(queue)
           D == DOMAIN list.node
           f == [k \in 1 .. n |-> path[k]]
<1>1. n \in Nat /\ IsFiniteSet(1 .. n)
  BY FS_Interval
<1>2. D = {path[k] : k \in 1 .. n}
  BY DEF HoldsAlong
<1>3. f \in Surjection(1 .. n, D)
  BY <1>2 DEF Surjection
<1> QED BY <1>1, <1>3, FS_Surjection

(***************************************************************************)
(* Nothing is held by nothing.                                             *)
(***************************************************************************)
THEOREM EmptyFifoHoldsNothing == HoldsAlong(EmptyFifo, <<>>, <<>>)
BY DEF HoldsAlong, EmptyFifo

(***************************************************************************)
(* The queue is empty when its list has no head: the test of Bus_Iter.     *)
(***************************************************************************)
THEOREM EmptyWhenHeadless ==
  ASSUME NEW Packets, NEW queue \in Seq(Packets), NEW path \in Seq(Nat),
         NEW list, HoldsAlong(list, path, queue)
  PROVE  FifoIsEmpty(list) <=> queue = <<>>
<1>1. CASE queue = <<>>
  BY <1>1 DEF HoldsAlong, FifoIsEmpty
<1>2. CASE queue # <<>>
  <2>1. Len(queue) \in 1 .. Len(queue)
    BY <1>2
  <2> QED BY <1>2, <2>1 DEF HoldsAlong, FifoIsEmpty
<1> QED BY <1>1, <1>2

(***************************************************************************)
(* bus_fifo_Enqueue adds the packet behind all others, and leaves those as *)
(* they are.                                                               *)
(***************************************************************************)
THEOREM EnqueuedHolds ==
  ASSUME NEW Packets, NEW queue \in Seq(Packets), NEW path \in Seq(Nat),
         NEW item \in Packets,
         NEW list, IsList(list), HoldsAlong(list, path, queue)
  PROVE  HoldsAlong(Enqueued(list, item), Append(path, FreshNode(list)),
                    Append(queue, item))
<1> DEFINE a    == FreshNode(list)
           n    == Len(queue)
           new  == [item |-> item, next |-> list.head, parent |-> Null]
           L    == Enqueued(list, item)
           P    == Append(path, a)
           Q    == Append(queue, item)
           D    == DOMAIN list.node
<1> SUFFICES HoldsAlong(L, P, Q)
  OBVIOUS
<1>1. a \in Nat /\ a # Null /\ a \notin D
  BY NodesAreFinite, FreshNodeIsFresh
<1> HIDE DEF a
<1>2. /\ n \in Nat /\ Len(path) = n /\ Len(Q) = n + 1 /\ Len(P) = n + 1
      /\ P[n + 1] = a /\ Q[n + 1] = item
      /\ \A k \in 1 .. n : P[k] = path[k] /\ Q[k] = queue[k]
  BY <1>1 DEF HoldsAlong
<1>3. /\ \A k \in 1 .. n : path[k] # Null /\ path[k] \in D
      /\ \A j, k \in 1 .. n : path[j] = path[k] => j = k
      /\ D = {path[k] : k \in 1 .. n}
  BY DEF HoldsAlong
<1>4. /\ \A k \in 1 .. n :
           list.node[path[k]] =
             [item |-> queue[k],
              next |-> IF k - 1 \in 1 .. n THEN path[k - 1] ELSE Null,
              parent |-> IF k + 1 \in 1 .. n THEN path[k + 1] ELSE Null]
      /\ list.tail = IF 1 \in 1 .. n THEN path[1] ELSE Null
      /\ list.head = IF n \in 1 .. n THEN path[n] ELSE Null
  BY DEF HoldsAlong
<1> HIDE DEF P, Q, D
<1>5. CASE n = 0
  <2>1. L = [node |-> Allocated(list.node, a, new), head |-> a, tail |-> a]
    BY <1>4, <1>5 DEF Enqueued, FifoIsEmpty, a
  <2>2. D = {}
    BY <1>3, <1>5
  <2>3. /\ L.head = a /\ L.tail = a
        /\ DOMAIN L.node = {a}
        /\ L.node[a] = [item |-> item, next |-> Null, parent |-> Null]
    <3>1. list.head = Null
      BY <1>4, <1>5
    <3>2. Allocated(list.node, a, new) = [x \in {a} |-> [item |-> item, next |-> Null, parent |-> Null]]
      BY <2>2, <3>1 DEF Allocated, D
    <3>3. /\ L.head = a /\ L.tail = a
          /\ L.node = [x \in {a} |-> [item |-> item, next |-> Null, parent |-> Null]]
      BY <2>1, <3>2
    <3> HIDE DEF L
    <3> QED BY <3>3
  <2> HIDE DEF L
  <2>4. /\ Len(P) = 1 /\ Len(Q) = 1 /\ P[1] = a /\ Q[1] = item
        /\ \A k \in 1 .. 1 : k = 1 /\ k - 1 \notin 1 .. 1 /\ k + 1 \notin 1 .. 1
    BY <1>2, <1>5
  <2>5. DOMAIN L.node = {P[k] : k \in 1 .. 1}
    BY <2>3, <2>4
  <2> QED BY <1>1, <2>3, <2>4, <2>5 DEF HoldsAlong
<1>6. CASE n # 0
  <2>1. n \in 1 .. n /\ 1 \in 1 .. n
    BY <1>2, <1>6
  <2>2. list.head = path[n] /\ list.head \in D /\ list.head # Null
    BY <1>3, <1>4, <2>1
  <2>3. L = [list EXCEPT
               !.node = Allocated([list.node EXCEPT ![list.head].parent = a], a, new),
               !.head = a]
    BY <2>2 DEF Enqueued, FifoIsEmpty, a
  <2>4. /\ L.head = a /\ L.tail = list.tail
        /\ L.node = Allocated([list.node EXCEPT ![list.head].parent = a], a, new)
    BY <2>3 DEF IsList
  <2> HIDE DEF L
  <2>5. /\ DOMAIN L.node = {a} \cup D
        /\ L.node[a] = [item |-> item, next |-> path[n], parent |-> Null]
        /\ \A x \in D : L.node[x] =
             IF x = path[n] THEN [list.node[x] EXCEPT !.parent = a]
                            ELSE list.node[x]
    BY <1>1, <2>2, <2>4 DEF Allocated, D
  <2>6. \A k \in 1 .. n : L.node[path[k]] =
          [item |-> queue[k],
           next |-> IF k - 1 \in 1 .. n THEN path[k - 1] ELSE Null,
           parent |-> IF k = n THEN a ELSE path[k + 1]]
    <3> TAKE k \in 1 .. n
    <3>1. path[k] \in D
      BY <1>3
    <3>2. CASE k = n
      <4>1. L.node[path[k]] = [list.node[path[k]] EXCEPT !.parent = a]
        BY <2>5, <3>1, <3>2
      <4>2. list.node[path[k]] =
              [item |-> queue[k],
               next |-> IF k - 1 \in 1 .. n THEN path[k - 1] ELSE Null,
               parent |-> IF k + 1 \in 1 .. n THEN path[k + 1] ELSE Null]
        BY <1>4
      <4> QED BY ONLY <3>2, <4>1, <4>2
    <3>3. CASE k # n
      <4>1. path[k] # path[n]
        BY <1>3, <2>1, <3>3
      <4>2. k + 1 \in 1 .. n
        BY <1>2, <3>3
      <4> QED BY <1>4, <2>5, <3>1, <3>3, <4>1, <4>2
    <3> QED BY <3>2, <3>3
  <2>7. \A k \in 1 .. n + 1 : P[k] # Null
    BY <1>1, <1>2, <1>3
  <2>8. \A j, k \in 1 .. n + 1 : P[j] = P[k] => j = k
    <3>1. \A k \in 1 .. n + 1 : \/ k \in 1 .. n /\ P[k] = path[k] /\ P[k] # a
                                \/ k = n + 1 /\ P[k] = a
      BY <1>1, <1>2, <1>3
    <3> QED BY <1>3, <3>1
  <2>9. DOMAIN L.node = {P[k] : k \in 1 .. n + 1}
    <3>1. 1 .. n + 1 = (1 .. n) \cup {n + 1}
      BY <1>2
    <3>2. {P[k] : k \in 1 .. n + 1} = {P[k] : k \in 1 .. n} \cup {P[n + 1]}
      BY ONLY <3>1
    <3>3. {P[k] : k \in 1 .. n} = {path[k] : k \in 1 .. n}
      BY <1>2
    <3> QED BY <1>2, <1>3, <2>5, <3>2, <3>3
  <2>10. \A k \in 1 .. n + 1 : L.node[P[k]] =
           [item |-> Q[k],
            next |-> IF k - 1 \in 1 .. n + 1 THEN P[k - 1] ELSE Null,
            parent |-> IF k + 1 \in 1 .. n + 1 THEN P[k + 1] ELSE Null]
    <3> TAKE k \in 1 .. n + 1
    <3>1. CASE k = n + 1
      BY <1>2, <2>1, <2>5, <3>1
    <3>2. CASE k # n + 1
      <4>1. k \in 1 .. n /\ k + 1 \in 1 .. n + 1 /\ k - 1 \in 0 .. n
        BY <1>2, <3>2
      <4>2. P[k + 1] = IF k = n THEN a ELSE path[k + 1]
        BY <1>2, <4>1
      <4>3. k - 1 \in 1 .. n + 1 <=> k - 1 \in 1 .. n
        BY <1>2, <4>1
      <4> QED BY <1>2, <2>6, <4>1, <4>2, <4>3
    <3> QED BY <3>1, <3>2
  <2>11. L.tail = P[1] /\ L.head = P[n + 1]
    BY <1>2, <1>4, <2>1, <2>4
  <2> QED BY <1>2, <2>7, <2>8, <2>9, <2>10, <2>11 DEF HoldsAlong
<1> QED BY <1>5, <1>6

(***************************************************************************)
(* bus_fifo_Dequeue takes the packet that has waited longest, and leaves   *)
(* the others as they are.                                                 *)
(***************************************************************************)
THEOREM DequeuedHolds ==
  ASSUME NEW Packets, NEW queue \in Seq(Packets), queue # <<>>,
         NEW path \in Seq(Nat),
         NEW list, IsList(list), HoldsAlong(list, path, queue)
  PROVE  /\ list.node[list.tail].item = Head(queue)
         /\ HoldsAlong(Dequeued(list), Tail(path), Tail(queue))
<1> DEFINE n    == Len(queue)
           L    == Dequeued(list)
           P    == Tail(path)
           Q    == Tail(queue)
           D    == DOMAIN list.node
           rest == [x \in D \ {list.tail} |-> list.node[x]]
<1> SUFFICES /\ list.node[list.tail].item = Head(queue)
             /\ HoldsAlong(L, P, Q)
  OBVIOUS
<1>1. /\ n \in Nat \ {0} /\ 1 \in 1 .. n /\ n \in 1 .. n
      /\ Len(path) = n /\ Len(Q) = n - 1 /\ Len(P) = n - 1
      /\ \A k \in 1 .. n - 1 : k \in 1 .. n /\ k + 1 \in 1 .. n
      /\ \A k \in 1 .. n - 1 : P[k] = path[k + 1] /\ Q[k] = queue[k + 1]
  BY DEF HoldsAlong
<1>2. /\ \A k \in 1 .. n : path[k] # Null /\ path[k] \in D
      /\ \A j, k \in 1 .. n : path[j] = path[k] => j = k
      /\ D = {path[k] : k \in 1 .. n}
  BY DEF HoldsAlong
<1>3. \A k \in 1 .. n :
        list.node[path[k]] =
          [item |-> queue[k],
           next |-> IF k - 1 \in 1 .. n THEN path[k - 1] ELSE Null,
           parent |-> IF k + 1 \in 1 .. n THEN path[k + 1] ELSE Null]
  BY DEF HoldsAlong
<1>4. list.tail = path[1] /\ list.head = path[n]
  BY <1>1 DEF HoldsAlong
<1>5. /\ list.node[list.tail].item = Head(queue)
      /\ list.node[list.tail].parent = IF n = 1 THEN Null ELSE path[2]
  <2>1. 1 + 1 = 2 /\ (2 \in 1 .. n <=> n # 1) /\ Head(queue) = queue[1]
    <3>1. n \in Nat \ {0}
      BY <1>1
    <3>2. \A m \in Nat \ {0} : 1 + 1 = 2 /\ (2 \in 1 .. m <=> m # 1)
      OBVIOUS
    <3>3. Head(queue) = queue[1]
      OBVIOUS
    <3> QED BY <3>1, <3>2, <3>3
  <2>2. list.node[path[1]] =
          [item |-> queue[1],
           next |-> IF 1 - 1 \in 1 .. n THEN path[1 - 1] ELSE Null,
           parent |-> IF 1 + 1 \in 1 .. n THEN path[1 + 1] ELSE Null]
    BY ONLY <1>1, <1>3
  <2> QED BY ONLY <1>4, <2>1, <2>2
<1>6. list.tail # Null
  BY <1>1, <1>2, <1>4
<1> HIDE DEF P, Q
<1>7. CASE n = 1
  <2>1. L = [node |-> rest, head |-> Null, tail |-> Null]
    BY <1>5, <1>6, <1>7 DEF Dequeued
  <2>2. D = {list.tail}
    BY <1>1, <1>2, <1>4, <1>7
  <2> HIDE DEF L
  <2>3. L.head = Null /\ L.tail = Null /\ DOMAIN L.node = {}
    BY <2>1, <2>2
  <2>4. Len(P) = 0 /\ Len(Q) = 0 /\ 1 .. 0 = {}
    BY <1>1, <1>7
  <2> QED BY <1>5, <2>3, <2>4 DEF HoldsAlong
<1>8. CASE n # 1
  <2>1. n - 1 \in Nat \ {0} /\ 2 \in 1 .. n /\ path[2] \in D
        /\ path[2] # Null /\ path[2] # path[1]
    <3>1. n - 1 \in Nat \ {0} /\ 2 \in 1 .. n
      BY <1>1, <1>8
    <3>2. path[2] \in D /\ path[2] # Null
      BY ONLY <1>2, <3>1
    <3>3. path[2] = path[1] => 2 = 1
      BY ONLY <1>1, <1>2, <3>1
    <3> QED BY ONLY <3>1, <3>2, <3>3
  <2>2. L = [list EXCEPT !.node = [rest EXCEPT ![path[2]].next = Null],
                         !.tail = path[2]]
    BY <1>5, <1>6, <1>8, <2>1 DEF Dequeued
  <2>3. /\ L.head = path[n] /\ L.tail = path[2]
        /\ L.node = [rest EXCEPT ![path[2]].next = Null]
    BY <1>4, <2>2 DEF IsList
  <2> HIDE DEF L
  <2>4. /\ DOMAIN L.node = D \ {path[1]}
        /\ \A x \in D \ {path[1]} : L.node[x] =
             IF x = path[2] THEN [list.node[x] EXCEPT !.next = Null]
                            ELSE list.node[x]
    BY <1>4, <2>1, <2>3
  <2> HIDE DEF D
  <2>5. \A k \in 1 .. n - 1 : P[k] # Null /\ P[k] \in D \ {path[1]}
    <3> TAKE k \in 1 .. n - 1
    <3>1. k + 1 \in 1 .. n /\ k + 1 # 1 /\ P[k] = path[k + 1]
      BY <1>1
    <3>2. path[k + 1] # Null /\ path[k + 1] \in D /\ path[k + 1] # path[1]
      BY ONLY <1>1, <1>2, <3>1
    <3> QED BY ONLY <3>1, <3>2
  <2>6. \A j, k \in 1 .. n - 1 : P[j] = P[k] => j = k
    <3> TAKE j, k \in 1 .. n - 1
    <3>1. /\ j + 1 \in 1 .. n /\ k + 1 \in 1 .. n
          /\ P[j] = path[j + 1] /\ P[k] = path[k + 1]
      BY ONLY <1>1
    <3>2. P[j] = P[k] => j + 1 = k + 1
      BY ONLY <1>2, <3>1
    <3>3. j + 1 = k + 1 => j = k
      OBVIOUS
    <3> QED BY ONLY <3>2, <3>3
  <2>7. DOMAIN L.node = {P[k] : k \in 1 .. n - 1}
    <3>1. \A k \in 1 .. n : k = 1 \/ (k - 1 \in 1 .. n - 1 /\ path[k] = P[k - 1])
      BY <1>1
    <3>2. \A x \in D \ {path[1]} : \E k \in 1 .. n - 1 : x = P[k]
      <4> TAKE x \in D \ {path[1]}
      <4>1. PICK k \in 1 .. n : x = path[k]
        BY <1>2
      <4> QED BY <3>1, <4>1
    <3> QED BY <2>4, <2>5, <3>2
  <2>8. \A k \in 1 .. n - 1 : L.node[P[k]] =
          [item |-> Q[k],
           next |-> IF k - 1 \in 1 .. n - 1 THEN P[k - 1] ELSE Null,
           parent |-> IF k + 1 \in 1 .. n - 1 THEN P[k + 1] ELSE Null]
    <3> TAKE k \in 1 .. n - 1
    <3>1. P[k] \in D \ {path[1]} /\ P[k] = path[k + 1] /\ Q[k] = queue[k + 1]
      BY <1>1, <2>5
    <3>2. list.node[P[k]] =
            [item |-> Q[k], next |-> path[k],
             parent |-> IF k + 1 \in 1 .. n - 1 THEN P[k + 1] ELSE Null]
      <4>1. list.node[path[k + 1]] =
              [item |-> queue[k + 1],
               next |-> IF (k + 1) - 1 \in 1 .. n THEN path[(k + 1) - 1] ELSE Null,
               parent |-> IF (k + 1) + 1 \in 1 .. n THEN path[(k + 1) + 1] ELSE Null]
        BY <1>1, <1>3
      <4>2. (k + 1) - 1 = k /\ k \in 1 .. n
        BY <1>1
      <4>3. (k + 1) + 1 \in 1 .. n <=> k + 1 \in 1 .. n - 1
        BY <1>1
      <4>4. k + 1 \in 1 .. n - 1 => path[(k + 1) + 1] = P[k + 1]
        BY <1>1
      <4> QED BY <3>1, <4>1, <4>2, <4>3, <4>4
    <3>3. CASE k = 1
      <4>1. L.node[P[k]] = [list.node[P[k]] EXCEPT !.next = Null]
        BY <2>4, <3>1, <3>3
      <4>2. k - 1 \notin 1 .. n - 1
        BY <3>3
      <4> QED BY ONLY <3>2, <4>1, <4>2
    <3>4. CASE k # 1
      <4>1. k + 1 \in 1 .. n /\ k + 1 # 2 /\ P[k] # path[2]
        BY <1>1, <1>2, <2>1, <3>1, <3>4
      <4>2. k - 1 \in 1 .. n - 1 /\ P[k - 1] = path[k]
        BY <1>1, <3>4
      <4> QED BY <2>4, <3>1, <3>2, <4>1, <4>2
    <3> QED BY <3>3, <3>4
  <2>9. L.tail = P[1] /\ L.head = P[n - 1] /\ 1 \in 1 .. n - 1 /\ n - 1 \in 1 .. n - 1
    <3>1. /\ 1 \in 1 .. n - 1 /\ n - 1 \in 1 .. n - 1
          /\ 1 + 1 = 2 /\ (n - 1) + 1 = n
      BY <2>1
    <3>2. P[1] = path[1 + 1] /\ P[n - 1] = path[(n - 1) + 1]
      BY <1>1, <3>1
    <3> QED BY <2>3, <3>1, <3>2
  <2> QED BY <1>1, <1>5, <2>5, <2>6, <2>7, <2>8, <2>9 DEF HoldsAlong
<1> QED BY <1>7, <1>8

-----------------------------------------------------------------------------
(***************************************************************************)
(* A list that holds a queue, in whatever nodes, goes on to hold it        *)
(* whatever the caches and the bus do.                                     *)
(***************************************************************************)
ListHolds(list, queue) ==
  IsList(list) /\ \E path \in Seq(Nat) : HoldsAlong(list, path, queue)

LEMMA EnqueuedListHolds ==
  ASSUME NEW Packets, NEW queue \in Seq(Packets), NEW item \in Packets,
         NEW list, ListHolds(list, queue)
  PROVE  ListHolds(Enqueued(list, item), Append(queue, item))
<1>1. PICK path \in Seq(Nat) : HoldsAlong(list, path, queue)
  BY DEF ListHolds
<1>2. FreshNode(list) \in Nat
  BY <1>1, NodesAreFinite, FreshNodeIsFresh
<1>3. Append(path, FreshNode(list)) \in Seq(Nat)
  BY <1>2
<1>4. HoldsAlong(Enqueued(list, item), Append(path, FreshNode(list)), Append(queue, item))
  BY <1>1, EnqueuedHolds DEF ListHolds
<1>5. IsList(Enqueued(list, item))
  BY DEF ListHolds, IsList, Enqueued
<1> QED
  BY <1>3, <1>4, <1>5 DEF ListHolds

(***************************************************************************)
(* So it is for the packets of an access, of which there are two at most.  *)
(***************************************************************************)
THEOREM EnqueuedInOrderHolds ==
  ASSUME NEW Packets, NEW queue \in Seq(Packets), NEW items \in Seq(Packets),
         Len(items) <= 2, NEW list, ListHolds(list, queue)
  PROVE  ListHolds(EnqueuedInOrder(list, items), queue \o items)
<1> DEFINE n == Len(queue)
<1>1. /\ n \in Nat /\ queue \o items \in Seq(Packets)
      /\ Len(queue \o items) = n + Len(items)
      /\ \A i \in 1 .. n + Len(items) :
           (queue \o items)[i] = IF i <= n THEN queue[i] ELSE items[i - n]
  BY ConcatProperties, LenProperties
<1>2. \A x \in Packets : /\ Append(queue, x) \in Seq(Packets)
                         /\ Len(Append(queue, x)) = n + 1
                         /\ \A i \in 1 .. n : Append(queue, x)[i] = queue[i]
                         /\ Append(queue, x)[n + 1] = x
  BY AppendProperties
<1>3. \A i \in 1 .. Len(items) : items[i] \in Packets
  BY LenProperties
<1>4. CASE items = <<>>
  BY <1>4, ConcatEmptySeq DEF EnqueuedInOrder
<1>5. CASE Len(items) = 1
  <2>1. items # <<>> /\ items[1] \in Packets
    BY <1>3, <1>5, EmptySeq
  <2>2. \A i \in 1 .. Len(queue \o items) : (queue \o items)[i] = Append(queue, items[1])[i]
    BY <1>1, <1>2, <1>5, <2>1
  <2>3. queue \o items = Append(queue, items[1])
    BY <1>1, <1>2, <1>5, <2>1, <2>2, SeqEqual
  <2> QED
    BY <1>5, <2>1, <2>3, EnqueuedListHolds DEF EnqueuedInOrder
<1>6. CASE Len(items) = 2
  <2>1. items # <<>> /\ items[1] \in Packets /\ items[2] \in Packets
    BY <1>3, <1>6, EmptySeq
  <2> DEFINE q1 == Append(queue, items[1])
             q2 == Append(q1, items[2])
  <2>2. q1 \in Seq(Packets) /\ ListHolds(Enqueued(list, items[1]), q1)
    BY <1>2, <2>1, EnqueuedListHolds
  <2>3. Len(q1) = n + 1 /\ q1[n + 1] = items[1] /\ \A i \in 1 .. n : q1[i] = queue[i]
    BY <1>2, <2>1
  <2>4. /\ q2 \in Seq(Packets) /\ Len(q2) = n + 2 /\ q2[n + 2] = items[2]
        /\ \A i \in 1 .. n + 1 : q2[i] = q1[i]
    BY <1>1, <2>1, <2>2, <2>3, AppendProperties
  <2>5. ListHolds(Enqueued(Enqueued(list, items[1]), items[2]), q2)
    BY <2>1, <2>2, EnqueuedListHolds
  <2> HIDE DEF q1, q2
  <2>6. \A i \in 1 .. Len(queue \o items) : (queue \o items)[i] = q2[i]
    BY <1>1, <1>6, <2>3, <2>4
  <2>7. queue \o items = q2
    BY <1>1, <1>6, <2>4, <2>6, SeqEqual
  <2> QED
    BY <1>6, <2>1, <2>5, <2>7 DEF EnqueuedInOrder
<1>7. items = <<>> \/ Len(items) = 1 \/ Len(items) = 2
  <2>1. Len(items) \in Nat /\ (items # <<>> => Len(items) # 0)
    BY LenProperties, EmptySeq
  <2>2. ASSUME NEW m \in Nat, m <= 2 PROVE m = 0 \/ m = 1 \/ m = 2
    BY <2>2
  <2> QED
    BY <2>1, <2>2
<1> QED
  BY <1>4, <1>5, <1>6, <1>7

(***************************************************************************)
(* The bus takes the packet that has waited longest, if there is one; an   *)
(* empty list it leaves alone.                                             *)
(***************************************************************************)
THEOREM DequeuedListHolds ==
  ASSUME NEW Packets, NEW queue \in Seq(Packets), NEW list, ListHolds(list, queue)
  PROVE  ListHolds(Dequeued(list), IF queue = <<>> THEN queue ELSE Tail(queue))
<1>1. PICK path \in Seq(Nat) : HoldsAlong(list, path, queue)
  BY DEF ListHolds
<1>2. CASE queue = <<>>
  <2>1. list.tail = Null
    BY <1>1, <1>2 DEF HoldsAlong
  <2> QED
    BY <1>2, <2>1 DEF Dequeued
<1>3. CASE queue # <<>>
  <2>1. HoldsAlong(Dequeued(list), Tail(path), Tail(queue))
    BY <1>1, <1>3, DequeuedHolds DEF ListHolds
  <2>2. path # <<>>
    BY <1>1, <1>3 DEF HoldsAlong
  <2>3. Tail(path) \in Seq(Nat)
    BY <2>2, HeadTailProperties
  <2>4. IsList(Dequeued(list))
    BY DEF ListHolds, IsList, Dequeued
  <2> QED
    BY <1>3, <2>1, <2>3, <2>4 DEF ListHolds
<1> QED
  BY <1>2, <1>3
=============================================================================
