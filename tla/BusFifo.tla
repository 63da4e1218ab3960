------------------------------ MODULE BusFifo ------------------------------
(***************************************************************************)
(* The queue of the bus as Interface/src/Bus.c keeps it: a doubly linked   *)
(* list on the heap. A list is a record of the nodes that are allocated,   *)
(* by address, and of the pointers gQueueHead and gQueueTail. Packets come *)
(* in at the head and leave at the tail; parent leads from the tail to the *)
(* head, next leads back. An allocation always succeeds.                   *)
(***************************************************************************)
EXTENDS Integers, Sequences, SequencesExt

Null == 0

EmptyFifo == [node |-> <<>>, head |-> Null, tail |-> Null]

\* malloc: some address that is not in use; a freed one is used again.
FreshNode(list) == CHOOSE a \in 1 .. Cardinality(DOMAIN list.node) + 1 :
                     a \notin DOMAIN list.node

FifoIsEmpty(list) == list.head = Null

\* The nodes with one more, n, at address a.
Allocated(nodes, a, n) ==
  [x \in {a} \cup DOMAIN nodes |-> IF x = a THEN n ELSE nodes[x]]

\* bus_fifo_Enqueue.
Enqueued(list, item) ==
  LET a   == FreshNode(list)
      new == [item |-> item, next |-> list.head, parent |-> Null]
  IN  IF FifoIsEmpty(list)
      THEN [node |-> Allocated(list.node, a, new), head |-> a, tail |-> a]
      ELSE [list EXCEPT
              !.node = Allocated([list.node EXCEPT ![list.head].parent = a],
                                 a, new),
              !.head = a]

\* A run of bus_fifo_Enqueue calls: no access to a cache makes more than two.
EnqueuedInOrder(list, items) ==
  CASE items = <<>>   -> list
    [] Len(items) = 1 -> Enqueued(list, items[1])
    [] OTHER          -> Enqueued(Enqueued(list, items[1]), items[2])

\* Mutant: the head is left dangling when the last packet leaves.
DequeuedKeepingHead(list) ==
  LET last == list.tail
      up   == list.node[last].parent
      rest == [a \in DOMAIN list.node \ {last} |-> list.node[a]]
  IN  IF last = Null THEN list
      ELSE IF up = Null THEN [list EXCEPT !.node = rest, !.tail = Null]
      ELSE [list EXCEPT !.node = [rest EXCEPT ![up].next = Null], !.tail = up]

\* bus_fifo_Dequeue, but for the item it hands out. An empty queue stays as
\* it is.
Dequeued(list) ==
  LET last == list.tail
      up   == list.node[last].parent
      rest == [a \in DOMAIN list.node \ {last} |-> list.node[a]]
  IN  IF last = Null THEN list
      ELSE IF up = Null THEN [node |-> rest, head |-> Null, tail |-> Null]
      ELSE [list EXCEPT !.node = [rest EXCEPT ![up].next = Null], !.tail = up]

(***************************************************************************)
(* list holds the packets of queue, the oldest first, in the nodes of      *)
(* path: nothing is lost, nothing leaks, and no pointer dangles.           *)
(***************************************************************************)
HoldsAlong(list, path, queue) ==
  LET n == Len(queue)
      \* The node at place k, and no node beyond the ends.
      At(k) == IF k \in 1 .. n THEN path[k] ELSE Null
  IN  /\ Len(path) = n
      /\ \A k \in 1 .. n : path[k] # Null
      /\ \A j, k \in 1 .. n : path[j] = path[k] => j = k
      /\ DOMAIN list.node = {path[k] : k \in 1 .. n}
      /\ \A k \in 1 .. n :
           list.node[path[k]] =
             [item |-> queue[k], next |-> At(k - 1), parent |-> At(k + 1)]
      /\ list.tail = At(1)
      /\ list.head = At(n)
=============================================================================
