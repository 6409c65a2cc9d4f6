---------------------------- MODULE IndexedHeap ----------------------------
(***************************************************************************)
(* IndexedHeap of src/runtime/pool/indexed-heap.ts: the binary min-heap    *)
(* that orders the waiting tasks of the priority task pool and the timers  *)
(* of the delay pool, with the position of every item kept beside it so    *)
(* that an aborted or reprioritised item is found without a scan.          *)
(*                                                                         *)
(* Indices start at 0, as in the code.  The pools that use the heap choose *)
(* the least item of a set (TaskPools.tla, DelayPool.tla): this            *)
(* module shows that the heap finds it.                                    *)
(***************************************************************************)
EXTENDS Integers, FiniteSets

CONSTANTS
    Items,  \* tasks
    Keys    \* what compare() looks at; two tasks may compare equal

HeapAssumption == Keys \subseteq Int /\ Keys # {}

VARIABLES
    heap,    \* #items and #positions
    key,     \* the current key of every item
    members  \* history: items pushed and not taken out since

vars == <<heap, key, members>>

Length(h) == Cardinality(DOMAIN h.items)

Init ==
    /\ heap = [items |-> [i \in {} |-> i], positions |-> [x \in {} |-> x]]
    /\ key \in [Items -> Keys]
    /\ members = {}

\* f with x mapped to v, and f without x.
Put(f, x, v) == [y \in DOMAIN f \cup {x} |-> IF y = x THEN v ELSE f[y]]
Drop(f, x) == [y \in DOMAIN f \ {x} |-> f[y]]

Swap(h, a, b) ==
    [items |-> [h.items EXCEPT ![a] = h.items[b], ![b] = h.items[a]],
     positions |-> [h.positions EXCEPT ![h.items[b]] = a, ![h.items[a]] = b]]

Parent(i) == (i - 1) \div 2

\* up(): the heap and the index where the item comes to rest.
RECURSIVE Up(_, _, _)
Up(h, k, i) ==
    IF i = 0 \/ k[h.items[i]] >= k[h.items[Parent(i)]]
    THEN [heap |-> h, index |-> i]
    ELSE Up(Swap(h, i, Parent(i)), k, Parent(i))

\* The child down() compares with: the right one only if it is smaller.
SmallerChild(h, k, i) ==
    LET left == 2 * i + 1
        right == left + 1
    IN IF right < Length(h) /\ k[h.items[right]] < k[h.items[left]] THEN right ELSE left

RECURSIVE Down(_, _, _)
Down(h, k, i) ==
    IF 2 * i + 1 >= Length(h) THEN h
    ELSE LET child == SmallerChild(h, k, i)
         IN IF k[h.items[i]] <= k[h.items[child]] THEN h
            ELSE Down(Swap(h, i, child), k, child)

\* Mutant: the item that fills a hole only sinks.
FixDown(h, k, x) == Down(h, k, h.positions[x])

\* fix(): after its key or its place has changed an item may have to rise or sink.
Fix(h, k, x) ==
    LET risen == Up(h, k, h.positions[x])
    IN Down(risen.heap, k, risen.index)

Pushed(h, k, x) ==
    LET n == Length(h)
    IN Up([items |-> Put(h.items, n, x), positions |-> Put(h.positions, x, n)], k, n).heap

\* remove(): the last item fills the hole.
Removed(h, k, x) ==
    LET index == h.positions[x]
        n == Length(h) - 1
        last == h.items[n]
        items == Drop(h.items, n)
        positions == Drop(h.positions, x)
    IN IF index < n
       THEN Fix([items |-> Put(items, index, last),
                 positions |-> Put(positions, last, index)], k, last)
       ELSE [items |-> items, positions |-> positions]

\* A pool pushes each task once, with whatever key it has.
Push(x) ==
    /\ x \notin members
    /\ \E v \in Keys :
        /\ key' = [key EXCEPT ![x] = v]
        /\ heap' = Pushed(heap, key', x)
    /\ members' = members \cup {x}

\* pop(): the item at index 0.
Pop ==
    /\ Length(heap) > 0
    /\ LET top == heap.items[0]
       IN heap' = Removed(heap, key, top) /\ members' = members \ {top}
    /\ UNCHANGED key

\* remove() returns false for an item that is not in the heap.
Remove(x) ==
    /\ x \in DOMAIN heap.positions
    /\ heap' = Removed(heap, key, x)
    /\ members' = members \ {x}
    /\ UNCHANGED key

\* The owner gives an item another key and calls fix().
Rekey(x, v) ==
    /\ x \in DOMAIN heap.positions
    /\ key' = [key EXCEPT ![x] = v]
    /\ heap' = Fix(heap, key', x)
    /\ UNCHANGED members

Next ==
    \/ Pop
    \/ \E x \in Items : Push(x) \/ Remove(x)
    \/ \E x \in Items, v \in Keys : Rekey(x, v)

Spec == Init /\ [][Next]_vars

(***************************************************************************)
(* Properties                                                              *)
(***************************************************************************)

\* #items and #positions describe the same heap and hold exactly what was
\* pushed and not taken out: no sequence of removals from the middle and
\* reprioritisations loses, duplicates or misplaces a task.
PositionsAgree ==
    /\ DOMAIN heap.items = 0 .. Cardinality(members) - 1
    /\ DOMAIN heap.positions = members
    /\ \A x \in members :
        heap.positions[x] \in DOMAIN heap.items /\ heap.items[heap.positions[x]] = x

\* peek() and pop() give a least item of those in the heap, after any sequence
\* of pushes, removals from the middle and changes of keys.
LeastOnTop ==
    members # {} => \A x \in members : key[heap.items[0]] <= key[x]
=============================================================================
