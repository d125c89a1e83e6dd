--------------------------------- MODULE Lru ---------------------------------
(***************************************************************************)
(* The LRU cache of the mount (im-mount/src/lru.rs): a hash map for the    *)
(* place of a key and a doubly linked list for the order of use.  The list *)
(* lives in a vector of slots; links are indices (0 stands for None) and   *)
(* freed slots wait on a stack.  An operation maps a cache to a cache.     *)
(***************************************************************************)
EXTENDS Naturals, Sequences, SequencesExt, Functions

CONSTANT CacheCapacity
ASSUME LruAssumption == CacheCapacity \in Nat

EmptySlot == <<>>   \* None in slots
EmptyLru == [slots |-> <<>>, free |-> <<>>, map |-> <<>>, head |-> 0, tail |-> 0]
Cached(l, k) == k \in DOMAIN l.map
peek(l, k) == l.slots[l.map[k]].value

\* Mutant of unlink: the last slot goes, and tail still points to it.
unlink_KeepsTail(l, i) ==
    LET p == l.slots[i].prev
        n == l.slots[i].next
        s1 == IF p # 0 THEN [l.slots EXCEPT ![p].next = n] ELSE l.slots
        s2 == IF n # 0 THEN [s1 EXCEPT ![n].prev = p] ELSE s1
    IN [l EXCEPT !.slots = [s2 EXCEPT ![i].prev = 0, ![i].next = 0],
                 !.head = IF p = 0 THEN n ELSE @]

\* The neighbours close up; at the ends head and tail move.
unlink(l, i) ==
    LET p == l.slots[i].prev
        n == l.slots[i].next
        s1 == IF p # 0 THEN [l.slots EXCEPT ![p].next = n] ELSE l.slots
        s2 == IF n # 0 THEN [s1 EXCEPT ![n].prev = p] ELSE s1
    IN [l EXCEPT !.slots = [s2 EXCEPT ![i].prev = 0, ![i].next = 0],
                 !.head = IF p = 0 THEN n ELSE @,
                 !.tail = IF n = 0 THEN p ELSE @]

push_front(l, i) ==
    LET s1 == [l.slots EXCEPT ![i].prev = 0, ![i].next = l.head]
        s2 == IF l.head # 0 THEN [s1 EXCEPT ![l.head].prev = i] ELSE s1
    IN [l EXCEPT !.slots = s2, !.head = i, !.tail = IF @ = 0 THEN i ELSE @]

move_to_front(l, i) == IF l.head = i THEN l ELSE push_front(unlink(l, i), i)

\* get: a hit counts as use.
LruGet(l, k) == move_to_front(l, l.map[k])

\* A slot leaves the list for the stack of free ones.
Release(l, i) ==
    LET u == unlink(l, i)
    IN [u EXCEPT !.map = Restrict(@, DOMAIN @ \ {l.slots[i].key}),
                 !.slots = [@ EXCEPT ![i] = EmptySlot],
                 !.free = Append(@, i)]

evict_tail(l) == IF l.tail = 0 THEN l ELSE Release(l, l.tail)

LruRemove(l, k) == IF Cached(l, k) THEN Release(l, l.map[k]) ELSE l

\* A new key takes a free slot or a new one, and only then the tail goes.
Inserted(l, k, v) ==
    LET slot == [key |-> k, value |-> v, prev |-> 0, next |-> 0]
        i == IF l.free = <<>> THEN Len(l.slots) + 1 ELSE Last(l.free)
        placed == IF l.free = <<>>
                  THEN [l EXCEPT !.slots = Append(@, slot)]
                  ELSE [l EXCEPT !.slots = [@ EXCEPT ![i] = slot], !.free = Front(@)]
        linked == push_front(placed, i)
    IN [linked EXCEPT !.map = [x \in DOMAIN @ \cup {k} |-> IF x = k THEN i ELSE @[x]]]

LruPut(l, k, v) ==
    IF Cached(l, k)
    THEN move_to_front([l EXCEPT !.slots = [@ EXCEPT ![l.map[k]].value = v]], l.map[k])
    ELSE LET new == Inserted(l, k, v)
         IN IF Cardinality(DOMAIN new.map) > CacheCapacity THEN evict_tail(new) ELSE new

\* mru_order: the keys along the links from the head (link is "next"), and from
\* the tail (link is "prev").
Links(l, from, link) ==
    LET at[n \in 1..(Len(l.slots) + 1)] ==
          IF n = 1 THEN from ELSE IF at[n - 1] = 0 THEN 0 ELSE l.slots[at[n - 1]][link]
        visited == {n \in 1..Len(l.slots) : at[n] # 0}
    IN [j \in 1..Cardinality(visited) |-> l.slots[at[j]].key]
mru_order(l) == Links(l, l.head, "next")
lru_order(l) == Links(l, l.tail, "prev")

=============================================================================
