-------------------------------- MODULE Mount --------------------------------
(***************************************************************************)
(* The mount (im-mount): the file system in memory (memfs.rs), the view of *)
(* contacts and messages built in it (im_view.rs), and CachedFs, which     *)
(* serves directory listings from the LRU cache and invalidates them on    *)
(* writes (dir_cache.rs).                                                  *)
(*                                                                         *)
(* A path is the text callers spell, cut at its slashes: <<"", "a", "b">>  *)
(* is "/a/b", <<"a", "">> is "a/", <<"", "">> is "/", and <<"">> is "".    *)
(* File operations look at the parts that are not empty, the cache at the  *)
(* text.                                                                   *)
(***************************************************************************)
EXTENDS Lru, FiniteSets

CONSTANTS Contacts,     \* contacts of the view
          ChatDays,     \* [peer, day] of the messages of the view
          Paths,        \* the paths callers name, however they spell them
          MaxInodes     \* bound on inodes
ASSUME MountAssumption ==
    /\ IsFiniteSet(Contacts) /\ IsFiniteSet(ChatDays) /\ MaxInodes \in Nat
    /\ \A p \in Paths : p \in Seq(STRING) /\ p # <<>>

VARIABLES memfs,    \* [nodes |-> inode -> [kind, children, data], next]
          cache,    \* DirCache: LruCache from spellings to listings
          used,     \* the cached spellings, latest use first
          missed    \* ghost: cached spellings whose directory was written since
                    \* through a path that does not continue them

mountVars == <<memfs, cache, used, missed>>

Root == 1
Node(kind, data) == [kind |-> kind, children |-> <<>>, data |-> data]
EmptyFs == [nodes |-> <<Node("dir", <<>>)>>, next |-> 2]

\* resolve: from the root, component by component; 0 is an error (a component
\* that is missing, or something below a file).
IsDir(fs, ino) == ino # 0 /\ fs.nodes[ino].kind = "dir"
Entry(fs, ino, name) ==
    IF IsDir(fs, ino) /\ name \in DOMAIN fs.nodes[ino].children
    THEN fs.nodes[ino].children[name] ELSE 0
resolve(fs, comps) ==
    LET cur[n \in 0..Len(comps)] == IF n = 0 THEN Root ELSE Entry(fs, cur[n - 1], comps[n])
    IN cur[Len(comps)]

lookup(fs, comps) == resolve(fs, comps) # 0

\* split_parent: the root has no parent.
Parent(fs, comps) == IF comps = <<>> THEN 0 ELSE resolve(fs, Front(comps))
Child(fs, comps) ==
    LET kids == fs.nodes[Parent(fs, comps)].children
    IN IF Last(comps) \in DOMAIN kids THEN kids[Last(comps)] ELSE 0

\* alloc and the entry in the parent; numbers are never used again.
Linked(fs, comps, node) ==
    LET p == Parent(fs, comps)
        with == [fs.nodes EXCEPT ![p].children =
                    [x \in DOMAIN @ \cup {Last(comps)} |->
                        IF x = Last(comps) THEN fs.next ELSE @[x]]]
    IN [nodes |-> [i \in DOMAIN with \cup {fs.next} |-> IF i = fs.next THEN node ELSE with[i]],
        next |-> fs.next + 1]

CanMkdir(fs, comps) == IsDir(fs, Parent(fs, comps)) /\ Child(fs, comps) = 0
FsMkdir(fs, comps) == Linked(fs, comps, Node("dir", <<>>))

CanWrite(fs, comps) == IsDir(fs, Parent(fs, comps)) /\ ~IsDir(fs, Child(fs, comps))
FsWrite(fs, comps, data) ==
    LET c == Child(fs, comps)
    IN IF c = 0 THEN Linked(fs, comps, Node("file", data))
       ELSE [fs EXCEPT !.nodes = [@ EXCEPT ![c].data = data]]

CanRemove(fs, comps) ==
    IsDir(fs, Parent(fs, comps)) /\ Child(fs, comps) # 0 /\ ~IsDir(fs, Child(fs, comps))
FsRemove(fs, comps) ==
    LET p == Parent(fs, comps)
        c == Child(fs, comps)
        without == [fs.nodes EXCEPT ![p].children = Restrict(@, DOMAIN @ \ {Last(comps)})]
    IN [fs EXCEPT !.nodes = Restrict(without, DOMAIN without \ {c})]

\* MemFs::read_dir of a directory: the entries with inode and kind.
Listing(fs, comps) ==
    LET kids == fs.nodes[resolve(fs, comps)].children
    IN {[name |-> n, ino |-> kids[n], kind |-> fs.nodes[kids[n]].kind] : n \in DOMAIN kids}

\* build_im_view: three directories, then a card per contact and, the messages
\* grouped first, a log per peer and day. The directory of a peer is made when it
\* is missing; that of the cards is there.
Card(c) == <<"contacts", c>>
HistoryLog(m) == <<"history", m.peer, m.day>>
TopDirs == FsMkdir(FsMkdir(FsMkdir(EmptyFs, <<"contacts">>), <<"history">>), <<"files">>)
Filed(fs, path) ==
    LET dir == Front(path)
        made == IF lookup(fs, dir) THEN fs ELSE FsMkdir(fs, dir)
    IN FsWrite(made, path, <<Last(path)>>)
build_im_view(contacts, days) ==
    LET paths == SetToSeq({Card(c) : c \in contacts}) \o SetToSeq({HistoryLog(m) : m \in days})
        view[i \in 0..Len(paths)] == IF i = 0 THEN TopDirs ELSE Filed(view[i - 1], paths[i])
    IN view[Len(paths)]

-----------------------------------------------------------------------------
\* memfs.rs: the parts that are not empty, from the front.
Blank == ""  \* what is between two slashes in a row
Named(comps, c) == IF c = Blank THEN comps ELSE Append(comps, c)
components(p) ==
    LET upTo[n \in 0..Len(p)] == IF n = 0 THEN <<>> ELSE Named(upTo[n - 1], p[n])
    IN upTo[Len(p)]

RootPath == <<Blank, Blank>>

MountInit ==
    /\ \E contacts \in SUBSET Contacts, days \in SUBSET ChatDays :
          memfs = build_im_view(contacts, days)
    /\ cache = EmptyLru
    /\ used = <<>>
    /\ missed = {}

\* The order of use without p, and with p in front, as much of it as is kept.
Without(order, p) ==
    IF p \in ToSet(order)
    THEN RemoveAt(order, CHOOSE i \in 1..Len(order) : order[i] = p) ELSE order
Trimmed(order) == IF Len(order) > CacheCapacity THEN Front(order) ELSE order

\* CachedFs::read_dir: a hit answers from the cache; a miss reads and puts the
\* listing there; an error is not cached.
CachedReadDir(p) ==
    /\ \/ /\ Cached(cache, p)
          /\ cache' = LruGet(cache, p)
          /\ missed' = missed
       \/ /\ ~Cached(cache, p)
          /\ IsDir(memfs, resolve(memfs, components(p)))
          /\ cache' = LruPut(cache, p, Listing(memfs, components(p)))
          /\ missed' = (missed \ {p}) \cap DOMAIN cache'.map
    /\ used' = Trimmed(<<p>> \o Without(used, p))
    /\ UNCHANGED memfs

\* Mutant of ParentSpelling: one part too many is cut off.
ParentSpelling_Grand(p) == IF Len(p) <= 3 THEN RootPath ELSE Front(Front(p))

\* What rsplit_once('/') leaves of the text, and "/" when that is nothing or
\* there is no slash: "/a/b" gives "/a", but "/a/" gives "/a" too and "a/b" "a".
ParentSpelling(p) == IF Front(p) \in {<<>>, <<Blank>>} THEN RootPath ELSE Front(p)

\* p is q, a slash and one more part; a part alone continues "/".
Continues(p, q) ==
    \/ q = RootPath /\ (Len(p) = 1 \/ (Len(p) = 2 /\ p[1] = Blank))
    \/ q # <<Blank>> /\ p = Append(q, Last(p))

\* After a write that succeeded, and only then.
invalidate_parent_of(p) ==
    /\ cache' = LruRemove(cache, ParentSpelling(p))
    /\ used' = Without(used, ParentSpelling(p))
    /\ missed' = {q \in DOMAIN cache'.map :
                    \/ q \in missed
                    \/ components(q) = Front(components(p)) /\ ~Continues(p, q)}

CachedMkdir(p) ==
    /\ CanMkdir(memfs, components(p)) /\ memfs.next <= MaxInodes
    /\ memfs' = FsMkdir(memfs, components(p))
    /\ invalidate_parent_of(p)

CachedWrite(p) ==
    /\ CanWrite(memfs, components(p)) /\ memfs.next <= MaxInodes
    /\ memfs' = FsWrite(memfs, components(p), <<>>)
    /\ invalidate_parent_of(p)

CachedRemove(p) ==
    /\ CanRemove(memfs, components(p))
    /\ memfs' = FsRemove(memfs, components(p))
    /\ invalidate_parent_of(p)

\* DirCache::invalidate_all.
InvalidateAll ==
    /\ cache' = EmptyLru
    /\ used' = <<>>
    /\ missed' = {}
    /\ UNCHANGED memfs

MountNext ==
    \/ \E p \in Paths : \/ CachedReadDir(p)
                       \/ CachedMkdir(p) \/ CachedWrite(p) \/ CachedRemove(p)
    \/ InvalidateAll

MountSpec == MountInit /\ [][MountNext]_mountVars

-----------------------------------------------------------------------------
\* A listing served from the cache is the listing of the directory as it is: a
\* write takes away the one listing it makes stale, when that is cached under the
\* text the write's path continues. A listing cached under another spelling of
\* the directory ("contacts", "//contacts" or "/contacts/" beside "/contacts") is
\* missed, and stays excepted until that text is read anew.
CacheFresh ==
    \A p \in DOMAIN cache.map \ missed :
       /\ IsDir(memfs, resolve(memfs, components(p)))
       /\ peek(cache, p) = Listing(memfs, components(p))

\* The slots, links, map and free stack are one LRU list: forwards the keys in
\* the order of their use, backwards the same reversed, every other slot free,
\* never more keys than the capacity, and slots for one more at most.
LruList ==
    /\ mru_order(cache) = used
    /\ lru_order(cache) = Reverse(used)
    /\ \A k \in DOMAIN cache.map : cache.slots[cache.map[k]].key = k
    /\ DOMAIN cache.map = ToSet(used) /\ Len(used) <= CacheCapacity
    /\ {i \in 1..Len(cache.slots) : cache.slots[i] = EmptySlot} = ToSet(cache.free)
    /\ Len(cache.slots) <= CacheCapacity + 1

\* Every entry of a directory leads to an inode that exists, and no inode has
\* two names: read_dir's expect never fires.
TreeSound ==
    LET Entries == UNION {{<<d, n>> : n \in DOMAIN memfs.nodes[d].children} :
                          d \in DOMAIN memfs.nodes}
        To(e) == memfs.nodes[e[1]].children[e[2]]
    IN /\ \A e \in Entries : To(e) \in DOMAIN memfs.nodes
       /\ \A e, f \in Entries : To(e) = To(f) => e = f

\* Every operation of CachedFs, however its paths are spelled, leaves a listing
\* cache that is fresh but for the listings missed, the list that is the cache in
\* one piece, and the tree of inodes sound, whatever was read, written, removed or
\* evicted before.
MountSound == CacheFresh /\ LruList /\ TreeSound

=============================================================================
