----------------------------- MODULE HashTable -----------------------------
(***************************************************************************)
(* The concurrent hash table of libhashtable.c (contrib/hashtable).        *)
(*                                                                         *)
(* Memory is an entry store indexed by address: a slab is a pair          *)
(* <<first entry, entry count>>, bucket i of the active table is entry    *)
(* table[1] + i, and chains and the free chain are linked through the     *)
(* entries' next fields, so that a walker that follows a stale pointer    *)
(* ends up where the C code would.  Every entry has the rwlock_t of the   *)
(* code: a writer (wlock) and a set of readers (rlock).  The table lock   *)
(* is tlockW/tlockR and the resize mutex is rmutex.  The free-chain lock  *)
(* is not a variable: every critical section under it is one step.        *)
(*                                                                         *)
(* Each thread runs one API call at a time; pc[t] is its position in the  *)
(* call and L[t] holds the call's locals (dhte, phte, pphte, ohte, the    *)
(* resize cursor and the new table nht).  A step ends where the code      *)
(* blocks on a lock or where it touches shared memory that another        *)
(* thread may be changing without holding the same lock.                  *)
(*                                                                         *)
(* abs is a ghost: the key/data map the table should hold, changed at the *)
(* step where an insert or a delete changes what a locate would find.     *)
(* exp/got/intf in L[t] record the result the call should give on abs as  *)
(* it was when the call started, the result it gave, and whether another *)
(* thread changed the same key in between.                                *)
(***************************************************************************)
EXTENDS Naturals, FiniteSets, SequencesExt, Bitwise

CONSTANTS
    Threads,        \* threads calling the API
    Keys,           \* keys: byte tuples of the table's key size
    Data,           \* data pointers handed to ht_insert_key
    Ops,            \* the calls the threads make
    InitialSize,    \* numents passed to ht_create
    ResizeSizes,    \* numents a thread may pass to ht_resize
    MaxEntries,     \* entries malloc can provide; a slab beyond it fails
    Nil,            \* NULL
    NoThread        \* owner of an unheld lock

ASSUME
    /\ Ops \subseteq {"locate", "insert", "delete", "resize"}
    /\ InitialSize \in Nat \ {0}
    /\ ResizeSizes \subseteq Nat \ {0}
    /\ MaxEntries \in Nat /\ MaxEntries >= InitialSize
    /\ \A k \in Keys : k \in Seq(0..255) /\ Len(k) > 0

VARIABLES
    ent,        \* entry address -> [next, key, data, occ]
    alloc,      \* entries handed out by malloc so far (addresses 1..alloc)
    freed,      \* entries whose slab has been freed
    wlock,      \* entry -> thread holding its write lock, or NoThread
    rlock,      \* entry -> threads holding its read lock
    tlockW,     \* writer of ht->tablelock
    tlockR,     \* readers of ht->tablelock
    rmutex,     \* holder of ht->resizemutex
    ht,         \* the handle: [table, slabs, free, old]
    pc,         \* thread -> step of the call it is in
    L,          \* thread -> locals of that call
    abs         \* ghost: the set of <<key, data>> pairs the table holds

vars == <<ent, alloc, freed, wlock, rlock, tlockW, tlockR, rmutex, ht, pc, L, abs>>

Entries == 1..MaxEntries
NoSlab == <<0, 0>>
SlabEntries(s) == s[1] .. (s[1] + s[2] - 1)
Live(e) == e \in 1..alloc /\ e \notin freed
NoTable == [table |-> NoSlab, slabs |-> {}, free |-> Nil]

Fresh == [op |-> "none", key |-> Nil, data |-> Nil, n |-> 0,
          cur |-> Nil, prev |-> Nil, pprev |-> Nil, scan |-> Nil,
          idx |-> 0, nht |-> NoTable, exp |-> Nil, got |-> Nil, intf |-> FALSE]

-----------------------------------------------------------------------------
(* ht_hash_bytes: shift left by one and xor in each key byte, then reduce *)
(* modulo the table size.  Keys here are at most a few bytes long, so the *)
(* size_t shift never wraps.                                              *)
HashBytes(key, size) == FoldLeft(LAMBDA h, b : (2 * h) ^^ b, 0, key) % size

\* &ht->table->header.entry[hash_index] for a table slab tb
Bucket(tb, k) == tb[1] + HashBytes(k, tb[2])

\* Locks.  rw_rdlock and rw_wrlock return EDEADLK instead of blocking when the
\* caller already owns the lock; rw_unlock of a lock the caller does not own
\* returns EPERM and changes nothing.
OwnsW(t, e) == wlock[e] = t \/ t \in rlock[e]
Free(e) == wlock[e] = NoThread /\ rlock[e] = {}
WRel(w, t, S) == [x \in DOMAIN w |-> IF x \in S /\ w[x] = t THEN NoThread ELSE w[x]]
RRel(r, t, S) == [x \in DOMAIN r |-> IF x \in S THEN r[x] \ {t} ELSE r[x]]

\* Hand over hand: dhte is locked, then pphte is given back and phte kept.
HandOverKeepOne(w, t, p, pp, e) == [WRel(w, t, {p, pp}) EXCEPT ![e] = t]
HandOver(w, t, p, pp, e) == [WRel(w, t, {pp}) EXCEPT ![e] = t]

\* The bucket head dhte is empty: ht_locate_entry_ returns ENOENT at once.
Vacant(e, p) == p = Nil /\ ~ent[e].occ

\* The entries hung from e through next fields (bounded against cycles).
RECURSIVE ChainSet(_, _)
ChainSet(e, fuel) ==
    IF e = Nil \/ fuel = 0 THEN {} ELSE {e} \cup ChainSet(ent[e].next, fuel - 1)

\* What ht_locate_key can find from bucket head h: the head when occupied,
\* and every chained entry (the chain walk does not look at htef_occupied).
Pairs(h) ==
    (IF ent[h].occ THEN {<<ent[h].key, ent[h].data>>} ELSE {})
    \cup {<<ent[c].key, ent[c].data>> : c \in ChainSet(ent[h].next, MaxEntries)}

Contents == UNION {Pairs(h) : h \in SlabEntries(ht.table)}

AbsKeys == {p[1] : p \in abs}
AbsLookup(k) == IF k \in AbsKeys THEN (CHOOSE p \in abs : p[1] = k)[2] ELSE "NotFound"

-----------------------------------------------------------------------------
(* Free-chain allocation shared by ht_insert_key on the live table and on *)
(* the table a resize populates: take the head of free chain fr, and when *)
(* it is empty first allocate a slab of cnt entries (the table's size)    *)
(* and dangle all of them from the free chain.                            *)
CanGrabOffByOne(fr, cnt) == fr # Nil \/ alloc + cnt <= MaxEntries + 1
CanGrab(fr, cnt) == fr # Nil \/ alloc + cnt <= MaxEntries


GrabEntry(fr, cnt) ==
    IF fr # Nil
    THEN [o |-> fr, free |-> ent[fr].next, slab |-> NoSlab, alloc |-> alloc]
    ELSE [o |-> alloc + 1, free |-> IF cnt > 1 THEN alloc + 2 ELSE Nil,
          slab |-> <<alloc + 1, cnt>>, alloc |-> alloc + cnt]

\* The entry store once o holds <<k, d>> and is hung right behind head h.
ChainIn(h, g, k, d) ==
    [x \in Entries |->
        IF x = g.o THEN [next |-> ent[h].next, key |-> k, data |-> d, occ |-> TRUE]
        ELSE IF x = h THEN [ent[h] EXCEPT !.next = g.o]
        ELSE IF x \in SlabEntries(g.slab)
             THEN [ent[x] EXCEPT !.next = IF x = g.slab[1] + g.slab[2] - 1
                                          THEN Nil ELSE x + 1]
        ELSE ent[x]]

\* ht_insert_key on the table a resize is building (no other thread can
\* reach it, so its locks never block): the resulting entry store,
\* allocation, table and return code.
NhtInsert(n, k, d) ==
    LET h == Bucket(n.table, k)
        g == GrabEntry(n.free, n.table[2])
    IN IF ~ent[h].occ
       THEN [res |-> "OK", alloc |-> alloc, nht |-> n,
             ent |-> [ent EXCEPT ![h] = [@ EXCEPT !.occ = TRUE, !.key = k, !.data = d]]]
       ELSE IF k \in {ent[c].key : c \in {h} \cup ChainSet(ent[h].next, MaxEntries)}
       THEN [res |-> "EEXIST", alloc |-> alloc, nht |-> n, ent |-> ent]
       ELSE IF ~CanGrab(n.free, n.table[2])
       THEN [res |-> "ENOMEM", alloc |-> alloc, nht |-> n, ent |-> ent]
       ELSE [res |-> "OK", alloc |-> g.alloc, ent |-> ChainIn(h, g, k, d),
             nht |-> [n EXCEPT !.free = g.free,
                               !.slabs = IF g.slab = NoSlab THEN @ ELSE @ \cup {g.slab}]]

-----------------------------------------------------------------------------
(* Returning from a call: the thread goes idle, keeping what the call was  *)
(* and what it returned.  Lin(t, k, l) is the locals update of a step that  *)
(* changes key k in the table: every other call on k is marked interfered. *)
Done(t, got) == [Fresh EXCEPT !.op = L[t].op, !.key = L[t].key, !.exp = L[t].exp,
                              !.intf = L[t].intf, !.got = got]

Lin(t, k, l) ==
    [u \in Threads |-> IF u = t THEN l
                       ELSE IF pc[u] # "idle" /\ L[u].key = k
                            THEN [L[u] EXCEPT !.intf = TRUE] ELSE L[u]]

Goto(t, p) == pc' = [pc EXCEPT ![t] = p]

-----------------------------------------------------------------------------
(* Calls.  An idle thread starts one of the calls in Ops.                  *)
StartLocate(t, k) ==
    /\ L' = [L EXCEPT ![t] = [Fresh EXCEPT !.op = "locate", !.key = k, !.exp = AbsLookup(k)]]
    /\ Goto(t, "loc_start")

StartInsert(t, k, d) ==
    /\ L' = [L EXCEPT ![t] = [Fresh EXCEPT !.op = "insert", !.key = k, !.data = d,
                              !.exp = IF k \in AbsKeys THEN "EEXIST" ELSE "OK"]]
    /\ Goto(t, "ins_start")

StartDelete(t, k) ==
    /\ L' = [L EXCEPT ![t] = [Fresh EXCEPT !.op = "delete", !.key = k, !.exp = AbsLookup(k)]]
    /\ Goto(t, "del_start")

StartResize(t, n) ==
    /\ L' = [L EXCEPT ![t] = [Fresh EXCEPT !.op = "resize", !.n = n, !.exp = "OK"]]
    /\ Goto(t, "rs_start")

Start(t) ==
    /\ pc[t] = "idle"
    /\ \/ "locate" \in Ops /\ \E k \in Keys : StartLocate(t, k)
       \/ "insert" \in Ops /\ \E k \in Keys, d \in Data : StartInsert(t, k, d)
       \/ "delete" \in Ops /\ \E k \in Keys : StartDelete(t, k)
       \/ "resize" \in Ops /\ \E n \in ResizeSizes : StartResize(t, n)
    /\ UNCHANGED <<ent, alloc, freed, wlock, rlock, tlockW, tlockR, rmutex, ht, abs>>

-----------------------------------------------------------------------------
(* ht_locate_key -> ht_locate_entry -> ht_locate_entry_(rw_rdlock, NULL).  *)

\* Read lock the table and compute the bucket from the current table.
LocStart(t) ==
    /\ pc[t] = "loc_start"
    /\ tlockW = NoThread
    /\ tlockR' = tlockR \cup {t}
    /\ L' = [L EXCEPT ![t].cur = Bucket(ht.table, L[t].key)]
    /\ Goto(t, "loc_lock")
    /\ UNCHANGED <<ent, alloc, freed, wlock, rlock, tlockW, rmutex, ht, abs>>

\* Read lock dhte (hand over hand: then give up pphte) and look at it.
LocLock(t) ==
    LET e == L[t].cur   p == L[t].prev   pp == L[t].pprev   k == L[t].key IN
    /\ pc[t] = "loc_lock"
    /\ \/ /\ wlock[e] = t                   \* rw_rdlock: EDEADLK
          /\ rlock' = RRel(rlock, t, {p, pp})
          /\ tlockR' = tlockR \ {t}
          /\ L' = [L EXCEPT ![t] = Done(t, "ERROR")]
          /\ Goto(t, "idle")
       \/ /\ wlock[e] = NoThread
          /\ \/ /\ Vacant(e, p)               \* empty bucket: ENOENT
                /\ UNCHANGED rlock
                /\ tlockR' = tlockR \ {t}
                /\ L' = [L EXCEPT ![t] = Done(t, "NotFound")]
                /\ Goto(t, "idle")
             \/ /\ ~Vacant(e, p)
                /\ ent[e].key = k            \* hit: unlock all, return data
                /\ rlock' = RRel(rlock, t, {p, pp})
                /\ tlockR' = tlockR \ {t}
                /\ L' = [L EXCEPT ![t] = Done(t, ent[e].data)]
                /\ Goto(t, "idle")
             \/ /\ ~Vacant(e, p)
                /\ ent[e].key # k
                /\ ent[e].next = Nil         \* end of chain: ENOENT
                /\ rlock' = RRel(rlock, t, {p, pp})
                /\ tlockR' = tlockR \ {t}
                /\ L' = [L EXCEPT ![t] = Done(t, "NotFound")]
                /\ Goto(t, "idle")
             \/ /\ ~Vacant(e, p)
                /\ ent[e].key # k
                /\ ent[e].next # Nil         \* keep dhte, move on
                /\ rlock' = [RRel(rlock, t, {pp}) EXCEPT ![e] = @ \cup {t}]
                /\ UNCHANGED tlockR
                /\ L' = [L EXCEPT ![t].pprev = p, ![t].prev = e, ![t].cur = ent[e].next]
                /\ UNCHANGED pc
    /\ UNCHANGED <<ent, alloc, freed, wlock, tlockW, rmutex, ht, abs>>

-----------------------------------------------------------------------------
(* ht_insert_key.                                                          *)

\* Write lock the table and compute the bucket.
InsStart(t) ==
    /\ pc[t] = "ins_start"
    /\ tlockW = NoThread /\ tlockR = {}
    /\ tlockW' = t
    /\ L' = [L EXCEPT ![t].cur = Bucket(ht.table, L[t].key)]
    /\ Goto(t, "ins_lock")
    /\ UNCHANGED <<ent, alloc, freed, wlock, rlock, tlockR, rmutex, ht, abs>>

\* Write lock the bucket head, then give the table lock back.
InsLock(t) ==
    LET e == L[t].cur IN
    /\ pc[t] = "ins_lock"
    /\ \/ /\ OwnsW(t, e)                     \* rw_wrlock: EDEADLK
          /\ UNCHANGED wlock
          /\ L' = [L EXCEPT ![t] = Done(t, "ERROR")]
          /\ Goto(t, "idle")
       \/ /\ Free(e)
          /\ wlock' = [wlock EXCEPT ![e] = t]
          /\ UNCHANGED L
          /\ Goto(t, "ins_body")
    /\ tlockW' = NoThread
    /\ UNCHANGED <<ent, alloc, freed, rlock, tlockR, rmutex, ht, abs>>

\* The duplicate check past an occupied head with another key: walk its
\* chain, or allocate at once when it has none.
DupScanSkipped(e) == "ins_free"
DupScan(e) == IF ent[e].next = Nil THEN "ins_free" ELSE "ins_scan"

\* Holding the head: fill it when empty, else look for a duplicate key.
InsBody(t) ==
    LET e == L[t].cur   k == L[t].key   d == L[t].data IN
    /\ pc[t] = "ins_body"
    /\ \/ /\ ~ent[e].occ
          /\ ent' = [ent EXCEPT ![e] = [@ EXCEPT !.occ = TRUE, !.key = k, !.data = d]]
          /\ wlock' = WRel(wlock, t, {e})
          /\ abs' = abs \cup {<<k, d>>}
          /\ L' = Lin(t, k, Done(t, "OK"))
          /\ Goto(t, "idle")
       \/ /\ ent[e].occ /\ ent[e].key = k                   \* EEXIST
          /\ wlock' = WRel(wlock, t, {e})
          /\ L' = [L EXCEPT ![t] = Done(t, "EEXIST")]
          /\ Goto(t, "idle")
          /\ UNCHANGED <<ent, abs>>
       \/ /\ ent[e].occ /\ ent[e].key # k
          /\ L' = [L EXCEPT ![t].scan = ent[e].next]
          /\ Goto(t, DupScan(e))
          /\ UNCHANGED <<ent, wlock, abs>>
    /\ UNCHANGED <<alloc, freed, rlock, tlockW, tlockR, rmutex, ht>>

\* One step of the duplicate scan down the chain; the chained entries are
\* read without their locks.  bcmp on a NULL key pointer faults.
InsScan(t) ==
    LET o == L[t].scan   k == L[t].key IN
    /\ pc[t] = "ins_scan"
    /\ \/ /\ ent[o].key = k                                   \* EEXIST
          /\ wlock' = WRel(wlock, t, {L[t].cur})
          /\ L' = [L EXCEPT ![t] = Done(t, "EEXIST")]
          /\ Goto(t, "idle")
       \/ /\ ent[o].key # k
          /\ UNCHANGED wlock
          /\ L' = [L EXCEPT ![t].scan = ent[o].next]
          /\ Goto(t, CASE ent[o].key = Nil -> "segv"
                        [] ent[o].next = Nil -> "ins_free"
                        [] OTHER -> "ins_scan")
    /\ UNCHANGED <<ent, alloc, freed, rlock, tlockW, tlockR, rmutex, ht, abs>>

\* Take an entry off the free chain (a new slab of the current table size
\* when it is empty), fill it, hang it behind the head and unlock the head.
\* The default threshold function never asks for an implicit resize.
InsFree(t) ==
    LET e == L[t].cur   k == L[t].key   d == L[t].data
        g == GrabEntry(ht.free, ht.table[2]) IN
    /\ pc[t] = "ins_free"
    /\ \/ /\ ~CanGrab(ht.free, ht.table[2])                   \* malloc fails
          /\ UNCHANGED <<ent, alloc, ht, abs>>
          /\ L' = [L EXCEPT ![t] = Done(t, "ERROR")]
       \/ /\ CanGrab(ht.free, ht.table[2])
          /\ ent' = ChainIn(e, g, k, d)
          /\ alloc' = g.alloc
          /\ ht' = [ht EXCEPT !.free = g.free,
                              !.slabs = IF g.slab = NoSlab THEN @ ELSE @ \cup {g.slab}]
          /\ abs' = abs \cup {<<k, d>>}
          /\ L' = Lin(t, k, Done(t, "OK"))
    /\ wlock' = WRel(wlock, t, {e})
    /\ Goto(t, "idle")
    /\ UNCHANGED <<freed, rlock, tlockW, tlockR, rmutex>>

-----------------------------------------------------------------------------
(* ht_delete_key -> ht_locate_entry_(rw_wrlock, &phte).                    *)

DelStart(t) ==
    /\ pc[t] = "del_start"
    /\ tlockW = NoThread /\ tlockR = {}
    /\ tlockW' = t
    /\ L' = [L EXCEPT ![t].cur = Bucket(ht.table, L[t].key)]
    /\ Goto(t, "del_lock")
    /\ UNCHANGED <<ent, alloc, freed, wlock, rlock, tlockR, rmutex, ht, abs>>

\* Write lock dhte hand over hand.  On a hit phte stays locked too, and the
\* table lock is given back either way.
DelLock(t) ==
    LET e == L[t].cur   p == L[t].prev   pp == L[t].pprev   k == L[t].key IN
    /\ pc[t] = "del_lock"
    /\ \/ /\ OwnsW(t, e)                     \* rw_wrlock: EDEADLK
          /\ wlock' = WRel(wlock, t, {p, pp})
          /\ tlockW' = NoThread
          /\ L' = [L EXCEPT ![t] = Done(t, "ERROR")]
          /\ Goto(t, "idle")
       \/ /\ Free(e)
          /\ \/ /\ Vacant(e, p)               \* empty bucket: ENOENT
                /\ UNCHANGED wlock
                /\ tlockW' = NoThread
                /\ L' = [L EXCEPT ![t] = Done(t, "NotFound")]
                /\ Goto(t, "idle")
             \/ /\ ~Vacant(e, p)
                /\ ent[e].key = k            \* hit: keep phte and dhte
                /\ wlock' = HandOver(wlock, t, p, pp, e)
                /\ tlockW' = NoThread
                /\ UNCHANGED L
                /\ Goto(t, "del_body")
             \/ /\ ~Vacant(e, p)
                /\ ent[e].key # k
                /\ ent[e].next = Nil         \* end of chain: ENOENT
                /\ wlock' = WRel(wlock, t, {p, pp})
                /\ tlockW' = NoThread
                /\ L' = [L EXCEPT ![t] = Done(t, "NotFound")]
                /\ Goto(t, "idle")
             \/ /\ ~Vacant(e, p)
                /\ ent[e].key # k
                /\ ent[e].next # Nil
                /\ wlock' = HandOver(wlock, t, p, pp, e)
                /\ UNCHANGED tlockW
                /\ L' = [L EXCEPT ![t].pprev = p, ![t].prev = e, ![t].cur = ent[e].next]
                /\ UNCHANGED pc
    /\ UNCHANGED <<ent, alloc, freed, rlock, tlockR, rmutex, ht, abs>>

UnhookNoSplice(t, p, e) ==
    /\ ent' = [ent EXCEPT ![e] = [@ EXCEPT !.occ = FALSE, !.next = ht.free]]
    /\ ht' = [ht EXCEPT !.free = e]
    /\ wlock' = WRel(wlock, t, {p, e})

UnhookSwapped(t, p, e) ==
    /\ ent' = [ent EXCEPT ![e] = [@ EXCEPT !.occ = FALSE, !.next = ht.free],
                          ![p] = [@ EXCEPT !.next = ht.free]]
    /\ ht' = [ht EXCEPT !.free = e]
    /\ wlock' = WRel(wlock, t, {p, e})

\* Unhook dhte from phte and push it on the free chain, then unlock both.
Unhook(t, p, e) ==
    /\ ent' = [ent EXCEPT ![e] = [@ EXCEPT !.occ = FALSE, !.next = ht.free],
                          ![p] = [@ EXCEPT !.next = ent[e].next]]
    /\ ht' = [ht EXCEPT !.free = e]
    /\ wlock' = WRel(wlock, t, {p, e})

\* The bucket head h takes over the key, data and flags of its successor s.
TakeOverKeyOnly(h, s) == [ent[h] EXCEPT !.key = ent[s].key, !.occ = ent[s].occ]
TakeOver(h, s) == [ent[h] EXCEPT !.key = ent[s].key, !.data = ent[s].data, !.occ = ent[s].occ]

\* Holding the hit (and phte when it is chained):
\*  - a lone bucket head is marked empty and its data returned, and its
\*    write lock is never given back;
\*  - a head with a chain takes over the key, data and flags of its first
\*    chained entry, which is then unhooked (del_free).  The thread never
\*    owns a chained entry of the live table, so rw_wrlock on it blocks
\*    rather than failing with EDEADLK;
\*  - a chained hit is unhooked.
DelBody(t) ==
    LET e == L[t].cur   p == L[t].prev   k == L[t].key   s == ent[e].next IN
    /\ pc[t] = "del_body"
    /\ \/ /\ p = Nil /\ s = Nil
          /\ ent' = [ent EXCEPT ![e].occ = FALSE]
          /\ abs' = {q \in abs : q[1] # k}
          /\ L' = Lin(t, k, Done(t, ent[e].data))
          /\ Goto(t, "idle")
          /\ UNCHANGED <<wlock, ht>>
       \/ /\ p = Nil /\ s # Nil /\ Free(s)
          /\ wlock' = [wlock EXCEPT ![s] = t]
          /\ ent' = [ent EXCEPT ![e] = TakeOver(e, s)]
          /\ abs' = {q \in abs : q[1] # k}
          /\ L' = Lin(t, k, [L[t] EXCEPT !.prev = e, !.cur = s])
          /\ Goto(t, "del_free")
          /\ UNCHANGED ht
       \/ /\ p # Nil
          /\ Unhook(t, p, e)
          /\ abs' = {q \in abs : q[1] # k}
          /\ L' = Lin(t, k, L[t])
          /\ Goto(t, "del_ret")
    /\ UNCHANGED <<alloc, freed, rlock, tlockW, tlockR, rmutex>>

DelFree(t) ==
    /\ pc[t] = "del_free"
    /\ Unhook(t, L[t].prev, L[t].cur)
    /\ Goto(t, "del_ret")
    /\ UNCHANGED <<alloc, freed, rlock, tlockW, tlockR, rmutex, abs, L>>

\* return (errno ? NULL : dhte->data): dhte is read after it was unlocked
\* and put on the free chain.
DelRet(t) ==
    /\ pc[t] = "del_ret"
    /\ L' = [L EXCEPT ![t] = Done(t, ent[L[t].cur].data)]
    /\ Goto(t, "idle")
    /\ UNCHANGED <<ent, alloc, freed, wlock, rlock, tlockW, tlockR, rmutex, ht, abs>>

-----------------------------------------------------------------------------
(* ht_resize and ht_sweep.  L[t].nht is the handle nht: first the table   *)
(* being populated, and after the swap the old table, slabs and free      *)
(* chain.  ht.old holds the slabs of tables left on ht->old by earlier    *)
(* resizes whose sweep failed; ht_destroy(nht) frees them with nht.       *)

\* ht_destroy_entries and free(): the entries of slabs S are cleared and freed.
Destroy(S) ==
    LET E == UNION {SlabEntries(x) : x \in S} IN
    /\ ent' = [x \in Entries |-> IF x \in E
                                 THEN [next |-> Nil, key |-> Nil, data |-> Nil, occ |-> FALSE]
                                 ELSE ent[x]]
    /\ freed' = freed \cup E
    /\ ht' = [ht EXCEPT !.old = {}]

RsStart(t) ==
    /\ pc[t] = "rs_start"
    /\ rmutex = NoThread
    /\ rmutex' = t
    /\ Goto(t, "rs_tlock")
    /\ UNCHANGED <<ent, alloc, freed, wlock, rlock, tlockW, tlockR, ht, L, abs>>

\* Read lock the table and ht_create(numents); a failed create gives back
\* both locks and returns -1.
RsTlock(t) ==
    LET n == L[t].n IN
    /\ pc[t] = "rs_tlock"
    /\ tlockW = NoThread
    /\ \/ /\ alloc + n > MaxEntries
          /\ UNCHANGED <<alloc, tlockR>>
          /\ rmutex' = NoThread
          /\ L' = [L EXCEPT ![t] = Done(t, "ERROR")]
          /\ Goto(t, "idle")
       \/ /\ alloc + n <= MaxEntries
          /\ alloc' = alloc + n
          /\ tlockR' = tlockR \cup {t}
          /\ L' = [L EXCEPT ![t].nht = [table |-> <<alloc + 1, n>>,
                                        slabs |-> {<<alloc + 1, n>>}, free |-> Nil],
                            ![t].idx = ht.table[2] - 1, ![t].cur = Nil]
          /\ Goto(t, "rs_copy")
          /\ UNCHANGED rmutex
    /\ UNCHANGED <<ent, freed, wlock, rlock, tlockW, ht, abs>>

\* ht_insert_key(nht, ...) failed: ht_destroy(nht) (and the tables on its
\* old chain), ht->old = NULL, unlock and return -1.
Abort(t) ==
    /\ Destroy(L[t].nht.slabs \cup ht.old)
    /\ tlockR' = tlockR \ {t}
    /\ rmutex' = NoThread
    /\ L' = [L EXCEPT ![t] = Done(t, "ERROR")]
    /\ Goto(t, "idle")
    /\ UNCHANGED <<alloc, wlock, rlock, tlockW, abs>>

\* One entry of the copy loop, read without any entry lock: the bucket
\* head (copied when occupied) when cur is Nil, else the entry after cur
\* (copied whatever its flags).  Buckets go from the last to the first.
RsCopy(t) ==
    LET h == ht.table[1] + L[t].idx
        c == IF L[t].cur = Nil THEN h ELSE ent[L[t].cur].next
        copy == L[t].cur # Nil \/ ent[h].occ
        r == IF copy THEN NhtInsert(L[t].nht, ent[c].key, ent[c].data)
             ELSE [res |-> "OK", alloc |-> alloc, nht |-> L[t].nht, ent |-> ent]
    IN
    /\ pc[t] = "rs_copy"
    /\ \/ /\ c = Nil                                   \* end of this chain
          /\ L' = [L EXCEPT ![t].idx = L[t].idx - 1, ![t].cur = Nil]
          /\ Goto(t, IF L[t].idx = 0 THEN "rs_swap" ELSE "rs_copy")
          /\ UNCHANGED <<ent, alloc, freed, tlockR, rmutex, ht>>
       \/ /\ c # Nil /\ copy /\ ent[c].key = Nil          \* hash of a NULL key
          /\ UNCHANGED <<ent, alloc, freed, tlockR, rmutex, ht, L>>
          /\ Goto(t, "segv")
       \/ /\ c # Nil /\ ~(copy /\ ent[c].key = Nil)
          /\ r.res # "OK"
          /\ Abort(t)
       \/ /\ c # Nil /\ ~(copy /\ ent[c].key = Nil)
          /\ r.res = "OK"
          /\ ent' = r.ent
          /\ alloc' = r.alloc
          /\ L' = [L EXCEPT ![t].nht = r.nht, ![t].cur = c]
          /\ UNCHANGED <<pc, freed, tlockR, rmutex, ht>>
    /\ UNCHANGED <<wlock, rlock, tlockW, abs>>

RsSwap(t) ==
    /\ pc[t] = "rs_swap"
    /\ ht' = [ht EXCEPT !.table = L[t].nht.table, !.slabs = L[t].nht.slabs,
                        !.free = L[t].nht.free]
    /\ L' = [L EXCEPT ![t].nht = [table |-> ht.table, slabs |-> ht.slabs, free |-> ht.free],
                      ![t].idx = 0, ![t].cur = Nil]
    /\ tlockR' = tlockR \ {t}
    /\ Goto(t, "rs_sweep")
    /\ UNCHANGED <<ent, alloc, freed, wlock, rlock, tlockW, rmutex, abs>>

\* The sweep failed: nht stays on ht->old, the mutex is given back and
\* ht_resize returns -1.
SweepFail(t) ==
    /\ ht' = [ht EXCEPT !.old = @ \cup L[t].nht.slabs]
    /\ rmutex' = NoThread
    /\ L' = [L EXCEPT ![t] = Done(t, "ERROR")]
    /\ Goto(t, "idle")

\* ht_sweep: write lock and unlock a bucket head of the old table.
RsSweep(t) ==
    LET h == L[t].nht.table[1] + L[t].idx IN
    /\ pc[t] = "rs_sweep"
    /\ \/ /\ OwnsW(t, h)                               \* EDEADLK
          /\ SweepFail(t)
       \/ /\ Free(h)
          /\ L' = [L EXCEPT ![t].cur = h]
          /\ Goto(t, "rs_next")
          /\ UNCHANGED <<ht, rmutex>>
    /\ UNCHANGED <<ent, alloc, freed, wlock, rlock, tlockW, tlockR, abs>>

\* Read the head's next pointer: without a chain go on to the next bucket,
\* and after the last one ht_destroy(nht), ht->old = NULL and return 0.
RsNext(t) ==
    LET h == L[t].cur   last == L[t].idx + 1 = L[t].nht.table[2] IN
    /\ pc[t] = "rs_next"
    /\ \/ /\ ent[h].next = Nil /\ ~last
          /\ L' = [L EXCEPT ![t].idx = @ + 1, ![t].cur = Nil]
          /\ Goto(t, "rs_sweep")
          /\ UNCHANGED <<ent, freed, ht, rmutex>>
       \/ /\ ent[h].next = Nil /\ last
          /\ Destroy(L[t].nht.slabs \cup ht.old)
          /\ rmutex' = NoThread
          /\ L' = [L EXCEPT ![t] = Done(t, "OK")]
          /\ Goto(t, "idle")
       \/ /\ ent[h].next # Nil
          /\ L' = [L EXCEPT ![t].scan = ent[h].next]
          /\ Goto(t, "rs_chain")
          /\ UNCHANGED <<ent, freed, ht, rmutex>>
    /\ UNCHANGED <<alloc, wlock, rlock, tlockW, tlockR, abs>>

\* Write lock the chained entry chte, then rw_unlock(&hte->rwlock) of the
\* head this thread no longer holds: EPERM, and chte stays locked.
RsChain(t) ==
    LET c == L[t].scan IN
    /\ pc[t] = "rs_chain"
    /\ Free(c) \/ OwnsW(t, c)
    /\ wlock' = IF Free(c) THEN [wlock EXCEPT ![c] = t] ELSE wlock
    /\ SweepFail(t)
    /\ UNCHANGED <<ent, alloc, freed, rlock, tlockW, tlockR, abs>>

-----------------------------------------------------------------------------
Init ==
    /\ ent = [x \in Entries |-> [next |-> Nil, key |-> Nil, data |-> Nil, occ |-> FALSE]]
    /\ alloc = InitialSize
    /\ freed = {}
    /\ wlock = [x \in Entries |-> NoThread]
    /\ rlock = [x \in Entries |-> {}]
    /\ tlockW = NoThread
    /\ tlockR = {}
    /\ rmutex = NoThread
    /\ ht = [table |-> <<1, InitialSize>>, slabs |-> {<<1, InitialSize>>},
             free |-> Nil, old |-> {}]
    /\ pc = [t \in Threads |-> "idle"]
    /\ L = [t \in Threads |-> Fresh]
    /\ abs = {}

Next ==
    \E t \in Threads :
        \/ Start(t)
        \/ LocStart(t) \/ LocLock(t)
        \/ InsStart(t) \/ InsLock(t) \/ InsBody(t) \/ InsScan(t) \/ InsFree(t)
        \/ DelStart(t) \/ DelLock(t) \/ DelBody(t) \/ DelFree(t) \/ DelRet(t)
        \/ RsStart(t) \/ RsTlock(t) \/ RsCopy(t) \/ RsSwap(t)
        \/ RsSweep(t) \/ RsNext(t) \/ RsChain(t)

Spec == Init /\ [][Next]_vars

\* The steps of a call in progress.  Threads are scheduled by the kernel,
\* and the illumos rwlock and mutex wake a waiter when the lock is given
\* back: a step that keeps becoming enabled is eventually taken.
Step(t) ==
    \/ LocStart(t) \/ LocLock(t)
    \/ InsStart(t) \/ InsLock(t) \/ InsBody(t) \/ InsScan(t) \/ InsFree(t)
    \/ DelStart(t) \/ DelLock(t) \/ DelBody(t) \/ DelFree(t) \/ DelRet(t)
    \/ RsStart(t) \/ RsTlock(t) \/ RsCopy(t) \/ RsSwap(t)
    \/ RsSweep(t) \/ RsNext(t) \/ RsChain(t)

-----------------------------------------------------------------------------
Pcs == {"idle", "segv", "loc_start", "loc_lock",
        "ins_start", "ins_lock", "ins_body", "ins_scan", "ins_free",
        "del_start", "del_lock", "del_body", "del_free", "del_ret",
        "rs_start", "rs_tlock", "rs_copy", "rs_swap", "rs_sweep", "rs_next", "rs_chain"}
Ptr == Entries \cup {Nil}
Slabs == (1..MaxEntries) \X (1..MaxEntries)
Results == Data \cup {"OK", "EEXIST", "NotFound", "ERROR", Nil}

TypeOK ==
    /\ ent \in [Entries -> [next : Ptr, key : Keys \cup {Nil}, data : Data \cup {Nil},
                            occ : BOOLEAN]]
    /\ alloc \in InitialSize..MaxEntries
    /\ freed \subseteq 1..alloc
    /\ wlock \in [Entries -> Threads \cup {NoThread}]
    /\ rlock \in [Entries -> SUBSET Threads]
    /\ tlockW \in Threads \cup {NoThread} /\ tlockR \subseteq Threads
    /\ rmutex \in Threads \cup {NoThread}
    /\ ht \in [table : Slabs, slabs : SUBSET Slabs, free : Ptr, old : SUBSET Slabs]
    /\ pc \in [Threads -> Pcs]
    /\ \A t \in Threads :
         /\ L[t].cur \in Ptr /\ L[t].prev \in Ptr /\ L[t].pprev \in Ptr /\ L[t].scan \in Ptr
         /\ L[t].exp \in Results /\ L[t].got \in Results /\ L[t].intf \in BOOLEAN

\* What a call started from idle returned, when no other thread changed its
\* key while it ran.
Returned(t, op) == pc[t] = "idle" /\ L[t].op = op /\ ~L[t].intf

\* The pairs ht_locate_key can find through the live table are exactly the
\* pairs inserted and not yet deleted: no insert is lost, no delete undone,
\* no key held twice, whatever the interleaving of insert, delete, locate
\* and resize (ht_insert_key, ht_delete_key, ht_resize).
ContentsMatch == Contents = abs

\* ht_locate_key returns the data stored under its key, or ENOENT when
\* there is none, as of the moment it was called (or an error).
LocateLinearizable ==
    \A t \in Threads : Returned(t, "locate") => L[t].got \in {L[t].exp, "ERROR"}

\* ht_insert_key returns 0 exactly when its key was absent and -1/EEXIST
\* exactly when it was present (or an error).
InsertLinearizable ==
    \A t \in Threads : Returned(t, "insert") => L[t].got \in {L[t].exp, "ERROR"}

\* ht_delete_key returns the data that was stored under its key, or NULL
\* when there was none (or an error).
DeleteLinearizable ==
    \A t \in Threads : Returned(t, "delete") => L[t].got \in {L[t].exp, "ERROR"}

\* Every entry lock, the table lock and the resize mutex is held only by a
\* thread that is inside an API call: no call returns holding a lock.
NoOrphanLock ==
    LET held == {wlock[e] : e \in Entries} \cup UNION {rlock[e] : e \in Entries}
                \cup {tlockW, rmutex} \cup tlockR
    IN \A t \in held \ {NoThread} : pc[t] # "idle"

\* The entries reachable from the handle (the buckets, their chains and the
\* free chain) and every entry pointer a thread is about to use are
\* allocated and not freed, and no thread has dereferenced a NULL key.
Reachable ==
    SlabEntries(ht.table) \cup ChainSet(ht.free, MaxEntries)
    \cup UNION {ChainSet(ent[h].next, MaxEntries) : h \in SlabEntries(ht.table)}

HM == INSTANCE HashMap WITH map <- Contents

\* The table implements HashMap: every step of every thread changes what
\* the buckets and chains hold by at most one map operation (a pair added
\* for an absent key, or one key's pair dropped), so no caller can see a
\* half-done insert, delete or resize copy.
RefinesHashMap == HM!Spec

====
