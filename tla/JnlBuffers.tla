----------------------------- MODULE JnlBuffers -----------------------------
(***************************************************************************)
(* libjnl's per-thread message buffers (contrib/jnl/lib/libjnl.c).  Every  *)
(* jnl_OPERATION/EXPECTED/ERROR/ACTION call formats its message into a     *)
(* buffer of the calling thread: _jnl_buffer_fetch looks the thread's      *)
(* group of four buffers up in the table of contents jnl_toc, a libhash-   *)
(* table keyed by thr_self(), and on ENOENT mallocs a group and inserts    *)
(* it.  The table is the HashTable module itself, driven by the fetches:   *)
(* each thread's locate and insert run step by step, interleaved with the  *)
(* other threads' calls, exactly as HashTable models them.                 *)
(*                                                                         *)
(* Memory is heap: the groups (model values, the data pointers stored in   *)
(* the table) and their buffers <<g, i>> that are allocated.  Any malloc   *)
(* may return NULL.  content[<<g, i>>] is the thread whose message the     *)
(* buffer holds.  A message is formatted (vsnprintf into the buffer) one   *)
(* step after the fetch and read by the caller one step after that.        *)
(***************************************************************************)
EXTENDS Naturals, FiniteSets

CONSTANTS
    Threads, Keys, Data, Ops, InitialSize, ResizeSizes, MaxEntries, Nil, NoThread,
    Tid,            \* thread -> its thr_self() as the table's key bytes
    Indexes,        \* the buffer indexes the callers pass
    NoOne           \* content of a buffer nothing has been written to

VARIABLES
    ent, alloc, freed, wlock, rlock, tlockW, tlockR, rmutex, ht, pc, L, abs,
    jpc,            \* thread -> where it is in jnl_vformat_message_
    jidx,           \* thread -> the buffer index it asked for
    jnl,            \* thread -> the group _jnl_buffer_fetch holds, or Nil
    heap,           \* groups and buffers allocated and not freed
    content         \* buffer -> the thread whose message it holds

HT == INSTANCE HashTable

htVars == <<ent, alloc, freed, wlock, rlock, tlockW, tlockR, rmutex, ht, pc, L, abs>>
jVars == <<jpc, jidx, jnl, heap, content>>
vars == <<htVars, jVars>>

\* jnlBI_OPERATION .. jnlBI_ACTION; a group is one of the table's data
\* pointers.
BufIdx == 0..3
Groups == Data
Buffers == Groups \X BufIdx
GroupOf(g) == {g} \cup {<<g, i>> : i \in BufIdx}

ASSUME /\ Tid \in [Threads -> Keys]
       /\ \A t, u \in Threads : t # u => Tid[t] # Tid[u]
       /\ Ops = {"locate", "insert"}
       /\ Indexes \subseteq BufIdx

\* A key shared by the whole process (getpid() in place of thr_self()).
TocKeyProcess(t) == Tid[CHOOSE u \in Threads : TRUE]

\* The key _jnl_buffer_fetch probes and inserts: &thread_id, the
\* thr_self() jnl_vformat_message_ passes.
TocKey(t) == Tid[t]

\* free(jnl) without the loop over the buffers.
ReleaseGroupOnly(h, g) == h \ {g}

\* The free loop and free(jnl) of the two failure paths, on the heap h.
Release(h, g) == h \ GroupOf(g)

\* Back to the caller (a NULL return, or the caller done with the message).
Return(t) ==
    /\ jpc' = [jpc EXCEPT ![t] = "idle"]
    /\ jnl' = [jnl EXCEPT ![t] = Nil]
    /\ jidx' = [jidx EXCEPT ![t] = 0]

\* The table's calls on behalf of t, with everything of libjnl left alone.
HtCall(t) == HT!Step(t) /\ UNCHANGED jVars
HtRest == <<ent, alloc, freed, wlock, rlock, tlockW, tlockR, rmutex, ht, abs>>

-----------------------------------------------------------------------------
\* A jnl_<type>() call: jnl_vformat_message_(index) calls
\* _jnl_buffer_fetch(thr_self(), index), which checks the index (every
\* wrapper passes a valid one) and calls ht_locate_key(jnl_toc, &thread_id).
Fetch(t) ==
    /\ jpc[t] = "idle"
    /\ \E i \in Indexes :
         /\ jidx' = [jidx EXCEPT ![t] = i]
         /\ HT!StartLocate(t, TocKey(t))
    /\ jpc' = [jpc EXCEPT ![t] = "locate"]
    /\ UNCHANGED <<HtRest, jnl, heap, content>>

\* ht_locate_key has returned.  Found: the thread's group.  NULL with an
\* errno other than ENOENT: give up.  ENOENT: malloc a group and its four
\* buffers; when one of the five mallocs fails free them all and give up,
\* else store thread_id in the group and call ht_insert_key.
Located(t) ==
    LET got == L[t].got IN
    /\ jpc[t] = "locate"
    /\ pc[t] = "idle"
    /\ \/ /\ got \in Groups
          /\ jnl' = [jnl EXCEPT ![t] = got]
          /\ jpc' = [jpc EXCEPT ![t] = "format"]
          /\ UNCHANGED <<htVars, heap, jidx, content>>
       \/ /\ got = "ERROR"
          /\ Return(t)
          /\ UNCHANGED <<htVars, heap, content>>
       \/ /\ got = "NotFound"
          /\ \E g \in Groups \ heap :
               \E ok \in SUBSET BufIdx :
                  IF ok = BufIdx
                  THEN /\ heap' = heap \cup GroupOf(g)
                       /\ content' = [b \in Buffers |-> IF b[1] = g THEN NoOne ELSE content[b]]
                       /\ jnl' = [jnl EXCEPT ![t] = g]
                       /\ HT!StartInsert(t, TocKey(t), g)
                       /\ jpc' = [jpc EXCEPT ![t] = "insert"]
                       /\ UNCHANGED <<HtRest, jidx>>
                  ELSE /\ heap' = Release(heap \cup {g} \cup {<<g, i>> : i \in ok}, g)
                       /\ Return(t)
                       /\ UNCHANGED <<htVars, content>>
       \/ /\ got = "NotFound"                            \* malloc(*jnl) fails
          /\ Return(t)
          /\ UNCHANGED <<htVars, heap, content>>

\* ht_insert_key has returned: 0 keeps the group, anything else frees it
\* and its buffers and gives up.
Inserted(t) ==
    /\ jpc[t] = "insert"
    /\ pc[t] = "idle"
    /\ \/ /\ L[t].got = "OK"
          /\ jpc' = [jpc EXCEPT ![t] = "format"]
          /\ UNCHANGED <<jnl, heap, jidx>>
       \/ /\ L[t].got # "OK"
          /\ heap' = Release(heap, jnl[t])
          /\ Return(t)
    /\ UNCHANGED <<htVars, content>>

\* jnl_vformat_message_ with the buffer jnl->buffer[index]: snprintf of
\* the title into format_buffer, then vsnprintf of the caller's message
\* into the buffer.  When either returns < 0 the call gives up with NULL
\* and the buffer holds no message of the caller.
Format(t) ==
    LET b == <<jnl[t], jidx[t]>> IN
    /\ jpc[t] = "format"
    /\ \/ /\ Return(t)
          /\ UNCHANGED content
       \/ /\ content' = [content EXCEPT ![b] = t]
          /\ jpc' = [jpc EXCEPT ![t] = "use"]
          /\ UNCHANGED <<jnl, jidx>>
    /\ UNCHANGED <<htVars, heap>>

\* The caller reads the returned message (jnl_result_ and the jnl_*()
\* macros pass it on to the journal).
Use(t) ==
    /\ jpc[t] = "use"
    /\ Return(t)
    /\ UNCHANGED <<htVars, heap, content>>

-----------------------------------------------------------------------------
Init ==
    /\ HT!Init
    /\ jpc = [t \in Threads |-> "idle"]
    /\ jidx = [t \in Threads |-> 0]
    /\ jnl = [t \in Threads |-> Nil]
    /\ heap = {}
    /\ content = [b \in Buffers |-> NoOne]

Next ==
    \E t \in Threads :
        \/ Fetch(t) \/ Located(t) \/ Inserted(t) \/ Format(t) \/ Use(t)
        \/ HtCall(t)

Spec == Init /\ [][Next]_vars

-----------------------------------------------------------------------------
\* The message a jnl_<type>() call hands back is the calling thread's own:
\* the group _jnl_buffer_fetch used is the one the table of contents
\* holds under the caller's thread id, and no other thread's vsnprintf has
\* overwritten the buffer between the caller's format and its read, for
\* every interleaving of the threads' first fetches through the shared
\* table (ht_locate_key, then ht_insert_key on ENOENT).
ThreadBuffersPrivate ==
    \A t \in Threads :
        /\ jpc[t] \in {"format", "use"} => <<TocKey(t), jnl[t]>> \in HT!Contents
        /\ jpc[t] = "use" => content[<<jnl[t], jidx[t]>>] = t

\* Every group and buffer _jnl_buffer_fetch mallocs is either reachable
\* from the table of contents or held by the fetch that is inserting it:
\* the malloc failure and ht_insert_key failure paths free all of what
\* they allocated, and a buffer is never left behind its freed group.
NoLeak ==
    /\ \A g \in heap \cap Groups :
          \/ \E t \in Threads : <<TocKey(t), g>> \in HT!Contents
          \/ \E t \in Threads : jpc[t] = "insert" /\ jnl[t] = g
    /\ \A b \in heap \cap Buffers : b[1] \in heap

====
