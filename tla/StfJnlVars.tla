------------------------------ MODULE StfJnlVars ------------------------------
(***************************************************************************)
(* libstf's variable file (src/usr/src/tools/stf/lib/libstf.c, struct     *)
(* jvars in stf_impl.h): a file named by $VARFILE, mmapped MAP_SHARED by  *)
(* every process of a test run, holding a USYNC_PROCESS mutex jvar_mlock  *)
(* and the current assertion name jasrt.  stf_jnl_testcase_start,         *)
(* stf_jnl_testcase_end and stf_jnl_assert_start lock the mutex around    *)
(* their update; stf_jnl_assert_end and stf_jnl_totals_pid read jasrt     *)
(* without it.  The mutex is not robust: a process that dies holding it   *)
(* leaves it locked for good.                                              *)
(*                                                                         *)
(* Each call that locks is two steps, lock and update-unlock-print; the   *)
(* others are one.  jseq, jblk, jsubid and jargid are left out: nothing   *)
(* in the repository reads jseq or jblk, and no property here is about    *)
(* the subid.  A process's calls are made one at a time.                  *)
(***************************************************************************)
CONSTANTS
    Procs,          \* the processes that call libstf
    NoProc,         \* jvar_mlock is free
    TheCase         \* the assertion name stf_timeout's child copies to jasrt

VARIABLES
    mapped,         \* vfile_mmap finds the var file (else it returns -1)
    holder,         \* the process that holds jvar_mlock, or NoProc
    jasrt,          \* the var file's assertion name
    calls,          \* the locking call each process is inside, or "none"
    named           \* ghost: the assertion names assert lines printed

\* stf_jnl_start_pid (lines 118-133) wrote jasrt = "?" into a new var file;
\* an earlier test case may have left its own name there since.  Without
\* $VARFILE (or when open or mmap fails) nothing is mapped.
JvInit(varFiles, previous) ==
    /\ mapped \in varFiles
    /\ holder = NoProc
    /\ jasrt \in {"?"} \cup previous
    /\ calls = [p \in Procs |-> "none"]
    /\ named = {}

\* The value an unlocked read of jasrt gives: asrt points into the mapping,
\* or at the empty nullid when vfile_mmap failed.
Asrt == IF mapped THEN jasrt ELSE ""

\* mutex_lock(&vfptr->jvar_mlock) at the start of a locking call: blocks
\* while another process holds it.
Lock(p, call) ==
    /\ mapped
    /\ calls[p] = "none"
    /\ holder = NoProc
    /\ holder' = p
    /\ calls' = [calls EXCEPT ![p] = call]
    /\ UNCHANGED <<mapped, jasrt, named>>

Release(p) ==
    /\ holder' = NoProc
    /\ calls' = [calls EXCEPT ![p] = "none"]

\* stf_jnl_testcase_start_pid (lines 346-374), under the lock: strcpy the
\* assertion name into jasrt, ++jseq, unlock, print the TCS line.
TestcaseStart(p) ==
    /\ calls[p] = "tcs"
    /\ jasrt' = TheCase
    /\ Release(p)
    /\ UNCHANGED <<mapped, named>>

\* stf_jnl_testcase_end (lines 401-477), under the lock: ++jseq, unlock,
\* then the result line.
TestcaseEnd(p) ==
    /\ calls[p] = "tce"
    /\ Release(p)
    /\ UNCHANGED <<mapped, jasrt, named>>

\* stf_jnl_assert_start_pid (lines 500-528), under the lock: strcpy the
\* subid, take asrt = &vfptr->jasrt[0], jblk = jseq = 0, unlock; asrt is
\* read when the line is printed.
AssertStart(p) ==
    /\ calls[p] = "as"
    /\ Release(p)
    /\ named' = named \cup {jasrt}
    /\ UNCHANGED <<mapped, jasrt>>

\* stf_jnl_assert_end_pid (lines 567-593): jasrt read with no lock and
\* printed in the line.
AssertEnd(p) ==
    /\ calls[p] = "none"
    /\ named' = named \cup {Asrt}
    /\ UNCHANGED <<mapped, holder, jasrt, calls>>

\* stf_jnl_totals_pid (lines 620-649): the same unlocked read of jasrt.
Totals(p) ==
    /\ calls[p] = "none"
    /\ named' = named \cup {Asrt}
    /\ UNCHANGED <<mapped, holder, jasrt, calls>>

\* A locking call when vfile_mmap returned -1: activity -1, no lock, and
\* assert_start prints the empty nullid as the assertion.
Unmapped(p, call) ==
    /\ ~mapped
    /\ calls[p] = "none"
    /\ named' = IF call = "as" THEN named \cup {""} ELSE named
    /\ UNCHANGED <<mapped, holder, jasrt, calls>>

JvTypeOK(previous) ==
    /\ mapped \in BOOLEAN
    /\ holder \in Procs \cup {NoProc}
    /\ jasrt \in {"?", TheCase} \cup previous
    /\ calls \in [Procs -> {"none", "tcs", "tce", "as"}]
    /\ named \subseteq {"?", "", TheCase} \cup previous
    /\ (holder = NoProc) = (\A p \in Procs : calls[p] = "none")

=============================================================================
