------------------------------ MODULE StfTimeout ------------------------------
(***************************************************************************)
(* stf_timeout (src/usr/src/tools/stf/bin/stf_timeout.c): run a test      *)
(* command under a time limit.  main() forks the test, which makes itself *)
(* a process group leader and execs; the parent polls /proc/<pid> until   *)
(* the child exits (POLLHUP) or end_time passes, then kills the group     *)
(* (clean_kill: SIGHUP, ten WNOHANG waits a second apart, SIGKILL), reaps *)
(* the child with waitpid and journals the result.  SIGHUP, SIGINT,      *)
(* SIGQUIT and SIGTERM run goodbye(), which kills the group and exits.    *)
(*                                                                         *)
(* Actors: the parent (one action per step of main, poll_process,        *)
(* wake_up, clean_kill and goodbye), the test child and one grandchild it *)
(* may start (its process group), the signals sent to timeout, the clock, *)
(* and pid reuse by an unrelated process.  Clock values are hrtime_t in   *)
(* units of 1/NanoSec second; processes, pids and statuses are abstract.  *)
(***************************************************************************)
EXTENDS Integers, FiniteSets, CInt

CONSTANTS
    Duration,      \* the limit parse_timeout returned, in seconds
    NanoSec,       \* hrtime_t units per second (NANOSEC, scaled down)
    Events,        \* the revents values poll may report on the /proc fd
    Faults,        \* which of fork1, open and poll may fail
    MaxSignals,    \* bound on signals sent to timeout itself
    PidReuse,      \* may a reaped test pid become another process's pgid
    Suspend,       \* the values of -s / STF_SUSPEND to explore
    Quiet,         \* the values of -q to explore
    VarFiles,      \* whether the test run's $VARFILE is there to map
    Journalling     \* which of the test and its process call libstf

PollBits == {"POLLPRI", "POLLERR", "POLLHUP", "POLLNVAL"}

ASSUME
    /\ Duration \in Nat /\ NanoSec \in Nat \ {0}
    /\ Events \subseteq (SUBSET PollBits) \ {{}}
    /\ Faults \subseteq {"fork", "open", "poll"}
    /\ MaxSignals \in Nat /\ PidReuse \in BOOLEAN
    /\ Suspend \subseteq BOOLEAN /\ Suspend # {}
    /\ Quiet \subseteq BOOLEAN /\ Quiet # {}
    /\ VarFiles \subseteq BOOLEAN /\ VarFiles # {}
    /\ Journalling \subseteq {"test", "grand"}

VARIABLES
    pc,            \* the parent's position in main and its callees
    test_pid,      \* the global test_pid: -1 until fork1's result is stored
    timed_out,     \* the global timed_out
    suspendflag,   \* suspend, passed to poll_process
    now,           \* gethrtime()
    wake,          \* when the pending poll times out (Forever: never)
    ck_i,          \* clean_kill's loop index i
    ckFrom,        \* the caller clean_kill returns to
    disp,          \* the parent's disposition for the four signals
    sigs,          \* signals sent to the parent so far
    child,         \* the test process
    cstatus,       \* how the test process ended, as waitpid would report
    grand,         \* a process the test started in its group
    reused,        \* the reaped test pid now names another process group
    stray,         \* timeout sent a signal to that other group
    report,        \* what stf_jnl_testcase_end was given
    quiet,         \* quiet: -q, no testcase start and end lines
    jstarted,      \* the child has journalled the testcase start
    mapped, holder, jasrt, calls, named     \* the var file (StfJnlVars)

vars == <<pc, test_pid, timed_out, suspendflag, now, wake, ck_i, ckFrom,
          disp, sigs, child, cstatus, grand, reused, stray, report,
          quiet, jstarted, mapped, holder, jasrt, calls, named>>

jnlVars == <<quiet, jstarted, mapped, holder, jasrt, calls, named>>

\* Everything but pc and the journalling state.
procVars == <<test_pid, timed_out, suspendflag, now, wake, ck_i, ckFrom, disp,
              sigs, child, cstatus, grand, reused, stray, report>>

ThePid == 1                      \* the pid fork1 returns to the parent
CleanKillTries == 10             \* clean_kill's WNOHANG attempts
EndTime == Duration * NanoSec    \* end_time, with gethrtime() = 0 at line 156
TimeLimit == EndTime + NanoSec   \* the clock is explored up to here
Forever == TimeLimit + 1
NoReport == [pid |-> 0, timedout |-> FALSE, status |-> "none"]

\* The processes that call libstf: the test (stf_timeout's child, before
\* and after exec), a process it started, and stf_timeout itself.
JnlProcs == {"test", "grand", "timeout"}
Previous == {"prev"}        \* an earlier test case's name in jasrt

JV == INSTANCE StfJnlVars
          WITH Procs <- JnlProcs, NoProc <- "nobody", TheCase <- "tc"

\* The instants the clock may jump to: the start, and the second either
\* side of end_time, where the loop's arithmetic changes.
Instants == {0} \cup (((EndTime - NanoSec)..TimeLimit) \cap Nat)

\* poll sleeps ms milliseconds: that many clock units, rounded down.
MsTicks(ms) == (ms \div 1000) * NanoSec + ((ms % 1000) * NanoSec) \div 1000

\* The test child has exited and is not yet reaped: /proc reports POLLHUP.
HupPending == child = "zombie"

\* kill(-test_pid, sig).  Before the child's setpgid there is no such group
\* (ESRCH).  A running test, or its grandchild, may trap SIGHUP; the child
\* before exec still runs goodbye (inherited with fork), sees test_pid = 0
\* and exits 1.  Once the pid is reused, the group is someone else's.
Dies(sig, trapped) == sig = "SIGKILL" \/ ~trapped

KillGroup(sig) ==
    /\ stray' = (stray \/ reused)
    /\ \E trapC, trapG \in BOOLEAN :
         /\ child' = IF child \in {"grouped", "running"}
                        /\ Dies(sig, trapC /\ child = "running")
                     THEN "zombie" ELSE child
         /\ cstatus' = IF child' = child THEN cstatus
                       ELSE IF child = "grouped" /\ sig = "SIGHUP"
                            THEN "exit" ELSE "signal"
         /\ grand' = IF grand = "running" /\ Dies(sig, trapG)
                     THEN "dead" ELSE grand

-----------------------------------------------------------------------------
(* main, up to the poll loop                                               *)

\* Lines 100-160: options parsed, end_time computed, handlers installed.
Init ==
    /\ pc = "fork"
    /\ test_pid = -1
    /\ timed_out = 0
    /\ suspendflag \in Suspend
    /\ now = 0
    /\ wake = 0
    /\ ck_i = 0
    /\ ckFrom = "wake_up"
    /\ disp = "goodbye"
    /\ sigs = 0
    /\ child = "none"
    /\ cstatus = "none"
    /\ grand = "none"
    /\ reused = FALSE
    /\ stray = FALSE
    /\ report = NoReport
    /\ quiet \in Quiet
    /\ jstarted = FALSE
    /\ JV!JvInit(VarFiles, Previous)

\* fork1() returns; a failure exits 1 (lines 182-185) before any assignment
\* can matter.
Fork ==
    /\ pc = "fork"
    /\ \/ /\ "fork" \in Faults
          /\ pc' = "exited"
          /\ UNCHANGED child
       \/ /\ child' = "forked"
          /\ pc' = "assign"
    /\ UNCHANGED <<test_pid, timed_out, suspendflag, now, wake, ck_i, ckFrom,
                   disp, sigs, cstatus, grand, reused, stray, report, jnlVars>>

\* test_pid = fork1(): the result is stored only after the fork returned.
Assign ==
    /\ pc = "assign"
    /\ test_pid' = ThePid
    /\ pc' = "open"
    /\ UNCHANGED <<timed_out, suspendflag, now, wake, ck_i, ckFrom, disp,
                   sigs, child, cstatus, grand, reused, stray, report, jnlVars>>

\* open("/proc/<pid>"); a failure exits 1 with the test still running.
Open ==
    /\ pc = "open"
    /\ \/ /\ "open" \in Faults
          /\ pc' = "exited"
       \/ pc' = "poll"
    /\ UNCHANGED <<test_pid, timed_out, suspendflag, now, wake, ck_i, ckFrom,
                   disp, sigs, child, cstatus, grand, reused, stray,
                   report, jnlVars>>

-----------------------------------------------------------------------------
(* poll_process                                                            *)

\* Lines 229-234: polltimeout is the time left in whole seconds, truncated
\* toward zero; a negative value skips poll as if it had returned 0.  The
\* millisecond timeout polltimeout * 1000 is an int: past 2147483 seconds it
\* wraps, and a negative timeout makes poll wait without limit.
Poll ==
    /\ pc = "poll"
    /\ LET polltimeout == CDiv(EndTime - now, NanoSec)
           ms == WrapMul(32, polltimeout, 1000)
       IN  IF polltimeout < 0
           THEN pc' = "check" /\ UNCHANGED wake
           ELSE /\ pc' = "in_poll"
                /\ wake' = IF ms < 0 THEN Forever ELSE now + MsTicks(ms)
    /\ UNCHANGED <<test_pid, timed_out, suspendflag, now, ck_i, ckFrom, disp,
                   sigs, child, cstatus, grand, reused, stray, report, jnlVars>>

\* Lines 266-286: the switch on revents.  Only a single bit is a case; any
\* combination falls to default and the loop polls again.
Dispatch(r) ==
    CASE r = {"POLLHUP"} -> "hup"
      [] r \in {{"POLLPRI"}, {"POLLERR"}, {"POLLNVAL"}} -> "wait"
      [] OTHER -> "poll"

\* poll returns a positive count (lines 263-287).  POLLHUP is reported
\* exactly when the child has exited; the other bits come from the
\* environment (a stopped or traced child, an error on the fd).  On
\* POLLHUP alone the group is sent SIGKILL (line 278) before the return.
PollEvent ==
    /\ pc = "in_poll"
    /\ \E r \in Events :
         /\ ("POLLHUP" \in r) = HupPending
         /\ IF Dispatch(r) = "hup"
            THEN KillGroup("SIGKILL") /\ pc' = "wait"
            ELSE UNCHANGED <<child, cstatus, grand, stray>> /\ pc' = Dispatch(r)
    /\ UNCHANGED <<test_pid, timed_out, suspendflag, now, wake, ck_i, ckFrom,
                   disp, sigs, reused, report, jnlVars>>

\* poll returns 0 (line 243): its timeout passed with no event pending.
PollTimeout ==
    /\ pc = "in_poll"
    /\ now >= wake
    /\ ~HupPending
    /\ pc' = "check"
    /\ UNCHANGED <<test_pid, timed_out, suspendflag, now, wake, ck_i, ckFrom,
                   disp, sigs, child, cstatus, grand, reused, stray,
                   report, jnlVars>>

\* poll returns -1 (lines 236-242): exit 1, the test left as it is.
PollError ==
    /\ pc = "in_poll"
    /\ "poll" \in Faults
    /\ pc' = "exited"
    /\ UNCHANGED <<test_pid, timed_out, suspendflag, now, wake, ck_i, ckFrom,
                   disp, sigs, child, cstatus, grand, reused, stray,
                   report, jnlVars>>

\* wake_up (lines 291-296): timed_out = 1, then clean_kill(test_pid).
WakeUpNoKill ==
    /\ timed_out' = 1
    /\ pc' = "wait"
    /\ UNCHANGED ckFrom

WakeUp ==
    /\ timed_out' = 1
    /\ pc' = "ck_hup"
    /\ ckFrom' = "wake_up"

Check ==
    IF EndTime - now > 0
    THEN pc' = "poll" /\ UNCHANGED <<timed_out, ckFrom>>
    ELSE IF suspendflag THEN pc' = "wait" /\ UNCHANGED <<timed_out, ckFrom>>
    ELSE WakeUp

\* Lines 246-261: "check that someone hasn't messed with the clock"; past
\* end_time, wake_up unless -s was given.
Timeout ==
    /\ pc = "check"
    /\ Check
    /\ UNCHANGED <<test_pid, suspendflag, now, wake, ck_i, disp, sigs, child,
                   cstatus, grand, reused, stray, report, jnlVars>>

-----------------------------------------------------------------------------
(* clean_kill (lines 72-87), called by wake_up and by goodbye              *)

\* kill(-test_pid, SIGHUP), then the loop starts with i = 0.
CkHup ==
    /\ pc = "ck_hup"
    /\ KillGroup("SIGHUP")
    /\ ck_i' = 0
    /\ pc' = "ck_wait"
    /\ UNCHANGED <<test_pid, timed_out, suspendflag, now, wake, ckFrom, disp,
                   sigs, reused, report, jnlVars>>

\* One iteration: waitpid(test_pid, WNOHANG) reaps an exited child and
\* breaks; otherwise sleep(1), i++, and the loop ends at i = 10.
CkWaitOffByOne ==
    IF HupPending
    THEN child' = "reaped" /\ pc' = "ck_kill" /\ UNCHANGED ck_i
    ELSE /\ ck_i' = ck_i + 1
         /\ pc' = IF ck_i + 1 > CleanKillTries THEN "ck_kill" ELSE "ck_wait"
         /\ UNCHANGED child

CkWaitStep ==
    IF HupPending
    THEN child' = "reaped" /\ pc' = "ck_kill" /\ UNCHANGED ck_i
    ELSE IF ck_i + 1 < CleanKillTries
         THEN ck_i' = ck_i + 1 /\ pc' = "ck_wait" /\ UNCHANGED child
         ELSE pc' = "ck_kill" /\ UNCHANGED <<ck_i, child>>

CkWait ==
    /\ pc = "ck_wait"
    /\ CkWaitStep
    /\ UNCHANGED <<test_pid, timed_out, suspendflag, now, wake, ckFrom, disp,
                   sigs, cstatus, grand, reused, stray, report, jnlVars>>

\* The final kill left out: only the SIGHUP reaches the group.
CkKillNoKill ==
    /\ pc = "ck_kill"
    /\ child # "forked"
    /\ pc' = IF ckFrom = "wake_up" THEN "wait" ELSE "exited"
    /\ UNCHANGED <<test_pid, timed_out, suspendflag, now, wake, ck_i, ckFrom,
                   disp, sigs, child, cstatus, grand, reused, stray,
                   report, jnlVars>>

\* kill(-test_pid, SIGKILL); sleep(3); return to wake_up's caller, or to
\* goodbye, which exits 1.  Timing assumption: after the ten seconds of
\* the loop the child has run setpgid.
CkKill ==
    /\ pc = "ck_kill"
    /\ child # "forked"
    /\ KillGroup("SIGKILL")
    /\ pc' = IF ckFrom = "wake_up" THEN "wait" ELSE "exited"
    /\ UNCHANGED <<test_pid, timed_out, suspendflag, now, wake, ck_i, ckFrom,
                   disp, sigs, reused, report, jnlVars>>

\* SIGHUP, SIGINT, SIGQUIT or SIGTERM reaches timeout at any point.
\* signal() installs the handler for one delivery only: goodbye runs with
\* the disposition reset to SIG_DFL, so a second signal terminates timeout
\* wherever it is.  goodbye kills the group only if test_pid > 0.
Goodbye ==
    /\ pc # "exited"
    /\ sigs < MaxSignals
    /\ sigs' = sigs + 1
    /\ IF disp = "default"
       THEN pc' = "exited" /\ UNCHANGED <<disp, ckFrom, jnlVars>>
       ELSE /\ disp' = "default"
            /\ IF test_pid > 0
               THEN pc' = "ck_hup" /\ ckFrom' = "goodbye"
               ELSE pc' = "exited" /\ UNCHANGED ckFrom
    /\ UNCHANGED <<test_pid, timed_out, suspendflag, now, wake, ck_i, child,
                   cstatus, grand, reused, stray, report, jnlVars>>

-----------------------------------------------------------------------------
(* main, after poll_process                                                *)

\* Lines 193-211: waitpid(test_pid, &child_status, 0) blocks until the child
\* exits.  If clean_kill already reaped it, waitpid fails (ECHILD): child_pid
\* is -1 and child_status is never written, so its bits are whatever the
\* stack held.  A timeout masks TIMED_OUT_INDEX into the status; unless -q
\* the pid and status go to stf_jnl_testcase_end, else main returns.
CallTestcaseEnd(r) ==
    IF quiet THEN pc' = "exited" /\ UNCHANGED report
    ELSE pc' = "jnl_end" /\ report' = r

Wait ==
    /\ pc = "wait"
    /\ \/ /\ HupPending
          /\ child' = "reaped"
          /\ CallTestcaseEnd([pid |-> test_pid, timedout |-> timed_out = 1,
                              status |-> cstatus])
       \/ /\ child = "reaped"
          /\ \E garbage \in {"exit", "signal"} :
               CallTestcaseEnd([pid |-> -1, timedout |-> timed_out = 1,
                                status |-> garbage])
          /\ UNCHANGED child
    /\ UNCHANGED <<test_pid, timed_out, suspendflag, now, wake, ck_i, ckFrom,
                   disp, sigs, cstatus, grand, reused, stray, jnlVars>>

\* stf_jnl_testcase_end (libstf.c lines 401-418): lock the var file, which
\* blocks while any process holds jvar_mlock, bump jseq and unlock; then
\* the result line is printed and main returns.
TceLock ==
    /\ pc = "jnl_end"
    /\ JV!Lock("timeout", "tce")
    /\ UNCHANGED <<pc, procVars, quiet, jstarted>>

TceUnlock ==
    /\ pc = "jnl_end"
    /\ JV!TestcaseEnd("timeout")
    /\ pc' = "exited"
    /\ UNCHANGED <<procVars, quiet, jstarted>>

TceUnmapped ==
    /\ pc = "jnl_end"
    /\ JV!Unmapped("timeout", "tce")
    /\ pc' = "exited"
    /\ UNCHANGED <<procVars, quiet, jstarted>>

-----------------------------------------------------------------------------
(* The test process group and the environment                              *)

\* Lines 163-168: the child makes itself a process group leader.
Setpgid ==
    /\ child = "forked"
    /\ child' = "grouped"
    /\ UNCHANGED <<pc, test_pid, timed_out, suspendflag, now, wake, ck_i,
                   ckFrom, disp, sigs, cstatus, grand, reused, stray,
                   report, jnlVars>>

\* Lines 169-175: unless -q the child journals the testcase start with
\* stf_jnl_testcase_start (libstf.c lines 346-366), under the var file's
\* lock when it is mapped.
ChildTcsLock ==
    /\ child = "grouped" /\ ~quiet /\ ~jstarted
    /\ JV!Lock("test", "tcs")
    /\ UNCHANGED <<pc, procVars, quiet, jstarted>>

ChildTcs ==
    /\ child = "grouped"
    /\ JV!TestcaseStart("test")
    /\ jstarted' = TRUE
    /\ UNCHANGED <<pc, procVars, quiet>>

ChildTcsUnmapped ==
    /\ child = "grouped" /\ ~quiet /\ ~jstarted
    /\ JV!Unmapped("test", "tcs")
    /\ jstarted' = TRUE
    /\ UNCHANGED <<pc, procVars, quiet>>

ChildJournal == ChildTcsLock \/ ChildTcs \/ ChildTcsUnmapped

\* Lines 176-181: execvp once the start is journalled; failure exits 1.
Exec ==
    /\ child = "grouped"
    /\ quiet \/ jstarted
    /\ \/ child' = "running" /\ UNCHANGED cstatus
       \/ child' = "zombie" /\ cstatus' = "exit"
    /\ UNCHANGED <<pc, test_pid, timed_out, suspendflag, now, wake, ck_i,
                   ckFrom, disp, sigs, grand, reused, stray, report, jnlVars>>

\* The test finishes by itself (a hung test never does), not inside a
\* libstf call.
TestExit ==
    /\ child = "running"
    /\ calls["test"] = "none"
    /\ child' = "zombie"
    /\ cstatus' = "exit"
    /\ UNCHANGED <<pc, test_pid, timed_out, suspendflag, now, wake, ck_i,
                   ckFrom, disp, sigs, grand, reused, stray, report, jnlVars>>

\* The test starts a process, which stays in its group.
Spawn ==
    /\ child = "running"
    /\ grand = "none"
    /\ grand' = "running"
    /\ UNCHANGED <<pc, test_pid, timed_out, suspendflag, now, wake, ck_i,
                   ckFrom, disp, sigs, child, cstatus, reused, stray,
                   report, jnlVars>>

GrandExit ==
    /\ grand = "running"
    /\ calls["grand"] = "none"
    /\ grand' = "dead"
    /\ UNCHANGED <<pc, test_pid, timed_out, suspendflag, now, wake, ck_i,
                   ckFrom, disp, sigs, child, cstatus, reused, stray,
                   report, jnlVars>>

\* The running test, or the process it started, calls libstf: the
\* assert_start and assert_end functions, or the stf_jnl_assert_end,
\* stf_jnl_totals and stf_jnl_testcase_end commands (a process of the
\* group, counted as its caller).
Alive(p) == IF p = "test" THEN child = "running" ELSE grand = "running"

GroupLock(p) ==
    /\ p \in Journalling /\ Alive(p)
    /\ \E c \in {"as", "tce"} : JV!Lock(p, c)
    /\ UNCHANGED <<pc, procVars, quiet, jstarted>>

GroupUpdate(p) ==
    /\ Alive(p)
    /\ JV!AssertStart(p) \/ JV!TestcaseEnd(p)
    /\ UNCHANGED <<pc, procVars, quiet, jstarted>>

GroupRead(p) ==
    /\ p \in Journalling /\ Alive(p)
    /\ JV!AssertEnd(p) \/ JV!Totals(p)
    /\ UNCHANGED <<pc, procVars, quiet, jstarted>>

GroupUnmapped(p) ==
    /\ p \in Journalling /\ Alive(p)
    /\ \E c \in {"as", "tce"} : JV!Unmapped(p, c)
    /\ UNCHANGED <<pc, procVars, quiet, jstarted>>

GroupJournal(p) ==
    GroupLock(p) \/ GroupUpdate(p) \/ GroupRead(p) \/ GroupUnmapped(p)

\* Once the test is reaped and its group is empty, the kernel may hand the
\* pid to a new process that makes it its own process group.
Reuse ==
    /\ PidReuse
    /\ child = "reaped"
    /\ grand # "running"
    /\ ~reused
    /\ reused' = TRUE
    /\ UNCHANGED <<pc, test_pid, timed_out, suspendflag, now, wake, ck_i,
                   ckFrom, disp, sigs, child, cstatus, grand, stray,
                   report, jnlVars>>

\* Time passes, by one unit or up to the pending poll's timeout or an
\* instant near end_time; poll returns at or after its timeout.
Tick ==
    /\ pc # "exited"
    /\ \E t \in {now + 1, wake} \cup Instants :
         /\ now < t /\ t <= TimeLimit
         /\ now' = t
    /\ UNCHANGED <<pc, test_pid, timed_out, suspendflag, wake, ck_i, ckFrom,
                   disp, sigs, child, cstatus, grand, reused, stray,
                   report, jnlVars>>

Parent == Fork \/ Assign \/ Open \/ Poll \/ PollEvent \/ PollTimeout
          \/ PollError \/ Timeout \/ CkHup \/ CkWait \/ CkKill \/ Wait
          \/ TceLock \/ TceUnlock \/ TceUnmapped

Next ==
    \/ Parent
    \/ Goodbye
    \/ Setpgid \/ ChildJournal \/ Exec \/ TestExit \/ Spawn \/ GrandExit
    \/ \E p \in {"test", "grand"} : GroupJournal(p)
    \/ Reuse
    \/ Tick

Spec == Init /\ [][Next]_vars

\* The kernel schedules timeout, its child until exec and the clock, and a
\* process inside a libstf call that locked the var file finishes the
\* call; a test may hang, the test group need not journal, and nobody is
\* obliged to signal timeout or to reuse a pid.
FairSpec ==
    /\ Spec
    /\ WF_vars(Parent)
    /\ WF_vars(Setpgid) /\ WF_vars(ChildJournal) /\ WF_vars(Exec)
    /\ \A p \in {"test", "grand"} : WF_vars(GroupUpdate(p))
    /\ WF_vars(Tick)

-----------------------------------------------------------------------------
(* Properties                                                              *)

Pcs == {"fork", "assign", "open", "poll", "in_poll", "check", "ck_hup",
        "ck_wait", "ck_kill", "wait", "jnl_end", "exited"}

TypeOK ==
    /\ pc \in Pcs
    /\ test_pid \in {-1, ThePid}
    /\ timed_out \in {0, 1}
    /\ suspendflag \in BOOLEAN
    /\ now \in 0..TimeLimit
    /\ wake \in 0..Forever
    /\ ck_i \in 0..(CleanKillTries - 1)
    /\ ckFrom \in {"wake_up", "goodbye"}
    /\ disp \in {"goodbye", "default"}
    /\ sigs \in 0..MaxSignals
    /\ child \in {"none", "forked", "grouped", "running", "zombie", "reaped"}
    /\ cstatus \in {"none", "exit", "signal"}
    /\ grand \in {"none", "running", "dead"}
    /\ {reused, stray} \subseteq BOOLEAN
    /\ report \in {NoReport} \cup [pid : {-1, ThePid}, timedout : BOOLEAN,
                                    status : {"none", "exit", "signal"}]
    /\ {quiet, jstarted} \subseteq BOOLEAN
    /\ JV!JvTypeOK(Previous)

\* When timeout has exited without -s, nothing of the test's process group
\* still runs: with poll reporting only the exit (POLLHUP), no failing call
\* and no signal, every way out of main passes either the POLLHUP case's
\* kill(-test_pid, SIGKILL) (line 278) or wake_up's clean_kill (SIGHUP, then
\* SIGKILL at line 84) before waitpid and exit, including a test that went
\* on running a process after its own exit.  The signal, open and poll
\* failure paths are outside this claim: each of them exits leaving the
\* group running (see the README's findings).
NoOrphan ==
    pc = "exited" /\ ~suspendflag
        => child \notin {"forked", "grouped", "running"} /\ grand # "running"

\* The journal's testcase end line names the test's pid (line 207 passes
\* child_pid, waitpid's result at line 193).
JournalPid == report # NoReport => report.pid = ThePid

\* timeout never signals a process group other than the test's: clean_kill
\* sends SIGKILL at line 84 to -test_pid even after its WNOHANG waitpid
\* (line 78) reaped the test, when the pid may belong to someone else.
NoStraySignal == ~stray

\* timeout eventually exits: a hung test is killed once its limit passes
\* and waitpid then returns.  With -s a hung test is left alone on purpose,
\* so the promise is made only of runs without it.
Terminates == ~suspendflag => <>(pc = "exited")

=============================================================================
