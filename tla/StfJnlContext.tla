---------------------------- MODULE StfJnlContext ----------------------------
(***************************************************************************)
(* stf_jnl_context (src/usr/src/tools/stf/bin/stf_jnl_context.c): runs a   *)
(* test with its stdout and stderr on two pipes and copies what arrives    *)
(* into the journal, tagging each line with the stream it came from.  A    *)
(* '\0' on stdout opens a journal entry, copied untagged up to its '\n'.   *)
(*                                                                         *)
(* Bytes are abstracted to what write_pipe tells apart: "nul", "nl" and a  *)
(* text byte, "o" when the test writes it to stdout and "e" to stderr.     *)
(* The journal is a sequence of the bytes sent to jnl_con_fd, with the  *)
(* tags "stdout| " and "stderr| " as the tokens "TO" and "TE", the         *)
(* overflow warning's text as "W", and a zero-width mark "J" where an      *)
(* entry opens.  MaxChar stands for MAXCHAR, both the read size and the    *)
(* stdout line limit.  A pipe holds at most PipeCap bytes: a test writing  *)
(* to a full pipe blocks in write(2) until stf_jnl_context reads from it.  *)
(***************************************************************************)
EXTENDS Integers, Sequences, SequencesExt

CONSTANTS
    MaxChar,        \* MAXCHAR
    MaxWrites,      \* bytes the test writes in all
    Faults,         \* calls that may fail: "pipe", "fork", "exec", "open", "poll"
    MaxSignals,     \* signals sent to stf_jnl_context
    Background,     \* the test may leave a process holding its pipes
    TestBytes,      \* the bytes the test writes to each pipe
    PipeCap         \* bytes a pipe holds before a write blocks

Pipes == {0, 1}                     \* pivec1 (stdout), pipe_err (stderr)
Text == [j \in Pipes |-> IF j = 0 THEN "o" ELSE "e"]

ASSUME /\ MaxChar >= 2
       /\ PipeCap >= 2
       /\ Faults \subseteq {"pipe", "fork", "exec", "open", "poll"}
       /\ \A j \in Pipes : TestBytes[j] \subseteq {Text[j], "nl", "nul"}
Final == {"done", "failed", "killed"}
DrainPc == [j \in Pipes |-> IF j = 0 THEN "drain0" ELSE "drain1"]
SvcPc == [j \in Pipes |-> IF j = 0 THEN "svc0" ELSE "svc1"]
WaitPc == [j \in Pipes |-> IF j = 0 THEN "wait0" ELSE "wait1"]

VARIABLES
    pc,         \* where main and read_pipe are
    test_pid,   \* -1 until fork1 returns
    disp,       \* "handler" once goodbye is installed, "default" after a signal
    sigs,       \* signals delivered so far
    child,      \* "none", "forked", "running", "zombie", "reaped", or
                \* "wait0"/"wait1": blocked writing to a full pipe
    grand,      \* "none", "running" (holding the pipes) or "gone"
    pipe,       \* bytes sent and not yet read, per pipe
    rev,        \* revents of the last poll on the pipes
    sent,       \* every byte the test has sent, per pipe
    ws          \* write_pipe's statics, cr_needed, outbuf and the journal

vars == <<pc, test_pid, disp, sigs, child, grand, pipe, rev, sent, ws>>

-----------------------------------------------------------------------------
(* write_pipe(pipenum, nbytes, buf), stf_jnl_context.c:280-411.            *)

\* The warning sent on a stdout line of MAXCHAR bytes.
Warning == <<"nl", "TE", "W", "nl">>

\* outbuf after the snprintf calls at p_out: the stdout tag if out_tagged
\* is 0, then the byte.
OutAppend(s, ch) ==
    s.outbuf \o (IF s.out_tagged = 0 THEN <<"TO">> ELSE <<>>) \o <<ch>>

\* A check that lets outcount reach MAXCHAR.
OverflowsLate(s) == s.outcount + 1 > MaxChar

\* "++outcount; if (outcount > MAXCHAR - 1)": the stdout byte being added
\* fills the line.
Overflows(s) == s.outcount + 1 > MaxChar - 1

\* One iteration of write_pipe's loop, for the byte ch of pipe j.
WriteByte(s, j, ch) ==
    CASE ch = "nul" /\ j = 0 ->
             [s EXCEPT !.jnl_entry = 1, !.cr_needed = 0,
                       !.jnl = @ \o (IF s.cr_needed = 1 THEN <<"nl">> ELSE <<>>)
                                 \o (IF s.jnl_entry = 0 THEN <<"J">> ELSE <<>>)]
      [] ch = "nul" ->
             [s EXCEPT !.jnl = Append(@, ch), !.cr_needed = 1]
      [] ch = "nl" /\ s.jnl_entry = 1 ->
             [s EXCEPT !.jnl = Append(@, ch), !.jnl_entry = 0, !.cr_needed = 0]
      [] ch = "nl" /\ j = 1 ->
             [s EXCEPT !.jnl = @ \o (IF s.err_tagged = 0 THEN <<"TE">> ELSE <<>>)
                                 \o <<ch>>,
                       !.err_tagged = 0, !.cr_needed = 0]
      [] ch = "nl" ->
             [s EXCEPT !.jnl = @ \o OutAppend(s, ch),
                       !.outbuf = <<>>, !.outcount = 0, !.out_tagged = 0,
                       !.cr_needed = 0]
      [] s.jnl_entry = 1 ->
             [s EXCEPT !.jnl = Append(@, ch)]
      [] j = 1 ->
             [s EXCEPT !.jnl = @ \o (IF s.err_tagged = 0 THEN <<"TE">> ELSE <<>>)
                                 \o <<ch>>,
                       !.err_tagged = 1, !.cr_needed = 1]
      [] Overflows(s) ->
             [s EXCEPT !.jnl = @ \o OutAppend(s, ch) \o Warning,
                       !.outbuf = <<>>, !.outcount = 0, !.out_tagged = 0,
                       !.cr_needed = 0]
      [] OTHER ->
             [s EXCEPT !.outbuf = OutAppend(s, ch),
                       !.out_tagged = 1, !.outcount = @ + 1]

WritePipe(s, j, buf) == FoldLeft(LAMBDA st, ch : WriteByte(st, j, ch), s, buf)

\* read(fd, buf, sizeof (buf)) on pipe j and write_pipe of what it returns.
ReadPipe(j) ==
    LET n == IF Len(pipe[j]) < MaxChar THEN Len(pipe[j]) ELSE MaxChar
    IN  /\ ws' = WritePipe(ws, j, SubSeq(pipe[j], 1, n))
        /\ pipe' = [pipe EXCEPT ![j] = SubSeq(@, n + 1, Len(@))]

\* Someone still holds a write end: the test before it exits, or a
\* process it left behind.
Writers == child \in {"forked", "running"} \cup Range(WaitPc) \/ grand = "running"

-----------------------------------------------------------------------------
(* main, stf_jnl_context.c:98-190.                                         *)

Init ==
    /\ pc = "pipe"
    /\ test_pid = -1
    /\ disp = "default"
    /\ sigs = 0
    /\ child = "none"
    /\ grand = "none"
    /\ pipe = [j \in Pipes |-> <<>>]
    /\ rev = [j \in Pipes |-> {}]
    /\ sent = [j \in Pipes |-> <<>>]
    /\ ws = [jnl_entry |-> 0, out_tagged |-> 0, err_tagged |-> 0,
             cr_needed |-> 0, outbuf |-> <<>>, outcount |-> 0, jnl |-> <<>>]

\* The two pipe() calls, stf_jnl_open and the four signal() calls; a failed
\* pipe() makes main return before anything else happens.
Setup ==
    /\ pc = "pipe"
    /\ \/ "pipe" \in Faults /\ pc' = "failed" /\ UNCHANGED disp
       \/ pc' = "fork" /\ disp' = "handler"
    /\ UNCHANGED <<test_pid, sigs, child, grand, pipe, rev, sent, ws>>

\* fork1(): the child exists before its pid is stored in test_pid.
Fork ==
    /\ pc = "fork"
    /\ \/ "fork" \in Faults /\ pc' = "failed" /\ UNCHANGED child
       \/ pc' = "assign" /\ child' = "forked"
    /\ UNCHANGED <<test_pid, disp, sigs, grand, pipe, rev, sent, ws>>

Assign ==
    /\ pc = "assign"
    /\ test_pid' = 1
    /\ pc' = "open"
    /\ UNCHANGED <<disp, sigs, child, grand, pipe, rev, sent, ws>>

\* open(proc_file): on failure main returns and nobody reads the pipes.
Open ==
    /\ pc = "open"
    /\ \/ "open" \in Faults /\ pc' = "failed"
       \/ pc' = "poll"
    /\ UNCHANGED <<test_pid, disp, sigs, child, grand, pipe, rev, sent, ws>>

\* The final read of each pipe: "while ((lastct = read(...)) > 0)".  read
\* blocks on an empty pipe whose write end is still held.
Drain(j) ==
    /\ pc = DrainPc[j]
    /\ \/ pipe[j] # <<>> /\ ReadPipe(j) /\ UNCHANGED pc
       \/ /\ pipe[j] = <<>> /\ ~Writers
          /\ pc' = IF j = 0 THEN "drain1" ELSE "flush"
          /\ UNCHANGED <<pipe, ws>>
    /\ UNCHANGED <<test_pid, disp, sigs, child, grand, rev, sent>>

\* A final flush that forgets the buffered stdout line.
FlushNoBuffer ==
    /\ pc = "flush"
    /\ ws' = [ws EXCEPT
                !.jnl = @ \o (IF ws.cr_needed = 1 THEN <<"nl">> ELSE <<>>),
                !.cr_needed = 0]
    /\ pc' = "wait"
    /\ UNCHANGED <<test_pid, disp, sigs, child, grand, pipe, rev, sent>>

\* The stdout bytes still buffered, and the pending newline.
Flush ==
    /\ pc = "flush"
    /\ ws' = [ws EXCEPT
                !.jnl = @ \o (IF ws.outbuf # <<>>
                              THEN (IF ws.cr_needed = 1 THEN <<"nl">> ELSE <<>>)
                                   \o ws.outbuf \o <<"nl">>
                              ELSE IF ws.cr_needed = 1 THEN <<"nl">> ELSE <<>>),
                !.cr_needed = 0]
    /\ pc' = "wait"
    /\ UNCHANGED <<test_pid, disp, sigs, child, grand, pipe, rev, sent>>

\* while (waitpid(test_pid, &stat, 0) != test_pid);
Wait ==
    /\ pc = "wait"
    /\ child = "zombie"
    /\ child' = "reaped"
    /\ pc' = "kill"
    /\ UNCHANGED <<test_pid, disp, sigs, grand, pipe, rev, sent, ws>>

\* kill(-test_pid, SIGKILL): whatever is left of the test's group.
Kill ==
    /\ pc = "kill"
    /\ grand' = IF grand = "running" THEN "gone" ELSE grand
    /\ pc' = "done"
    /\ UNCHANGED <<test_pid, disp, sigs, child, pipe, rev, sent, ws>>


-----------------------------------------------------------------------------
(* read_pipe, stf_jnl_context.c:195-275.  Each pass polls both pipes with  *)
(* a 5 ms timeout; when neither is ready it polls /proc/<pid> for 10 ms,   *)
(* which reports POLLHUP once the test has exited.  A ready pipe is read   *)
(* once; POLLHUP on a pipe or on the process ends the loop.  The process's *)
(* revents are tested after the pipes on every pass, but they can only be  *)
(* nonzero on the pass that returns, so they are not kept.                 *)

PollPipes ==
    /\ pc = "poll"
    /\ \/ "poll" \in Faults /\ pc' = "drain0" /\ UNCHANGED rev
       \/ LET r == [j \in Pipes |->
                      (IF pipe[j] # <<>> THEN {"IN"} ELSE {})
                      \cup (IF Writers THEN {} ELSE {"HUP"})]
          IN  /\ rev' = r
              /\ pc' = IF r[0] = {} /\ r[1] = {} THEN "proc" ELSE "svc0"
    /\ UNCHANGED <<test_pid, disp, sigs, child, grand, pipe, sent, ws>>

PollProc ==
    /\ pc = "proc"
    /\ \/ "poll" \in Faults /\ pc' = "drain0"
       \/ pc' = IF child = "zombie" THEN "drain0" ELSE "poll"
    /\ UNCHANGED <<test_pid, disp, sigs, child, grand, pipe, rev, sent, ws>>

\* The body of "for (j = 0; j < 2; j++)" for pipe j.
Service(j) ==
    /\ pc = SvcPc[j]
    /\ IF "IN" \in rev[j] THEN ReadPipe(j) ELSE UNCHANGED <<pipe, ws>>
    /\ pc' = IF "HUP" \in rev[j] THEN "drain0"
             ELSE IF j = 0 THEN "svc1" ELSE "poll"
    /\ UNCHANGED <<test_pid, disp, sigs, child, grand, rev, sent>>

-----------------------------------------------------------------------------
(* The test: the child of fork1 (stf_jnl_context.c:133-146), the program   *)
(* it execs, and a process that program may leave behind.                  *)

\* setpgid, dup2 of the pipes onto 1 and 2, execvp; if execvp fails,
\* perror's line goes to the stderr pipe and the child exits.
Exec ==
    /\ child = "forked"
    /\ \/ child' = "running" /\ UNCHANGED <<pipe, sent>>
       \/ /\ "exec" \in Faults
          /\ child' = "zombie"
          /\ pipe' = [pipe EXCEPT ![1] = @ \o <<"e", "nl">>]
          /\ sent' = [sent EXCEPT ![1] = @ \o <<"e", "nl">>]
    /\ UNCHANGED <<pc, test_pid, disp, sigs, grand, rev, ws>>

\* One byte the test writes lands in pipe j.
Put(j) ==
    \E ch \in TestBytes[j] :
        /\ pipe' = [pipe EXCEPT ![j] = Append(@, ch)]
        /\ sent' = [sent EXCEPT ![j] = Append(@, ch)]

\* A read has made room in the pipe the test is blocked on: its write
\* completes.
Unblock(j) ==
    /\ child = WaitPc[j]
    /\ Len(pipe[j]) < PipeCap
    /\ Put(j)
    /\ child' = "running"
    /\ UNCHANGED <<pc, test_pid, disp, sigs, grand, rev, ws>>

\* write(2) of one byte to stdout or stderr: it returns at once, blocks on
\* a full pipe, or is the blocked write completing.
TestWrite ==
    \/ /\ child = "running"
       /\ Len(sent[0]) + Len(sent[1]) < MaxWrites
       /\ \E j \in Pipes :
            IF Len(pipe[j]) < PipeCap
            THEN Put(j) /\ UNCHANGED child
            ELSE child' = WaitPc[j] /\ UNCHANGED <<pipe, sent>>
       /\ UNCHANGED <<pc, test_pid, disp, sigs, grand, rev, ws>>
    \/ \E j \in Pipes : Unblock(j)

TestExit ==
    /\ child = "running"
    /\ child' = "zombie"
    /\ UNCHANGED <<pc, test_pid, disp, sigs, grand, pipe, rev, sent, ws>>

Spawn ==
    /\ Background /\ child = "running" /\ grand = "none"
    /\ grand' = "running"
    /\ UNCHANGED <<pc, test_pid, disp, sigs, child, pipe, rev, sent, ws>>

GrandExit ==
    /\ grand = "running"
    /\ grand' = "gone"
    /\ UNCHANGED <<pc, test_pid, disp, sigs, child, pipe, rev, sent, ws>>

\* Where a poll or a blocked read that a signal interrupts goes on: EINTR
\* ends read_pipe, and ends the drain loop of the pipe being read.
AfterEintr ==
    CASE pc \in {"poll", "proc"} -> "drain0"
      [] pc = "drain0" -> "drain1"
      [] OTHER -> "flush"

Blocked ==
    \/ pc \in {"poll", "proc"}
    \/ \E j \in Pipes : pc = DrainPc[j] /\ pipe[j] = <<>> /\ Writers

\* goodbye(signum), stf_jnl_context.c:88-96, for SIGHUP, SIGINT, SIGQUIT or
\* SIGTERM.  signal() resets the disposition on delivery, so a second one
\* terminates stf_jnl_context.  The handler sends SIGHUP to the test's
\* group (a child that has not yet run setpgid is not in it) and returns;
\* the call it interrupted may fail with EINTR.  waitpid is retried.
Goodbye ==
    /\ sigs < MaxSignals /\ pc \notin Final
    /\ sigs' = sigs + 1
    /\ IF disp = "default"
       THEN pc' = "killed" /\ UNCHANGED <<disp, child, grand>>
       ELSE /\ disp' = "default"
            /\ IF test_pid > 0
               THEN /\ child' = IF child \in {"running"} \cup Range(WaitPc)
                                 THEN "zombie" ELSE child
                    /\ grand' = IF grand = "running" THEN "gone" ELSE grand
                    /\ \/ Blocked /\ pc' = AfterEintr
                       \/ UNCHANGED pc
               ELSE pc' = "failed" /\ UNCHANGED <<child, grand>>
    /\ UNCHANGED <<test_pid, pipe, rev, sent, ws>>

Parent ==
    \/ Setup \/ Fork \/ Assign \/ Open \/ PollPipes \/ PollProc
    \/ \E j \in Pipes : Service(j) \/ Drain(j)
    \/ Flush \/ Wait \/ Kill

Next ==
    \/ Parent
    \/ Exec \/ TestWrite \/ TestExit \/ Spawn \/ GrandExit \/ Goodbye

Spec == Init /\ [][Next]_vars

\* stf_jnl_context's own steps are taken, and the test, once exec'd, runs to
\* its end, a write blocked on a pipe with room completing (the kernel wakes
\* the writer); a process the test leaves behind may live for ever.
FairSpec ==
    /\ Spec /\ WF_vars(Parent) /\ WF_vars(Exec) /\ WF_vars(TestExit)
    /\ WF_vars(\E j \in Pipes : Unblock(j))

-----------------------------------------------------------------------------
(* Properties.                                                             *)

Pcs == {"pipe", "fork", "assign", "open", "poll", "proc", "svc0", "svc1",
        "drain0", "drain1", "flush", "wait", "kill"} \cup Final
Tokens == {"o", "e", "nl", "nul", "TO", "TE", "W", "J"}

\* Also: write_pipe's stdout buffer (outbuf[MAXCHAR + 12]) never holds more
\* than the tag and MAXCHAR - 1 bytes between calls; the byte that would
\* make MAXCHAR is flushed with the overflow warning.
TypeOK ==
    /\ pc \in Pcs
    /\ test_pid \in {-1, 1}
    /\ child \in {"none", "forked", "running", "zombie", "reaped"} \cup Range(WaitPc)
    /\ grand \in {"none", "running", "gone"}
    /\ ws.outcount \in 0..(MaxChar - 1)
    /\ Len(ws.outbuf) = IF ws.out_tagged = 1 THEN ws.outcount + 1 ELSE 0
    /\ \A j \in Pipes : IsSuffix(pipe[j], sent[j]) /\ Len(pipe[j]) <= PipeCap
    /\ \A i \in DOMAIN ws.jnl : ws.jnl[i] \in Tokens

Count(s, t) == Len(SelectSeq(s, LAMBDA x : x = t))

\* When stf_jnl_context returns after its final waitpid and kill, every text
\* byte the test wrote to stdout and to stderr is in the journal exactly
\* once: the drain loop, write_pipe's overflow flush and main's final flush
\* of outbuf lose and repeat nothing.  Runs a signal interrupted are left
\* out: the EINTR of a blocked read ends that pipe's drain loop early.
ContentPreserved ==
    pc = "done" /\ sigs = 0 =>
        \A j \in Pipes : Count(ws.jnl, Text[j]) = Count(sent[j], Text[j])

\* Every journal line is one stream's line: it starts with the stdout tag,
\* the stderr tag or a journal entry, and carries only that stream's bytes
\* (the overflow warning is a stderr line).  write_pipe's cr_needed and
\* err_tagged are there to keep stderr's unfinished lines apart from the
\* others.
Body == [TO |-> {"o"}, TE |-> {"e", "nul", "W"}, J |-> {"o"}]
LineStart(i) == i = 1 \/ ws.jnl[i - 1] = "nl"
LinesTagged ==
    \A i \in DOMAIN ws.jnl :
        LineStart(i) /\ ws.jnl[i] # "nl" =>
            /\ ws.jnl[i] \in {"TO", "TE", "J"}
            /\ \A k \in (i + 1)..Len(ws.jnl) :
                 (\A m \in (i + 1)..k : ws.jnl[m] # "nl") =>
                     ws.jnl[k] \in Body[ws.jnl[i]]

\* stf_jnl_context returns, unless a process the test left behind keeps a
\* pipe open for ever: then the drain loop's read never sees end of file.
\* Not a run's property: it fails whenever read_pipe returns early (a poll
\* failure, or EINTR after goodbye) and main's drain of stdout waits for
\* end of file while the test is blocked writing to a full stderr pipe.
Terminates == <>[](grand # "running") => <>(pc \in Final)

=============================================================================
