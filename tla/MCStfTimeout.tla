---------------------------- MODULE MCStfTimeout ----------------------------
(***************************************************************************)
(* Instances of StfTimeout for TLC: the revents values poll may report.    *)
(***************************************************************************)
EXTENDS StfTimeout, TLC

\* Only the child's exit: /proc/<pid> of an untraced test, no fd errors.
MCHupOnly == {{"POLLHUP"}}

\* Each single bit, and POLLHUP or POLLPRI together with POLLERR.
MCEventsAll ==
    {{"POLLHUP"}, {"POLLPRI"}, {"POLLERR"}, {"POLLNVAL"},
     {"POLLHUP", "POLLERR"}, {"POLLPRI", "POLLERR"}}

=============================================================================
