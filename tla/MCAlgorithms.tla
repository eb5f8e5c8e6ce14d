----------------------------- MODULE MCAlgorithms -----------------------------
(***************************************************************************)
(* Checks the project's pure algorithms against reference definitions on   *)
(* every small input.  A behaviour checks one module, named by mode:       *)
(*   "limit" StfLimit: an initial state fixes a limit string, each step    *)
(*           moves the uninitialized value_units round its possible values;*)
(*   "jnl"   JnlLevels: an initial state fixes a message level, a detail   *)
(*           level and a message text, each step moves TJNL_DETAIL round   *)
(*           the values _jnl_init_ may read.                               *)
(***************************************************************************)
EXTENDS StfLimit, JnlLevels

CONSTANTS Numbers, MaxLen, MaxText

VARIABLES mode, str, garbage, level, dl, text, env

vars == <<mode, str, garbage, level, dl, text, env>>

Tokens == {Num(n) : n \in Numbers} \cup {Chr(c) : c \in {"h", "m", "s", "x"}}
Garbage == <<"none", "hours", "minutes", "seconds", "other">>

\* Token strings: a run of digits is one number, so two never touch.
Strings ==
    UNION {{s \in [1..n -> Tokens] :
              \A i \in 1..(n - 1) : ~(IsNum(s[i]) /\ IsNum(s[i + 1]))}
           : n \in 0..MaxLen}

\* TJNL_DETAIL: unset, a number, or a word of any rank in strcasecmp's
\* order (each description, and one word below, between and above them).
Envs == <<Unset, Numeric(3)>> \o [r \in 1..15 |-> Word(r)]

Idle == [garbage |-> Garbage[1], level |-> 0, dl |-> 0, text |-> <<>>,
         env |-> Envs[1]]

Init ==
    \/ /\ mode = "limit"
       /\ str \in Strings
       /\ garbage = Idle.garbage /\ level = 0 /\ dl = 0 /\ text = <<>>
       /\ env = Idle.env
    \/ /\ mode = "jnl"
       /\ str = <<>>
       /\ garbage = Idle.garbage
       /\ level \in LevelMin..LevelMax
       /\ dl \in LevelMin..LevelMax
       /\ text \in BoundedSeq({"c", "nl"}, MaxText)
       /\ env = Idle.env

\* The next element of a cyclic enumeration.
Following(seq, x) ==
    LET i == CHOOSE k \in 1..Len(seq) : seq[k] = x
    IN  seq[(i % Len(seq)) + 1]

NextGarbage ==
    /\ mode = "limit"
    /\ garbage' = Following(Garbage, garbage)
    /\ UNCHANGED <<mode, str, level, dl, text, env>>

NextEnv ==
    /\ mode = "jnl"
    /\ env' = Following(Envs, env)
    /\ UNCHANGED <<mode, str, garbage, level, dl, text>>

Spec == Init /\ [][NextGarbage \/ NextEnv]_vars

\* A limit of the form the usage text gives (a number of seconds, or
\* 3h23m45s with any of the parts) parses to the seconds it denotes,
\* whatever value_units held before parse_timeout's first parse_value.
ParseMatchesUsage ==
    mode = "limit" /\ WellFormed(str) =>
        ParseTimeout(str, garbage) = RefSeconds(str)

\* jnl_dl_description_fetch's binary search ends for every level from
\* INT_MIN to INT_MAX, and finds the level's own entry or, between two
\* entries, the higher one (the one whose "~" header jnl_vlog_ prints).
DescriptionFetchIsCeiling ==
    mode = "jnl" => DescriptionFetch(level) = RefCeiling(level)

\* _jnl_init_ sets the detail level TJNL_DETAIL names: its number, the
\* level whose description it spells in any case (found by
\* jnl_dl_level_fetch's binary search), or jnlDL_PROGRESS for any other
\* word.
InitLevelMatchesEnv ==
    mode = "jnl" => InitLevel(env) = RefInitLevel(env)

\* jnl_vlog_ journals nothing above the detail level; otherwise the header
\* and each line of the text as one journal message, " " for an empty
\* line, no message for the empty run after a final newline, and one
\* blank message at the end.
VlogMatchesLines ==
    mode = "jnl" => Vlog(dl, level, text) = RefVlog(dl, level, text)

=============================================================================
