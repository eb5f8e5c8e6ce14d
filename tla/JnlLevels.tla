------------------------------ MODULE JnlLevels ------------------------------
(***************************************************************************)
(* libjnl's detail levels (libjnl.c, jnl_private.h): the two binary        *)
(* searches over the level tables, the TJNL_DETAIL parse of _jnl_init_ and *)
(* the way jnl_vlog_ cuts a message into journal lines.                    *)
(*                                                                         *)
(* A detail level keeps its order and its adjacency: ASSERTION, RESULT and *)
(* DIAGNOSTIC are INT_MIN, INT_MIN + 1 and INT_MIN + 2, the others leave   *)
(* gaps.  A string is abstracted to its rank in strcasecmp's order: the    *)
(* descriptions have even ranks, a word between two of them (or outside)   *)
(* an odd one, so every case of the comparison occurs.  A message is a     *)
(* sequence of "c" (any printable character) and "nl".                     *)
(***************************************************************************)
EXTENDS Integers, Sequences, SequencesExt

LevelMin == -6                   \* INT_MIN
LevelMax == 6                    \* INT_MAX
Progress == 0                    \* jnlDL_PROGRESS, _jnlDL_'s initial value

\* jnlDL_Level_Descriptions, sorted by level.
LevelDescriptions ==
    << [level |-> -6, description |->  2, name |-> "Assertion"],
       [level |-> -5, description |-> 10, name |-> "Result"],
       [level |-> -4, description |->  4, name |-> "Diagnostic"],
       [level |-> 0, description |->  8, name |-> "Progress"],
       [level |-> 2, description |-> 14, name |-> "Verbose"],
       [level |-> 4, description |-> 12, name |-> "Stack"],
       [level |-> 6, description |->  6, name |-> "Encyclopedic"] >>

\* jnlDL_Description_Levels, the same entries sorted by description.
DescriptionLevels ==
    SortSeq(LevelDescriptions, LAMBDA x, y : x.description < y.description)

Sign(x) == IF x < 0 THEN -1 ELSE IF x > 0 THEN 1 ELSE 0

Clamp(k, n) == IF k > n THEN n ELSE IF k < 1 THEN 1 ELSE k

RECURSIVE Probe(_, _, _, _, _)

\* A loop without the distance-one test.
ProbeNoBetween(dir, stop, i, d, fuel) ==
    LET d2 == (d + 1) \div 2
        j  == Clamp(i + dir[i] * d2, Len(dir))
    IN  CASE dir[i] = 0  -> i
          [] fuel = 0    -> 0
          [] j = i       -> j
          [] OTHER       -> Probe(dir, stop, j, d2, fuel - 1)

\* The while loop of the two fetches, from entry i at distance d.  dir[k]
\* is the sign of the key compared with entry k (the strcasecmp result,
\* or level - entry level).  Each pass moves half the distance, rounded
\* up, toward the key and clamps to the table; it stops on a match, when
\* the pointer did not move, or when at distance one the key lies strictly
\* between this entry and the previous one, returning the previous one.
\* Which side counts as "between" differs: description_fetch returns the
\* previous entry when entry < key < previous (stop = 1), level_fetch when
\* previous < key < entry (stop = -1).  Out of fuel is 0: a search that
\* never ends.
Probe(dir, stop, i, d, fuel) ==
    LET d2 == (d + 1) \div 2
        j  == Clamp(i + dir[i] * d2, Len(dir))
    IN  CASE dir[i] = 0  -> i
          [] fuel = 0    -> 0
          [] j = i       -> j
          [] d2 = 1 /\ dir[j] = stop /\ dir[i] = -stop -> i
          [] OTHER       -> Probe(dir, stop, j, d2, fuel - 1)

\* Both start at entry distance / 2 (1-based) with distance halved.
Search(dir, stop) ==
    Probe(dir, stop, Len(dir) \div 2, Len(dir) \div 2, Len(dir))

\* jnl_dl_description_fetch(level): the index in LevelDescriptions.
DescriptionFetch(level) ==
    Search([k \in 1..Len(LevelDescriptions) |->
               Sign(level - LevelDescriptions[k].level)], 1)

\* jnl_dl_level_fetch(description): the index in DescriptionLevels.
LevelFetch(rank) ==
    Search([k \in 1..Len(DescriptionLevels) |->
               Sign(rank - DescriptionLevels[k].description)], -1)

\* TJNL_DETAIL as _jnl_init_ reads it: unset, a string that starts with a
\* digit (atoi's value), or any other string (its rank).
Unset == [kind |-> "unset", v |-> 0]
Numeric(n) == [kind |-> "digit", v |-> n]
Word(r) == [kind |-> "word", v |-> r]

\* An init that takes the level of whatever entry level_fetch returns.
InitLevelNoCompare(env) ==
    CASE env.kind = "digit" -> env.v
      [] env.kind = "word" /\ LevelFetch(env.v) # 0 ->
             DescriptionLevels[LevelFetch(env.v)].level
      [] OTHER -> Progress

\* _jnl_init_'s detail level: atoi of a numeric value; for a word, the
\* level of the entry level_fetch returns if its description equals the
\* word, otherwise _jnlDL_ keeps jnlDL_PROGRESS.
InitLevel(env) ==
    CASE env.kind = "digit" -> env.v
      [] env.kind = "word" /\ LevelFetch(env.v) # 0
           /\ DescriptionLevels[LevelFetch(env.v)].description = env.v ->
             DescriptionLevels[LevelFetch(env.v)].level
      [] OTHER -> Progress

-----------------------------------------------------------------------------
(* jnl_vlog_(level, fmt, ...).  The journal buffer is the header line      *)
(* "[ - desc - ]" ("[ - ~desc - ]" when the level is not in the table),    *)
(* a newline and the caller's text; "nul" is its terminator.  Each line    *)
(* goes to stf_jnl_msg, an empty one as " " (token "sp").                  *)

Header(level) ==
    LET e == LevelDescriptions[DescriptionFetch(level)]
    IN  "[ - " \o (IF e.level = level THEN "" ELSE "~") \o e.name \o " - ]"

RECURSIVE Scan(_, _, _, _)

\* A scan that prints an empty line as it is.
ScanNoBlank(buf, p, s, out) ==
    CASE buf[p] = "nul" -> out
      [] buf[s] \in {"nl", "nul"} ->
             Scan(buf, IF buf[s] = "nul" THEN s ELSE s + 1, s + 1,
                  Append(out, SubSeq(buf, p, s - 1)))
      [] OTHER -> Scan(buf, p, s + 1, out)

\* The for loop: s scans, p marks the start of the current line; the loop
\* runs while *p is not the terminator.  At a newline or the terminator
\* the line [p, s) is printed, " " if it is empty, and p moves past the
\* newline (onto the terminator, which ends the loop).
Scan(buf, p, s, out) ==
    CASE buf[p] = "nul" -> out
      [] buf[s] \in {"nl", "nul"} ->
             Scan(buf, IF buf[s] = "nul" THEN s ELSE s + 1, s + 1,
                  Append(out, IF s = p THEN <<"sp">>
                              ELSE SubSeq(buf, p, s - 1)))
      [] OTHER -> Scan(buf, p, s + 1, out)

\* The journal messages of jnl_vlog_ with detail level dl: none when the
\* level fails JNL_DL_CHECK, else the scanned lines and a blank one.
Vlog(dl, level, text) ==
    IF ~(level <= dl) THEN <<>>
    ELSE LET buf == <<Header(level), "nl">> \o text \o <<"nul">>
         IN  Append(Scan(buf, 1, 1, <<>>), <<"sp">>)

-----------------------------------------------------------------------------
(* Reference definitions.                                                  *)

\* The entry a level belongs to: the lowest table level at or above it.
RefCeiling(level) ==
    CHOOSE k \in 1..Len(LevelDescriptions) :
        /\ LevelDescriptions[k].level >= level
        /\ \A m \in 1..(k - 1) : LevelDescriptions[m].level < level

\* The level a TJNL_DETAIL value names: its number, the level whose
\* description it spells in any case, or the default.
RefInitLevel(env) ==
    CASE env.kind = "digit" -> env.v
      [] \E k \in DOMAIN LevelDescriptions :
             env.kind = "word" /\ LevelDescriptions[k].description = env.v ->
             (CHOOSE e \in ToSet(LevelDescriptions) :
                  e.description = env.v).level
      [] OTHER -> Progress

\* The lines of a text: the runs between newlines, without the empty run
\* after a final newline.
RefLines(t) ==
    LET nl   == SetToSortSeq({i \in DOMAIN t : t[i] = "nl"}, <)
        cuts == <<0>> \o nl
                \o (IF t # <<>> /\ Last(t) # "nl" THEN <<Len(t) + 1>>
                    ELSE <<>>)
    IN  [k \in 1..(Len(cuts) - 1) |-> SubSeq(t, cuts[k] + 1, cuts[k + 1] - 1)]

RefVlog(dl, level, text) ==
    IF level > dl THEN <<>>
    ELSE LET lines == RefLines(text)
         IN  <<<<Header(level)>>>>
             \o [k \in DOMAIN lines |->
                   IF lines[k] = <<>> THEN <<"sp">> ELSE lines[k]]
             \o <<<<"sp">>>>

=============================================================================
