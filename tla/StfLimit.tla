------------------------------- MODULE StfLimit -------------------------------
(***************************************************************************)
(* stf_timeout's limit argument (parse_timeout and parse_value,           *)
(* stf_timeout.c:317-403).  A limit string is abstracted to its tokens:    *)
(* Num(n) stands for a run of digits (the value strtol reads), Chr("h"),   *)
(* Chr("m") and Chr("s") for the unit letters, Chr("x") for any other      *)
(* character.                                                              *)
(* The enum units variable of parse_timeout is never initialized, and      *)
(* parse_value leaves it alone on an unknown character, so its starting    *)
(* value is a parameter: one of the enum's values, or "other" for a bit    *)
(* pattern that is none of them.                                           *)
(***************************************************************************)
EXTENDS Integers, Sequences

Num(n) == [k |-> "num", v |-> n]
Chr(c) == [k |-> c, v |-> 0]
IsNum(t) == t.k = "num"

Units == {"hours", "minutes", "seconds", "none"}
UnitOf == [h |-> "hours", m |-> "minutes", s |-> "seconds"]

\* parse_value(&s, &units): strtol reads a leading number (0 and nothing
\* consumed if there is none); the next character sets the units and is
\* skipped, the end of the string gives none, and any other character is
\* reported and left in place with units unchanged.
ParseValue(s, units) ==
    LET num   == s # <<>> /\ IsNum(s[1])
        value == IF num THEN s[1].v ELSE 0
        r     == IF num THEN Tail(s) ELSE s
    IN  CASE r = <<>> ->
                 [value |-> value, units |-> "none", rest |-> r]
          [] r[1].k \in DOMAIN UnitOf ->
                 [value |-> value, units |-> UnitOf[r[1].k], rest |-> Tail(r)]
          [] OTHER ->
                 [value |-> value, units |-> units, rest |-> r]

\* A block that forgets to parse the next value.
TakeNoAdvance(st, u, secs) ==
    IF st.units = u THEN [st EXCEPT !.d = @ + secs * st.value] ELSE st

\* One "if (value_units == u)" block of parse_timeout: add the value times
\* the unit's seconds and parse the next value.
Take(st, u, secs) ==
    IF st.units = u
    THEN LET p == ParseValue(st.rest, st.units)
         IN  [d |-> st.d + secs * st.value, value |-> p.value,
              units |-> p.units, rest |-> p.rest]
    ELSE st

\* parse_timeout(s, &duration), with the uninitialized value_units given as
\* garbage.  hours, minutes and seconds are taken in that order; a final
\* none adds a bare number as seconds.  On a bad limit the message is
\* printed and the duration so far is returned all the same.
ParseTimeout(s, garbage) ==
    LET p0 == ParseValue(s, garbage)
        s0 == [d |-> 0, value |-> p0.value, units |-> p0.units,
               rest |-> p0.rest]
        s3 == Take(Take(Take(s0, "hours", 3600), "minutes", 60),
                   "seconds", 1)
    IN  IF s3.units = "none" THEN s3.d + s3.value ELSE s3.d

-----------------------------------------------------------------------------
(* The limits the usage text promises: "integer time limit in seconds or   *)
(* of the form 3h23m45s", each unit at most once and in that order.        *)

UnitSecs == [h |-> 3600, m |-> 60, s |-> 1]

\* The letters of a 3h23m45s form, in the order they appear.
Letters(s) == [i \in 1..(Len(s) \div 2) |-> s[2 * i].k]

WellFormed(s) ==
    \/ Len(s) = 1 /\ IsNum(s[1])
    \/ /\ Len(s) > 0 /\ Len(s) % 2 = 0
       /\ \A i \in 1..(Len(s) \div 2) :
            IsNum(s[2 * i - 1]) /\ s[2 * i].k \in DOMAIN UnitSecs
       /\ \A i, j \in 1..(Len(s) \div 2) :
            i < j => <<Letters(s)[i], Letters(s)[j]>>
                       \in {<<"h", "m">>, <<"h", "s">>, <<"m", "s">>}

RECURSIVE RefSeconds(_)
RefSeconds(s) ==
    IF Len(s) < 2 THEN (IF s = <<>> THEN 0 ELSE s[1].v)
    ELSE s[1].v * UnitSecs[s[2].k] + RefSeconds(Tail(Tail(s)))

=============================================================================
