-------------------------------- MODULE CInt --------------------------------
(***************************************************************************)
(* C integer arithmetic used by stf_timeout's poll loop (poll_process,     *)
(* stf_timeout.c:229-233): the division of an hrtime_t difference by       *)
(* NANOSEC, which C truncates toward zero, and the product                 *)
(* polltimeout * 1000, computed in a w-bit two's complement int.  TLC's    *)
(* own integers are 32-bit, so the w-bit product is assembled from two     *)
(* half-words and never formed in full.                                    *)
(***************************************************************************)
EXTENDS Integers

\* a / b in C: the quotient truncated toward zero (b > 0).
CDiv(a, b) == IF a >= 0 THEN a \div b ELSE -((-a) \div b)

\* a * b as a w-bit signed int, for 0 <= a < 2^(w-1) and 0 <= b < 2^(w \div 2).
\* The low half-word of the product is lo % H; its high half-word is the
\* high half of a times b plus the carry out of lo, reduced mod H, and read
\* as a signed half-word.
WrapMul(w, a, b) ==
    LET H  == 2^(w \div 2)
        lo == (a % H) * b
        hi == ((a \div H) * b + (lo \div H)) % H
    IN  (IF hi >= H \div 2 THEN hi - H ELSE hi) * H + (lo % H)

=============================================================================
