---------------------------- MODULE MCJnlBuffers ----------------------------
(* Model-checking instance of JnlBuffers: three threads with the thread    *)
(* ids 1, 2 and 3 as the four little-endian bytes of a thread_t, groups    *)
(* as model values.                                                        *)
EXTENDS JnlBuffers, TLC

CONSTANTS t1, t2, t3, g1, g2, g3

MCThreads == {t1, t2, t3}
ThrSelf == (t1 :> <<1, 0, 0, 0>>) @@ (t2 :> <<2, 0, 0, 0>>) @@ (t3 :> <<3, 0, 0, 0>>)
MCTid == [t \in MCThreads |-> ThrSelf[t]]
MCKeys == {MCTid[t] : t \in MCThreads}

\* Groups are interchangeable: malloc may return any of them.
MCSymmetry == Permutations({g1, g2, g3})
====
