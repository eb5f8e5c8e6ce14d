--------------------------- MODULE MCStfJnlContext ---------------------------
(***************************************************************************)
(* The bytes a test writes, for StfJnlContext's TestBytes.                 *)
(***************************************************************************)
EXTENDS StfJnlContext

\* Any byte on either stream.
MCAllBytes == [j \in Pipes |-> {Text[j], "nl", "nul"}]

\* Text and newlines only, no journal entries: a test that prints.
MCTextBytes == [j \in Pipes |-> {Text[j], "nl"}]

=============================================================================
