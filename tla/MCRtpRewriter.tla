--------------------------- MODULE MCRtpRewriter ---------------------------
(***************************************************************************)
(* Instances of RtpRewriter for TLC.                                       *)
(***************************************************************************)
EXTENDS RtpRewriter

\* a source at the beginning, one about to wrap, and one in between
MCFirst == {[seq |-> 0, ts |-> 0], [seq |-> SeqMod - 1, ts |-> TsMod - 2],
            [seq |-> SeqMod \div 2, ts |-> TsMod \div 2]}
=============================================================================
