---------------------------- MODULE RtpRewriter ----------------------------
(***************************************************************************)
(* The outbound stream of one subscription: sfu/src/rtp_rewriter.cpp.      *)
(*                                                                         *)
(* A source numbers its packets one after another, from any number, modulo *)
(* SeqMod; the network delays some behind later ones, or loses them; the   *)
(* source is switched (reset) at any time.  SRTP discards duplicates       *)
(* before packets come here.  A packet is its sequence number and its time *)
(* stamp, which here grows by one with each packet of a source.            *)
(***************************************************************************)
EXTENDS Integers, Sequences, FiniteSets

CONSTANTS SeqMod, TsMod, \* 2^16 and 2^32 in the code
          TsStep,        \* the 90000 of the code
          First,         \* bound: the packets a source may begin with
          Window,        \* bound: packets delayed at one time
          MaxDelay,      \* bound: how late a packet may come, in time stamps
          MaxPackets,    \* bound: packets the sources send
          MaxSwitches    \* bound: calls of reset()

Packet == [seq : 0..(SeqMod - 1), ts : 0..(TsMod - 1)]

ASSUME RewriterAssumption ==
    /\ First \subseteq Packet
    /\ SeqMod \in Nat \ {0} /\ TsMod \in Nat \ {0} /\ TsStep \in Nat
    /\ Window \in Nat /\ MaxDelay \in Nat /\ MaxPackets \in Nat /\ MaxSwitches \in Nat

VARIABLES sent,     \* how many packets the sources sent
          next,     \* the packet that the source sends next
          delayed,  \* the packets it sent that are still under way
          rw,       \* the RtpRewriter
          source,   \* how often the source was switched
          log       \* what was rewritten: packet, source, and what it became

rewriterVars == <<sent, next, delayed, rw, source, log>>

RewriterTypeOK ==
    /\ sent \in 0..MaxPackets /\ next \in Packet /\ delayed \subseteq Packet
    /\ rw \in [initialized : BOOLEAN,
               seqOffset : 0..(SeqMod - 1), tsOffset : 0..(TsMod - 1),
               lastOutSeq : 0..(SeqMod - 1), lastOutTs : 0..(TsMod - 1)]
    /\ source \in 0..MaxSwitches
    /\ log \in Seq([in : Packet, source : 0..MaxSwitches, out : Packet])

RewriterInit ==
    /\ sent = 0 /\ next \in First
    /\ delayed = {}
    /\ rw = [initialized |-> FALSE, seqOffset |-> 0, tsOffset |-> 0,
             lastOutSeq |-> 0, lastOutTs |-> 0]
    /\ source = 0 /\ log = <<>>

-----------------------------------------------------------------------------
(* rewrite() *)

\* Faulty: the offset is taken without regard for the width of the number.
UnboundedOffsets(p) ==
    IF rw.initialized THEN rw
    ELSE [rw EXCEPT !.initialized = TRUE,
                    !.seqOffset = p.seq - (rw.lastOutSeq + 1),
                    !.tsOffset = p.ts - (rw.lastOutTs + TsStep)]

\* Faulty: the offsets are taken anew for every packet.
OffsetsEachTime(p) ==
    [rw EXCEPT !.seqOffset = (p.seq - (rw.lastOutSeq + 1)) % SeqMod,
               !.tsOffset = (p.ts - (rw.lastOutTs + TsStep)) % TsMod]

\* Faulty: the time stamp of a new source continues where the old one was.
OffsetsWithoutStep(p) ==
    IF rw.initialized THEN rw
    ELSE [rw EXCEPT !.initialized = TRUE,
                    !.seqOffset = (p.seq - (rw.lastOutSeq + 1)) % SeqMod,
                    !.tsOffset = (p.ts - (rw.lastOutTs + 1)) % TsMod]

Offsets(p) ==
    IF rw.initialized THEN rw
    ELSE [rw EXCEPT !.initialized = TRUE,
                    !.seqOffset = (p.seq - (rw.lastOutSeq + 1)) % SeqMod,
                    !.tsOffset = (p.ts - (rw.lastOutTs + TsStep)) % TsMod]

Rewrite(p) ==
    LET o   == Offsets(p)
        out == [seq |-> (p.seq - o.seqOffset) % SeqMod,
                ts  |-> (p.ts - o.tsOffset) % TsMod]
    IN
    /\ rw' = [o EXCEPT !.lastOutSeq = out.seq, !.lastOutTs = out.ts]
    /\ log' = Append(log, [in |-> p, source |-> source, out |-> out])

-----------------------------------------------------------------------------
(* The source and the network. *)

Sends ==
    /\ sent < MaxPackets
    /\ sent' = sent + 1
    /\ next' = [seq |-> (next.seq + 1) % SeqMod, ts |-> (next.ts + 1) % TsMod]

Deliver ==
    /\ Sends
    /\ Rewrite(next)
    /\ UNCHANGED <<delayed, source>>

Delay ==
    /\ Sends
    /\ Cardinality(delayed) < Window
    /\ delayed' = delayed \cup {next}
    /\ UNCHANGED <<rw, source, log>>

DeliverDelayed(p) ==
    /\ (next.ts - p.ts) % TsMod <= MaxDelay
    /\ Rewrite(p)
    /\ delayed' = delayed \ {p}
    /\ UNCHANGED <<sent, next, source>>

Lose(p) ==
    /\ delayed' = delayed \ {p}
    /\ UNCHANGED <<sent, next, rw, source, log>>

\* reset(), for another source
Switch ==
    /\ source < MaxSwitches
    /\ source' = source + 1
    /\ rw' = [rw EXCEPT !.initialized = FALSE]
    /\ next' \in First
    /\ delayed' = {}
    /\ UNCHANGED <<sent, log>>

RewriterNext ==
    \/ Deliver \/ Delay \/ Switch
    \/ \E p \in delayed : DeliverDelayed(p) \/ Lose(p)

RewriterSpec == RewriterInit /\ [][RewriterNext]_rewriterVars

-----------------------------------------------------------------------------
(* Properties. *)

(***************************************************************************)
(* Within a source the outbound packets are as far apart as the inbound    *)
(* ones, in numbers and in time, across losses, reordering and the wrap of *)
(* either stream: the receiver sees the losses there were and no others.   *)
(***************************************************************************)
DistancesPreserved ==
    \A i, j \in DOMAIN log : log[i].source = log[j].source =>
        /\ (log[j].out.seq - log[i].out.seq) % SeqMod = (log[j].in.seq - log[i].in.seq) % SeqMod
        /\ (log[j].out.ts - log[i].out.ts) % TsMod = (log[j].in.ts - log[i].in.ts) % TsMod

(***************************************************************************)
(* At a switch the time stamps advance, although the last packet rewritten *)
(* may have been a delayed one, and the first of the new source overtakes   *)
(* others: the step is more than twice the delay.                          *)
(***************************************************************************)
TimestampsAdvanceAtSwitch ==
    \A i, j \in DOMAIN log : log[j].source = log[i].source + 1 =>
        (log[j].out.ts - log[i].out.ts) % TsMod \in 1..(TsMod \div 2)
=============================================================================
