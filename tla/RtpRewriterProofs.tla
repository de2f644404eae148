-------------------------- MODULE RtpRewriterProofs -------------------------
(***************************************************************************)
(* Theorems about the rewriter of the SFU, for numbers of any width, any   *)
(* step, any delays and any number of packets and switches.                *)
(***************************************************************************)
EXTENDS RtpRewriter, TLAPS

-----------------------------------------------------------------------------
(* Arithmetic modulo m.  The solver knows what % is for a given m only, so *)
(* the lemmas say it with a product.                                       *)

\* The remainder, and the quotient that goes with it.
LEMMA ModIs ==
    ASSUME NEW m \in Nat \ {0}, NEW x \in Int
    PROVE  \E q \in Int, r \in 0..(m - 1) : x = m * q + r /\ x % m = r
<1>1. PICK r \in 0..(m - 1) : r = x % m
  OBVIOUS
<1>2. PICK q \in Int : q = x \div m
  OBVIOUS
<1>3. x % m = x - m * (x \div m)
  OBVIOUS
<1>4. PICK p \in Int : p = m * q
  OBVIOUS
<1>5. r = x - p
  BY <1>1, <1>2, <1>3, <1>4
<1>6. x = p + r
  BY <1>5
<1>7. QED BY <1>1, <1>4, <1>6

\* There is one remainder.
LEMMA ModUnique ==
    ASSUME NEW m \in Nat \ {0}, NEW x \in Int, NEW q \in Int, NEW r \in 0..(m - 1),
           x = m * q + r
    PROVE  x % m = r
BY SMTT(30)

\* Numbers from which the same is subtracted stay as far apart.
LEMMA ShiftKeepsDistance ==
    ASSUME NEW m \in Nat \ {0}, NEW a \in Int, NEW b \in Int, NEW o \in Int
    PROVE  (((a - o) % m) - ((b - o) % m)) % m = (a - b) % m
<1>1. a - o \in Int /\ b - o \in Int
  OBVIOUS
<1>2. PICK x \in Int, r \in 0..(m - 1) : a - o = m * x + r /\ (a - o) % m = r
  BY <1>1, ModIs
<1>3. PICK y \in Int, s \in 0..(m - 1) : b - o = m * y + s /\ (b - o) % m = s
  BY <1>1, ModIs
<1>4. PICK z \in Int, t \in 0..(m - 1) : r - s = m * z + t /\ (r - s) % m = t
  <2>1. r - s \in Int
    OBVIOUS
  <2>2. QED BY <2>1, ModIs
<1>5. a - b = m * (x - y + z) + t
  <2>1. m * (x - y + z) = m * x - m * y + m * z
    OBVIOUS
  <2>2. m * x \in Int /\ m * y \in Int /\ m * z \in Int
    OBVIOUS
  <2>3. PICK X \in Int, Y \in Int, Z \in Int : X = m * x /\ Y = m * y /\ Z = m * z
    BY <2>2
  <2>4. a - o = X + r /\ b - o = Y + s /\ r - s = Z + t
    BY <1>2, <1>3, <1>4, <2>3
  <2>5. a - b = X - Y + Z + t
    BY <2>4
  <2>6. QED BY <2>1, <2>3, <2>5
<1>6. (a - b) % m = t
  <2>1. PICK q \in Int : q = x - y + z
    OBVIOUS
  <2>2. QED BY <1>5, <2>1, ModUnique
<1>7. QED BY <1>2, <1>3, <1>4, <1>6

\* Congruent numbers may be subtracted and added.
LEMMA ModSame ==
    ASSUME NEW m \in Nat \ {0}, NEW a \in Int, NEW b \in Int, NEW q \in Int, a = b + m * q
    PROVE  a % m = b % m
<1>1. PICK z \in Int, r \in 0..(m - 1) : b = m * z + r /\ b % m = r
  BY ModIs
<1>2. PICK y \in Int : y = z + q
  OBVIOUS
<1>3. m * y = m * z + m * q
  BY <1>2
<1>4. PICK Y \in Int, Z \in Int, Q \in Int : Y = m * y /\ Z = m * z /\ Q = m * q
  OBVIOUS
<1>5. a = m * y + r
  BY <1>1, <1>3, <1>4
<1>6. QED BY <1>1, <1>5, ModUnique

\* Numbers that are equal modulo m.
Congruent(m, a, b) == a % m = b % m

\* Congruent numbers may be subtracted,
LEMMA CongruentSub ==
    ASSUME NEW m \in Nat \ {0}, NEW a \in Int, NEW b \in Int, NEW c \in Int, NEW d \in Int,
           Congruent(m, a, b), Congruent(m, c, d)
    PROVE  Congruent(m, a - c, b - d)
<1>1. PICK w \in Int, r \in 0..(m - 1) : a = m * w + r /\ a % m = r
  BY ModIs
<1>2. PICK x \in Int, r2 \in 0..(m - 1) : b = m * x + r2 /\ b % m = r2
  BY ModIs
<1>3. PICK y \in Int, s \in 0..(m - 1) : c = m * y + s /\ c % m = s
  BY ModIs
<1>4. PICK z \in Int, s2 \in 0..(m - 1) : d = m * z + s2 /\ d % m = s2
  BY ModIs
<1>5. r = r2 /\ s = s2
  BY <1>1, <1>2, <1>3, <1>4 DEF Congruent
<1>6. PICK q \in Int : q = (w - x) - (y - z)
  OBVIOUS
<1>7. m * q = (m * w - m * x) - (m * y - m * z)
  BY <1>6
<1>8. PICK W \in Int, X \in Int, Y \in Int, Z \in Int, Q \in Int :
         W = m * w /\ X = m * x /\ Y = m * y /\ Z = m * z /\ Q = m * q
  OBVIOUS
<1>9. a = W + r /\ b = X + r /\ c = Y + s /\ d = Z + s /\ Q = (W - X) - (Y - Z)
  BY <1>1, <1>2, <1>3, <1>4, <1>5, <1>7, <1>8
<1>10. PICK e \in Int, f \in Int : e = a - c /\ f = b - d
  OBVIOUS
<1>11. e = f + Q
  BY <1>9, <1>10
<1>12. e = f + m * q
  BY <1>8, <1>11
<1>13. e % m = f % m
  BY <1>12, ModSame
<1>14. QED BY <1>10, <1>13 DEF Congruent

\* and added.
LEMMA CongruentAdd ==
    ASSUME NEW m \in Nat \ {0}, NEW a \in Int, NEW b \in Int, NEW c \in Int, NEW d \in Int,
           Congruent(m, a, b), Congruent(m, c, d)
    PROVE  Congruent(m, a + c, b + d)
<1>1. PICK z \in Int, c2 \in Int, d2 \in Int : z = 0 /\ c2 = z - c /\ d2 = z - d
  OBVIOUS
<1>2. Congruent(m, z, z)
  BY DEF Congruent
<1>3. Congruent(m, z - c, z - d)
  BY <1>2, CongruentSub
<1>4. Congruent(m, c2, d2)
  BY <1>1, <1>3
<1>5. Congruent(m, a - c2, b - d2)
  BY <1>4, CongruentSub
<1>6. a - c2 = a + c /\ b - d2 = b + d
  BY <1>1
<1>7. QED BY <1>5, <1>6

\* A number below the modulus is its own remainder.
LEMMA ModSmall ==
    ASSUME NEW m \in Nat \ {0}, NEW r \in 0..(m - 1)
    PROVE  r % m = r
<1>1. r = m * 0 + r /\ r \in Int
  OBVIOUS
<1>2. QED BY <1>1, ModUnique

\* So is a remainder.
LEMMA ModMod ==
    ASSUME NEW m \in Nat \ {0}, NEW a \in Int
    PROVE  a % m \in 0..(m - 1) /\ (a % m) % m = a % m
BY ModIs, ModSmall


\* A number is congruent with its remainder, and with itself.
LEMMA CongruentMod ==
    ASSUME NEW m \in Nat \ {0}, NEW a \in Int
    PROVE  a % m \in Int /\ Congruent(m, a % m, a) /\ Congruent(m, a, a)
<1>1. PICK r \in 0..(m - 1) : r = a % m
  BY ModMod
<1>2. r % m = r
  BY ModSmall
<1>3. Congruent(m, r, a)
  BY <1>1, <1>2 DEF Congruent
<1>4. Congruent(m, a, a)
  BY DEF Congruent
<1>5. r \in Int
  OBVIOUS
<1>6. QED BY <1>1, <1>3, <1>4, <1>5

-----------------------------------------------------------------------------
(***************************************************************************)
(* The inductive invariant: each source has one pair of offsets, by which  *)
(* everything that was rewritten of it is shifted; those of the current    *)
(* source are in the rewriter, unless nothing of it was rewritten yet.     *)
(***************************************************************************)
Rewriter == [initialized : BOOLEAN,
             seqOffset : 0..(SeqMod - 1), tsOffset : 0..(TsMod - 1),
             lastOutSeq : 0..(SeqMod - 1), lastOutTs : 0..(TsMod - 1)]

Entry == [in : Packet, source : 0..MaxSwitches, out : Packet]

Shifted(e, a, b) ==
    /\ e.out.seq = (e.in.seq - a) % SeqMod
    /\ e.out.ts = (e.in.ts - b) % TsMod

NothingAhead ==
    \A i \in DOMAIN log :
        /\ log[i].source <= source
        /\ ~rw.initialized => log[i].source # source

CurrentShift ==
    rw.initialized =>
        \A i \in DOMAIN log :
            log[i].source = source => Shifted(log[i], rw.seqOffset, rw.tsOffset)

OneShiftEach ==
    \A s \in 0..MaxSwitches : \E a, b \in Int :
        \A i \in DOMAIN log : log[i].source = s => Shifted(log[i], a, b)

RewriterInv == RewriterTypeOK /\ NothingAhead /\ CurrentShift /\ OneShiftEach

\* What is in the log has the fields of an entry.
LEMMA LogEntries ==
    ASSUME RewriterTypeOK, NEW i \in DOMAIN log
    PROVE  log[i] \in Entry
<1>1. log \in Seq(Entry)
  BY DEF RewriterTypeOK, Entry
<1>2. i \in 1..Len(log)
  BY <1>1
<1>3. QED BY <1>1, <1>2

\* Remainders make a packet.
LEMMA PacketTypes ==
    ASSUME NEW x \in Int, NEW y \in Int
    PROVE  [seq |-> x % SeqMod, ts |-> y % TsMod] \in Packet
<1>1. x % SeqMod \in 0..(SeqMod - 1) /\ y % TsMod \in 0..(TsMod - 1)
  BY RewriterAssumption, ModIs
<1>2. QED BY <1>1 DEF Packet

\* The offsets fit, and those of a source that was heard stay.
LEMMA OffsetsTypes ==
    ASSUME rw \in Rewriter, NEW p \in Packet
    PROVE  /\ Offsets(p) \in Rewriter /\ Offsets(p).initialized
           /\ rw.initialized => Offsets(p) = rw
<1>1. p.seq - (rw.lastOutSeq + 1) \in Int /\ p.ts - (rw.lastOutTs + TsStep) \in Int
  BY RewriterAssumption DEF Packet, Rewriter
<1>2. PICK a \in 0..(SeqMod - 1) : a = (p.seq - (rw.lastOutSeq + 1)) % SeqMod
  BY <1>1, RewriterAssumption, ModIs
<1>3. PICK b \in 0..(TsMod - 1) : b = (p.ts - (rw.lastOutTs + TsStep)) % TsMod
  BY <1>1, RewriterAssumption, ModIs
<1>4. Offsets(p) = IF rw.initialized THEN rw
                   ELSE [rw EXCEPT !.initialized = TRUE, !.seqOffset = a, !.tsOffset = b]
  BY <1>2, <1>3 DEF Offsets
<1>5. QED BY <1>4 DEF Rewriter

\* Rewriting a packet keeps the invariant.
LEMMA RewriteKeeps ==
    ASSUME RewriterInv, NEW p \in Packet, Rewrite(p), source' = source
    PROVE  /\ rw' \in Rewriter /\ log' \in Seq(Entry)
           /\ NothingAhead' /\ CurrentShift' /\ OneShiftEach'
<1>1. rw \in Rewriter /\ log \in Seq(Entry) /\ source \in 0..MaxSwitches
  BY DEF RewriterInv, RewriterTypeOK, Rewriter, Entry
<1>2. PICK o \in Rewriter : /\ o = Offsets(p) /\ o.initialized
                            /\ rw.initialized => o = rw
  BY <1>1, OffsetsTypes
<1>3. p.seq - o.seqOffset \in Int /\ p.ts - o.tsOffset \in Int
  BY DEF Packet, Rewriter
<1>4. PICK out \in Packet : out = [seq |-> (p.seq - o.seqOffset) % SeqMod,
                                   ts  |-> (p.ts - o.tsOffset) % TsMod]
  BY <1>3, PacketTypes
<1>5. PICK e \in Entry : e = [in |-> p, source |-> source, out |-> out]
  BY <1>1 DEF Entry
<1>6. /\ rw' = [o EXCEPT !.lastOutSeq = out.seq, !.lastOutTs = out.ts]
      /\ log' = Append(log, e)
  BY <1>2, <1>4, <1>5 DEF Rewrite
<1>7. /\ rw' \in Rewriter /\ rw'.initialized
      /\ rw'.seqOffset = o.seqOffset /\ rw'.tsOffset = o.tsOffset
      /\ o.seqOffset \in Int /\ o.tsOffset \in Int
  <2>1. out.seq \in 0..(SeqMod - 1) /\ out.ts \in 0..(TsMod - 1)
    BY DEF Packet
  <2>2. [o EXCEPT !.lastOutSeq = out.seq, !.lastOutTs = out.ts] \in Rewriter
    BY <2>1 DEF Rewriter
  <2>3. o.seqOffset \in Int /\ o.tsOffset \in Int
    BY RewriterAssumption DEF Rewriter
  <2>4. /\ rw'.initialized = o.initialized
        /\ rw'.seqOffset = o.seqOffset /\ rw'.tsOffset = o.tsOffset
    BY <1>6 DEF Rewriter
  <2>5. QED BY <1>2, <1>6, <2>2, <2>3, <2>4
<1>8. /\ log' \in Seq(Entry) /\ Len(log) \in Nat
      /\ DOMAIN log = 1..Len(log) /\ DOMAIN log' = 1..(Len(log) + 1)
      /\ \A i \in 1..Len(log) : log'[i] = log[i]
      /\ log'[Len(log) + 1] = e
  BY <1>1, <1>6
<1>9. \A i \in DOMAIN log' : i \in DOMAIN log \/ i = Len(log) + 1
  BY <1>8
<1>10. e.source = source /\ Shifted(e, o.seqOffset, o.tsOffset)
  BY <1>4, <1>5 DEF Shifted
<1>11. \A i \in DOMAIN log : log[i].source = source => Shifted(log[i], o.seqOffset, o.tsOffset)
  BY <1>2 DEF RewriterInv, NothingAhead, CurrentShift
<1>12. NothingAhead'
  <2>1. source <= source
    BY <1>1
  <2>2. QED BY <1>7, <1>8, <1>9, <1>10, <2>1 DEF RewriterInv, NothingAhead
<1>13. \A i \in DOMAIN log' : log'[i].source = source
                                 => Shifted(log'[i], o.seqOffset, o.tsOffset)
  BY <1>8, <1>9, <1>10, <1>11
<1>14. CurrentShift'
  BY <1>7, <1>13 DEF CurrentShift, Shifted
<1>15. OneShiftEach'
  <2> SUFFICES ASSUME NEW s \in 0..MaxSwitches
               PROVE  \E a, b \in Int :
                        \A i \in DOMAIN log' : log'[i].source = s => Shifted(log'[i], a, b)
    BY DEF OneShiftEach, Shifted
  <2>1. CASE s = source
    BY <1>7, <1>13, <2>1
  <2>2. CASE s # source
    <3>1. PICK a \in Int, b \in Int :
             \A i \in DOMAIN log : log[i].source = s => Shifted(log[i], a, b)
      BY DEF RewriterInv, OneShiftEach
    <3>2. \A i \in DOMAIN log' : log'[i].source = s => Shifted(log'[i], a, b)
      BY <1>8, <1>9, <1>10, <2>2, <3>1
    <3>3. QED BY <3>2
  <2>3. QED BY <2>1, <2>2
<1>16. QED BY <1>7, <1>8, <1>12, <1>14, <1>15

-----------------------------------------------------------------------------

\* Nothing was rewritten at the start.
LEMMA RewriterInvInit == RewriterInit => RewriterInv
<1> SUFFICES ASSUME RewriterInit PROVE RewriterInv
  OBVIOUS
<1>1. RewriterTypeOK
  BY RewriterAssumption DEF RewriterInit, RewriterTypeOK
<1>2. DOMAIN log = {} /\ ~rw.initialized
  BY DEF RewriterInit
<1>3. NothingAhead /\ CurrentShift
  BY <1>2 DEF NothingAhead, CurrentShift
<1>4. OneShiftEach
  <2>1. \A a, b \in Int : \A s : \A i \in DOMAIN log : log[i].source = s => Shifted(log[i], a, b)
    BY <1>2
  <2>2. 0 \in Int
    OBVIOUS
  <2>3. QED BY <2>1, <2>2 DEF OneShiftEach
<1>5. QED BY <1>1, <1>3, <1>4 DEF RewriterInv

\* A source that sends numbers its next packet within the width.
LEMMA SendsTypes ==
    ASSUME RewriterTypeOK, Sends
    PROVE  sent' \in 0..MaxPackets /\ next' \in Packet
<1>1. next.seq + 1 \in Int /\ next.ts + 1 \in Int
  BY RewriterAssumption DEF RewriterTypeOK, Packet
<1>2. next' \in Packet
  BY <1>1, PacketTypes DEF Sends
<1>3. sent' \in 0..MaxPackets
  BY RewriterAssumption DEF RewriterTypeOK, Sends
<1>4. QED BY <1>2, <1>3

\* A step that rewrites nothing.
LEMMA UnheardKeeps ==
    ASSUME RewriterInv, UNCHANGED <<rw, source, log>>
    PROVE  NothingAhead' /\ CurrentShift' /\ OneShiftEach'
BY DEF RewriterInv, NothingAhead, CurrentShift, OneShiftEach, Shifted

\* Every step keeps the invariant.
LEMMA RewriterInvNext ==
    ASSUME RewriterInv, [RewriterNext]_rewriterVars
    PROVE  RewriterInv'
<1>1. RewriterTypeOK
  BY DEF RewriterInv
<1>2. CASE Deliver
  <2>1. next \in Packet /\ sent' \in 0..MaxPackets /\ next' \in Packet
    BY <1>1, <1>2, SendsTypes DEF Deliver, RewriterTypeOK
  <2>2. /\ rw' \in Rewriter /\ log' \in Seq(Entry)
        /\ NothingAhead' /\ CurrentShift' /\ OneShiftEach'
    BY <1>2, <2>1, RewriteKeeps DEF Deliver
  <2>3. RewriterTypeOK'
    BY <1>1, <1>2, <2>1, <2>2 DEF Deliver, RewriterTypeOK, Rewriter, Entry
  <2>4. QED BY <2>2, <2>3 DEF RewriterInv
<1>3. CASE Delay
  <2>1. next \in Packet /\ sent' \in 0..MaxPackets /\ next' \in Packet
    BY <1>1, <1>3, SendsTypes DEF Delay, RewriterTypeOK
  <2>2. RewriterTypeOK'
    BY <1>1, <1>3, <2>1 DEF Delay, RewriterTypeOK
  <2>3. QED BY <1>3, <2>2, UnheardKeeps DEF Delay, RewriterInv
<1>4. ASSUME NEW p \in delayed, DeliverDelayed(p) PROVE RewriterInv'
  <2>1. p \in Packet
    BY <1>1, <1>4 DEF RewriterTypeOK
  <2>2. /\ rw' \in Rewriter /\ log' \in Seq(Entry)
        /\ NothingAhead' /\ CurrentShift' /\ OneShiftEach'
    BY <1>4, <2>1, RewriteKeeps DEF DeliverDelayed
  <2>3. RewriterTypeOK'
    BY <1>1, <1>4, <2>2 DEF DeliverDelayed, RewriterTypeOK, Rewriter, Entry
  <2>4. QED BY <2>2, <2>3 DEF RewriterInv
<1>5. ASSUME NEW p \in delayed, Lose(p) PROVE RewriterInv'
  <2>1. RewriterTypeOK'
    BY <1>1, <1>5 DEF Lose, RewriterTypeOK
  <2>2. QED BY <1>5, <2>1, UnheardKeeps DEF Lose, RewriterInv
<1>6. CASE Switch
  <2>1. /\ rw' = [rw EXCEPT !.initialized = FALSE] /\ log' = log
        /\ source' = source + 1 /\ source \in 0..MaxSwitches /\ source < MaxSwitches
    BY <1>1, <1>6 DEF Switch, RewriterTypeOK
  <2>2. rw' \in Rewriter /\ ~rw'.initialized
    BY <1>1, <2>1 DEF RewriterTypeOK, Rewriter
  <2>3. RewriterTypeOK'
    <3>1. next' \in Packet /\ delayed' \subseteq Packet /\ sent' \in 0..MaxPackets
      BY <1>1, <1>6, RewriterAssumption DEF Switch, RewriterTypeOK
    <3>2. source' \in 0..MaxSwitches
      BY <2>1, RewriterAssumption
    <3>3. QED BY <1>1, <2>1, <2>2, <3>1, <3>2 DEF RewriterTypeOK, Rewriter
  <2>4. \A i \in DOMAIN log : log[i].source \in Int
    BY <1>1, LogEntries, RewriterAssumption DEF Entry
  <2>5. NothingAhead' /\ CurrentShift'
    BY <2>1, <2>2, <2>4 DEF RewriterInv, NothingAhead, CurrentShift
  <2>6. OneShiftEach'
    BY <2>1 DEF RewriterInv, OneShiftEach, Shifted
  <2>7. QED BY <2>3, <2>5, <2>6 DEF RewriterInv
<1>7. CASE UNCHANGED rewriterVars
  <2>1. RewriterTypeOK'
    BY <1>1, <1>7 DEF rewriterVars, RewriterTypeOK
  <2>2. QED BY <1>7, <2>1, UnheardKeeps DEF rewriterVars, RewriterInv
<1>8. QED BY <1>2, <1>3, <1>4, <1>5, <1>6, <1>7 DEF RewriterNext

\* It holds of every behaviour.
LEMMA RewriterInvariant == RewriterSpec => []RewriterInv
BY RewriterInvInit, RewriterInvNext, PTL DEF RewriterSpec

-----------------------------------------------------------------------------
(***************************************************************************)
(* Why time stamps advance at a switch: the outbound clock can be unwound. *)
(* u gives every packet rewritten a time that does not wrap, and n is the  *)
(* time of the next packet of the source.                                  *)
(***************************************************************************)
UnderWay == \A p \in delayed : (next.ts - p.ts) % TsMod \in 1..sent

LastOut == \A i \in DOMAIN log : i = Len(log) => rw.lastOutTs = log[i].out.ts

InTurn == \A i, j \in DOMAIN log : i <= j => log[i].source <= log[j].source

Unwinds(u) == \A i \in DOMAIN log : log[i].out.ts = u[i] % TsMod

Near(u) ==
    \A i, j \in DOMAIN log : (i <= j /\ log[i].source = log[j].source) =>
        u[i] - u[j] <= MaxDelay /\ u[j] - u[i] <= MaxPackets

Apart(u) ==
    \A i, j \in DOMAIN log : log[j].source = log[i].source + 1 =>
        /\ TsStep - 2 * MaxDelay <= u[j] - u[i]
        /\ u[j] - u[i] <= TsStep + 2 * MaxPackets

Ahead(u, n) ==
    rw.initialized =>
        /\ Congruent(TsMod, next.ts - rw.tsOffset, n)
        /\ \A i \in DOMAIN log : log[i].source = source => n - u[i] \in 1..sent

Begins(u, f) ==
    rw.initialized =>
        /\ f \in DOMAIN log /\ log[f].source = source
        /\ \A i \in DOMAIN log : log[i].source + 1 = source =>
              /\ TsStep - MaxDelay <= u[f] - u[i]
              /\ u[f] - u[i] <= TsStep + MaxPackets

Clock(u, n, f) == Unwinds(u) /\ Near(u) /\ Apart(u) /\ Ahead(u, n) /\ Begins(u, f)

ClockInv ==
    /\ UnderWay /\ LastOut /\ InTurn
    /\ \E u \in [DOMAIN log -> Int], n, f \in Int : Clock(u, n, f)

\* rewrite(), with numbers in place of the fields.
LEMMA RewriteDoes ==
    ASSUME RewriterInv, NEW p \in Packet, Rewrite(p)
    PROVE  \E o \in Int, w \in Int :
              /\ w = (p.ts - o) % TsMod
              /\ rw.initialized => o = rw.tsOffset
              /\ ~rw.initialized => o = (p.ts - (rw.lastOutTs + TsStep)) % TsMod
              /\ rw'.initialized /\ rw'.tsOffset = o /\ rw'.lastOutTs = w
              /\ log \in Seq(Entry) /\ Len(log) \in Nat
              /\ DOMAIN log = 1..Len(log) /\ DOMAIN log' = 1..(Len(log) + 1)
              /\ Len(log') = Len(log) + 1
              /\ \A i \in 1..Len(log) : log'[i] = log[i]
              /\ log'[Len(log) + 1].source = source /\ log'[Len(log) + 1].out.ts = w
<1>1. rw \in Rewriter /\ log \in Seq(Entry) /\ source \in 0..MaxSwitches
  BY DEF RewriterInv, RewriterTypeOK, Rewriter, Entry
<1>2. PICK o \in Rewriter : /\ o = Offsets(p) /\ o.initialized
                            /\ rw.initialized => o = rw
  BY <1>1, OffsetsTypes
<1>3. PICK t \in Int : t = o.tsOffset
  BY RewriterAssumption DEF Rewriter
<1>4. ~rw.initialized => t = (p.ts - (rw.lastOutTs + TsStep)) % TsMod
  BY <1>1, <1>2, <1>3 DEF Offsets, Rewriter
<1>5. p.seq - o.seqOffset \in Int /\ p.ts - t \in Int
  BY <1>3 DEF Packet, Rewriter
<1>6. PICK out \in Packet : out = [seq |-> (p.seq - o.seqOffset) % SeqMod,
                                   ts  |-> (p.ts - t) % TsMod]
  BY <1>5, PacketTypes
<1>7. PICK w \in Int : w = out.ts
  BY RewriterAssumption DEF Packet
<1>8. w = (p.ts - t) % TsMod
  BY <1>6, <1>7
<1>9. PICK e \in Entry : e = [in |-> p, source |-> source, out |-> out]
  BY <1>1 DEF Entry
<1>10. /\ rw' = [o EXCEPT !.lastOutSeq = out.seq, !.lastOutTs = out.ts]
       /\ log' = Append(log, e)
  BY <1>2, <1>3, <1>6, <1>9 DEF Rewrite
<1>11. rw'.initialized /\ rw'.tsOffset = t /\ rw'.lastOutTs = w
  BY <1>2, <1>3, <1>7, <1>10 DEF Rewriter
<1>12. e.source = source /\ e.out.ts = w
  BY <1>7, <1>9
<1>13. /\ Len(log) \in Nat
       /\ DOMAIN log = 1..Len(log) /\ DOMAIN log' = 1..(Len(log) + 1)
       /\ Len(log') = Len(log) + 1
       /\ \A i \in 1..Len(log) : log'[i] = log[i]
       /\ log'[Len(log) + 1] = e
  BY <1>1, <1>10
<1>14. rw.initialized => t = rw.tsOffset
  BY <1>2, <1>3
<1>15. QED BY <1>1, <1>4, <1>8, <1>11, <1>12, <1>13, <1>14


(***************************************************************************)
(* The step of a switch is more than two delays, and everything the        *)
(* sources send takes less than half of what the time stamp can tell       *)
(* apart: with the 90000 and the 2^32 of the code, delays below 45000      *)
(* ticks, half a second of video, and about 2^30 ticks, three hours.       *)
(***************************************************************************)
ClockAssumption ==
    /\ 2 * MaxDelay < TsStep
    /\ TsStep + 2 * MaxPackets <= TsMod \div 2

\* A sequence of numbers with one more.
LEMMA Extended ==
    ASSUME NEW L \in Nat, NEW u \in [1..L -> Int], NEW x \in Int
    PROVE  \E v \in [1..(L + 1) -> Int] : (\A i \in 1..L : v[i] = u[i]) /\ v[L + 1] = x
<1>1. PICK v : v = [i \in 1..(L + 1) |-> IF i = L + 1 THEN x ELSE u[i]]
  OBVIOUS
<1>2. ASSUME NEW i \in 1..(L + 1) PROVE v[i] \in Int
  <2>1. CASE i = L + 1
    BY <1>1, <2>1
  <2>2. CASE i # L + 1
    <3>1. i \in 1..L
      BY <2>2
    <3>2. v[i] = u[i]
      BY <1>1, <2>2
    <3>3. QED BY <3>1, <3>2
  <2>3. QED BY <2>1, <2>2
<1>3. ASSUME NEW i \in 1..L PROVE v[i] = u[i]
  BY <1>1
<1>4. v[L + 1] = x
  BY <1>1
<1>5. v \in [1..(L + 1) -> Int]
  BY <1>1, <1>2
<1>6. QED BY <1>3, <1>4, <1>5

\* A packet is rewritten: d is how late it comes, and step whether it was sent now.
LEMMA RewriteUnwinds ==
    ASSUME RewriterInv, ClockInv, NEW p \in Packet, Rewrite(p), source' = source,
           NEW d \in 0..MaxDelay, NEW step \in 0..1,
           Congruent(TsMod, next.ts - p.ts, d), d + step \in 1..(sent + step),
           sent' = sent + step, sent' \in 0..MaxPackets, next' \in Packet,
           Congruent(TsMod, next'.ts, next.ts + step)
    PROVE  /\ LastOut' /\ InTurn'
           /\ \E u \in [DOMAIN log' -> Int], n, f \in Int : Clock(u, n, f)'
<1>1. /\ TsMod \in Nat \ {0} /\ TsStep \in Nat
      /\ MaxDelay \in Nat /\ MaxPackets \in Nat /\ MaxSwitches \in Nat
  BY RewriterAssumption
<1>2. PICK o \in Int, w \in Int :
              /\ w = (p.ts - o) % TsMod
              /\ rw.initialized => o = rw.tsOffset
              /\ ~rw.initialized => o = (p.ts - (rw.lastOutTs + TsStep)) % TsMod
              /\ rw'.initialized /\ rw'.tsOffset = o /\ rw'.lastOutTs = w
              /\ log \in Seq(Entry) /\ Len(log) \in Nat
              /\ DOMAIN log = 1..Len(log) /\ DOMAIN log' = 1..(Len(log) + 1)
              /\ Len(log') = Len(log) + 1
              /\ \A i \in 1..Len(log) : log'[i] = log[i]
              /\ log'[Len(log) + 1].source = source /\ log'[Len(log) + 1].out.ts = w
  BY RewriteDoes
<1>3. PICK L \in Nat : L = Len(log)
  BY <1>2
<1>4. /\ DOMAIN log = 1..L /\ DOMAIN log' = 1..(L + 1) /\ Len(log') = L + 1
      /\ \A i \in 1..L : log'[i] = log[i]
      /\ log'[L + 1].source = source /\ log'[L + 1].out.ts = w
  BY <1>2, <1>3
<1>5. PICK u \in [1..L -> Int], n \in Int, f \in Int : Clock(u, n, f)
  BY <1>4 DEF ClockInv
<1>6. PICK S \in [1..L -> Int] : \A i \in 1..L : S[i] = log[i].source
  <2>1. ASSUME NEW i \in 1..L PROVE log[i].source \in Int
    <3>1. log[i] \in Entry
      BY <1>4, LogEntries DEF RewriterInv
    <3>2. log[i].source \in 0..MaxSwitches
      BY <3>1 DEF Entry
    <3>3. QED BY <3>2, <1>1
  <2>2. [i \in 1..L |-> log[i].source] \in [1..L -> Int]
    BY <2>1
  <2>3. QED BY <2>2
<1>7. /\ source \in Int
      /\ \A i \in 1..L : S[i] <= source /\ (~rw.initialized => S[i] # source)
  <2>1. source \in Int
    BY <1>1 DEF RewriterInv, RewriterTypeOK
  <2>2. \A i \in DOMAIN log :
          log[i].source <= source /\ (~rw.initialized => log[i].source # source)
    BY DEF RewriterInv, NothingAhead
  <2>3. QED BY <1>4, <1>6, <2>1, <2>2
<1>8. \A i, j \in 1..L : i <= j => S[i] <= S[j]
  BY <1>4, <1>6 DEF ClockInv, InTurn
<1>9. /\ \A i, j \in 1..L : (i <= j /\ S[i] = S[j]) =>
            u[i] - u[j] <= MaxDelay /\ u[j] - u[i] <= MaxPackets
      /\ \A i, j \in 1..L : S[j] = S[i] + 1 =>
            TsStep - 2 * MaxDelay <= u[j] - u[i] /\ u[j] - u[i] <= TsStep + 2 * MaxPackets
      /\ \A i \in 1..L : log[i].out.ts = u[i] % TsMod
  BY <1>4, <1>5, <1>6 DEF Clock, Near, Apart, Unwinds
<1>10. rw.initialized =>
        /\ Congruent(TsMod, next.ts - rw.tsOffset, n)
        /\ \A i \in 1..L : S[i] = source => n - u[i] \in 1..sent
        /\ f \in 1..L /\ S[f] = source
        /\ \A i \in 1..L : S[i] + 1 = source =>
              TsStep - MaxDelay <= u[f] - u[i] /\ u[f] - u[i] <= TsStep + MaxPackets
  BY <1>4, <1>5, <1>6 DEF Clock, Ahead, Begins
<1>11. PICK a \in Int, b \in Int, b1 \in Int : a = p.ts /\ b = next.ts /\ b1 = next'.ts
  <2>1. next \in Packet
    BY DEF RewriterInv, RewriterTypeOK
  <2>2. QED BY <2>1, <1>1 DEF Packet
<1>12. sent \in 0..MaxPackets
  BY DEF RewriterInv, RewriterTypeOK
\* The time of the packet, whether or not it is the first of its source.
<1>13. \E x \in Int :
         /\ Congruent(TsMod, a - o, x)
         /\ rw.initialized => x = n - d
         /\ ~rw.initialized /\ L > 0 => x = u[L] + TsStep
  <2>1. CASE rw.initialized
    <3>1. Congruent(TsMod, b - o, n)
      BY <1>2, <1>10, <1>11, <2>1
    <3>2. Congruent(TsMod, b - a, d)
      BY <1>11
    <3>3. PICK bo \in Int, ba \in Int : bo = b - o /\ ba = b - a
      OBVIOUS
    <3>4. d \in Int
      BY <1>1
    <3>5. Congruent(TsMod, bo - ba, n - d)
      BY <1>1, <3>1, <3>2, <3>3, <3>4, CongruentSub
    <3>6. bo - ba = a - o /\ n - d \in Int
      BY <3>3, <3>4
    <3>7. QED BY <2>1, <3>5, <3>6
  <2>2. CASE ~rw.initialized
    <3>1. PICK l \in Int : l = rw.lastOutTs
      BY <1>1 DEF RewriterInv, RewriterTypeOK
    <3>2. PICK k \in Int : k = l + TsStep
      BY <1>1
    <3>3. PICK z \in Int : z = a - k
      OBVIOUS
    <3>4. o = z % TsMod
      BY <1>2, <1>11, <2>2, <3>1, <3>2, <3>3
    <3>5. Congruent(TsMod, o, z) /\ Congruent(TsMod, a, a)
      BY <1>1, <3>4, CongruentMod
    <3>6. Congruent(TsMod, a - o, a - z)
      BY <1>1, <3>5, CongruentSub
    <3>7. Congruent(TsMod, a - o, k)
      BY <3>3, <3>6
    <3>8. CASE L > 0
      <4>1. PICK t \in Int : t = u[L]
        BY <3>8
      <4>2. l = t % TsMod
        <5>1. L \in DOMAIN log /\ L \in 1..L
          BY <1>4, <3>8
        <5>2. rw.lastOutTs = log[L].out.ts
          BY <1>3, <5>1 DEF ClockInv, LastOut
        <5>3. QED BY <1>9, <3>1, <4>1, <5>1, <5>2
      <4>3. Congruent(TsMod, t % TsMod, t) /\ TsStep \in Int
        BY <1>1, CongruentMod
      <4>4. Congruent(TsMod, TsStep, TsStep)
        BY DEF Congruent
      <4>5. Congruent(TsMod, l + TsStep, t + TsStep)
        BY <1>1, <4>2, <4>3, <4>4, CongruentAdd
      <4>6. PICK x \in Int : x = t + TsStep
        BY <1>1
      <4>7. Congruent(TsMod, k, x)
        BY <3>2, <4>5, <4>6
      <4>8. Congruent(TsMod, a - o, x)
        BY <3>7, <4>7 DEF Congruent
      <4>9. QED BY <2>2, <4>1, <4>6, <4>8
    <3>9. QED BY <2>2, <3>7, <3>8
  <2>3. QED BY <2>1, <2>2
<1>14. PICK x \in Int :
         /\ Congruent(TsMod, a - o, x)
         /\ rw.initialized => x = n - d
         /\ ~rw.initialized /\ L > 0 => x = u[L] + TsStep
  BY <1>13
<1>15. PICK v \in [1..(L + 1) -> Int] : (\A i \in 1..L : v[i] = u[i]) /\ v[L + 1] = x
  BY Extended
<1>16. \A i \in 1..(L + 1) : i \in 1..L \/ i = L + 1
  OBVIOUS
<1>17. PICK T \in [1..(L + 1) -> Int] :
         /\ \A i \in 1..L : T[i] = S[i]
         /\ T[L + 1] = source
         /\ \A i \in 1..(L + 1) : log'[i].source = T[i]
  <2>1. PICK c \in Int : c = source
    BY <1>7
  <2>2. PICK T \in [1..(L + 1) -> Int] : (\A i \in 1..L : T[i] = S[i]) /\ T[L + 1] = c
    BY Extended
  <2>3. ASSUME NEW i \in 1..(L + 1) PROVE log'[i].source = T[i]
    <3>1. CASE i \in 1..L
      <4>1. log'[i] = log[i]
        BY <1>4, <3>1
      <4>2. S[i] = log[i].source /\ T[i] = S[i]
        BY <1>6, <2>2, <3>1
      <4>3. QED BY <4>1, <4>2
    <3>2. CASE i = L + 1
      <4>1. log'[i].source = source /\ T[i] = c
        BY <1>4, <2>2, <3>2
      <4>2. QED BY <2>1, <4>1
    <3>3. QED BY <1>16, <3>1, <3>2
  <2>4. QED BY <2>1, <2>2, <2>3
<1>18. PICK g \in Int : g = IF rw.initialized THEN f ELSE L + 1
  OBVIOUS
<1>19. PICK n1 \in Int : n1 = x + d + step
  BY <1>1
\* The distances of the new entry from the others.
<1>20. ASSUME NEW i \in 1..L, S[i] = source
       PROVE  /\ u[i] - x <= MaxDelay /\ x - u[i] <= MaxPackets
              /\ n1 - u[i] \in 1..(sent + step)
  <2>1. rw.initialized
    BY <1>7, <1>20
  <2>2. PICK y \in Int, z \in Int : y = u[i] /\ z = n - y
    OBVIOUS
  <2>3. z \in 1..sent /\ x = n - d
    BY <1>10, <1>14, <1>20, <2>1, <2>2
  <2>4. /\ y - x <= MaxDelay /\ x - y <= MaxPackets
        /\ n1 - y \in 1..(sent + step)
    <3>1. PICK D \in Int, P \in Int, k \in Int : D = MaxDelay /\ P = MaxPackets /\ k = sent
      BY <1>1, <1>12
    <3>2. d \in 0..D /\ step \in 0..1 /\ k <= P /\ z \in 1..k
      BY <1>12, <2>3, <3>1
    <3>3. x = n - d /\ z = n - y /\ n1 = x + d + step
      BY <1>19, <2>2, <2>3
    <3>4. y - x <= D /\ x - y <= P /\ n1 - y \in 1..(k + step)
      BY <3>2, <3>3
    <3>5. QED BY <3>1, <3>4
  <2>5. QED BY <2>2, <2>4
<1>21. ASSUME NEW i \in 1..L, S[i] + 1 = source
       PROVE  TsStep - MaxDelay <= v[g] - u[i] /\ v[g] - u[i] <= TsStep + MaxPackets
  <2>1. CASE rw.initialized
    <3>1. /\ TsStep - MaxDelay <= u[f] - u[i] /\ u[f] - u[i] <= TsStep + MaxPackets
          /\ f \in 1..L /\ g = f
      BY <1>10, <1>18, <1>21, <2>1
    <3>2. v[g] = u[f]
      BY <1>15, <3>1
    <3>3. QED BY <3>1, <3>2
  <2>2. CASE ~rw.initialized
    <3>1. L \in 1..L /\ i <= L /\ i \in Int
      OBVIOUS
    <3>2. S[i] <= S[L] /\ S[L] <= source /\ S[L] # source
      BY <1>7, <1>8, <2>2, <3>1
    <3>3. S[L] = S[i]
      <4>1. PICK sl \in Int, si \in Int : sl = S[L] /\ si = S[i]
        BY <3>1
      <4>2. sl <= source /\ sl # source /\ si <= sl /\ si + 1 = source
        BY <1>21, <3>2, <4>1
      <4>3. PICK c \in Int : c = source
        BY <1>7
      <4>4. sl = si
        BY <4>2, <4>3
      <4>5. QED BY <4>1, <4>4
    <3>4. u[i] - u[L] <= MaxDelay /\ u[L] - u[i] <= MaxPackets
      BY <1>9, <3>1, <3>3
    <3>5. PICK ul \in Int, ui \in Int : ul = u[L] /\ ui = u[i]
      BY <3>1
    <3>6. v[g] = ul + TsStep
      <4>1. g = L + 1
        BY <1>18, <2>2
      <4>2. v[g] = x
        BY <1>15, <4>1
      <4>3. x = u[L] + TsStep
        BY <1>14, <2>2, <3>1
      <4>4. QED BY <4>2, <4>3, <3>5
    <3>7. ui - ul <= MaxDelay /\ ul - ui <= MaxPackets
      BY <3>4, <3>5
    <3>8. TsStep - MaxDelay <= (ul + TsStep) - ui /\ (ul + TsStep) - ui <= TsStep + MaxPackets
      BY <1>1, <3>7
    <3>9. QED BY <3>5, <3>6, <3>8
  <2>3. QED BY <2>1, <2>2
<1>22. ASSUME NEW i \in 1..L, S[i] + 1 = source
       PROVE  TsStep - 2 * MaxDelay <= x - u[i] /\ x - u[i] <= TsStep + 2 * MaxPackets
  <2>1. PICK vg \in Int, ui \in Int : vg = v[g] /\ ui = u[i]
    <3>1. g \in 1..(L + 1)
      BY <1>10, <1>18
    <3>2. QED BY <3>1
  <2>2. TsStep - MaxDelay <= vg - ui /\ vg - ui <= TsStep + MaxPackets
    BY <1>21, <1>22, <2>1
  <2>3. vg - x <= MaxDelay /\ x - vg <= MaxPackets
    <3>1. CASE rw.initialized
      <4>1. f \in 1..L /\ S[f] = source /\ g = f
        BY <1>10, <1>18, <3>1
      <4>2. vg = u[f]
        BY <1>15, <2>1, <4>1
      <4>3. QED BY <1>20, <4>1, <4>2
    <3>2. CASE ~rw.initialized
      <4>1. vg = x
        BY <1>15, <1>18, <2>1, <3>2
      <4>2. QED BY <1>1, <4>1
    <3>3. QED BY <3>1, <3>2
  <2>4. TsStep - 2 * MaxDelay <= x - ui /\ x - ui <= TsStep + 2 * MaxPackets
    BY <1>1, <2>2, <2>3
  <2>5. QED BY <2>1, <2>4
<1>23. LastOut'
  BY <1>2, <1>4 DEF LastOut
<1>24. InTurn'
  <2>1. ASSUME NEW i \in 1..(L + 1), NEW j \in 1..(L + 1), i <= j PROVE T[i] <= T[j]
    <3>1. CASE j \in 1..L
      <4>1. i \in 1..L
        BY <2>1, <3>1
      <4>2. QED BY <1>8, <1>17, <2>1, <3>1, <4>1
    <3>2. CASE j = L + 1 /\ i \in 1..L
      BY <1>7, <1>17, <3>2
    <3>3. CASE j = L + 1 /\ i = L + 1
      BY <1>7, <1>17, <3>3
    <3>4. QED BY <1>16, <3>1, <3>2, <3>3
  <2>2. QED BY <1>4, <1>17, <2>1 DEF InTurn
<1>25. Unwinds(v)'
  <2>1. w = x % TsMod
    BY <1>2, <1>11, <1>14 DEF Congruent
  <2>2. \A i \in 1..(L + 1) : log'[i].out.ts = v[i] % TsMod
    BY <1>4, <1>9, <1>15, <1>16, <2>1
  <2>3. QED BY <1>4, <2>2 DEF Unwinds
<1>26. Near(v)'
  <2>1. ASSUME NEW i \in 1..(L + 1), NEW j \in 1..(L + 1), i <= j, T[i] = T[j]
        PROVE  v[i] - v[j] <= MaxDelay /\ v[j] - v[i] <= MaxPackets
    <3>1. CASE j \in 1..L
      <4>1. i \in 1..L
        BY <2>1, <3>1
      <4>2. S[i] = S[j] /\ v[i] = u[i] /\ v[j] = u[j]
        BY <1>15, <1>17, <2>1, <3>1, <4>1
      <4>3. u[i] - u[j] <= MaxDelay /\ u[j] - u[i] <= MaxPackets
        BY <1>9, <2>1, <3>1, <4>1, <4>2
      <4>4. QED BY <4>2, <4>3
    <3>2. CASE j = L + 1 /\ i \in 1..L
      <4>1. S[i] = source /\ v[i] = u[i] /\ v[j] = x
        BY <1>15, <1>17, <2>1, <3>2
      <4>2. u[i] - x <= MaxDelay /\ x - u[i] <= MaxPackets
        BY <1>20, <3>2, <4>1
      <4>3. QED BY <4>1, <4>2
    <3>3. CASE j = L + 1 /\ i = L + 1
      <4>1. v[i] = x /\ v[j] = x
        BY <1>15, <3>3
      <4>2. x - x = 0
        OBVIOUS
      <4>3. QED BY <1>1, <4>1, <4>2
    <3>4. QED BY <1>16, <3>1, <3>2, <3>3
  <2>2. QED BY <1>4, <1>17, <2>1 DEF Near
<1>27. Apart(v)'
  <2>1. ASSUME NEW i \in 1..(L + 1), NEW j \in 1..(L + 1), T[j] = T[i] + 1
        PROVE  TsStep - 2 * MaxDelay <= v[j] - v[i] /\ v[j] - v[i] <= TsStep + 2 * MaxPackets
    <3>1. i \in 1..L
      <4>1. CASE i = L + 1
        <5>1. T[i] = source
          BY <1>17, <4>1
        <5>2. T[j] <= source
          <6>1. CASE j \in 1..L
            BY <1>7, <1>17, <6>1
          <6>2. CASE j = L + 1
            BY <1>7, <1>17, <6>2
          <6>3. QED BY <1>16, <6>1, <6>2
        <5>3. PICK c \in Int, tj \in Int : c = source /\ tj = T[j]
          BY <1>7
        <5>4. tj = c + 1 /\ tj <= c
          BY <2>1, <5>1, <5>2, <5>3
        <5>5. QED BY <5>4
      <4>2. QED BY <1>16, <4>1
    <3>2. v[i] = u[i] /\ T[i] = S[i]
      BY <1>15, <1>17, <3>1
    <3>3. CASE j \in 1..L
      <4>1. v[j] = u[j] /\ S[j] = S[i] + 1
        BY <1>15, <1>17, <2>1, <3>2, <3>3
      <4>2. TsStep - 2 * MaxDelay <= u[j] - u[i] /\ u[j] - u[i] <= TsStep + 2 * MaxPackets
        BY <1>9, <3>1, <3>3, <4>1
      <4>3. QED BY <3>2, <4>1, <4>2
    <3>4. CASE j = L + 1
      <4>1. v[j] = x /\ S[i] + 1 = source
        BY <1>15, <1>17, <2>1, <3>2, <3>4
      <4>2. TsStep - 2 * MaxDelay <= x - u[i] /\ x - u[i] <= TsStep + 2 * MaxPackets
        BY <1>22, <3>1, <4>1
      <4>3. QED BY <3>2, <4>1, <4>2
    <3>5. QED BY <1>16, <3>3, <3>4
  <2>2. QED BY <1>4, <1>17, <2>1 DEF Apart
<1>28. Ahead(v, n1)'
  <2>1. Congruent(TsMod, b1 - o, n1)
    <3>1. PICK ba \in Int, ao \in Int : ba = b - a /\ ao = a - o
      OBVIOUS
    <3>2. d \in Int /\ step \in Int
      BY <1>1
    <3>3. Congruent(TsMod, ba + ao, d + x)
      BY <1>1, <1>11, <1>14, <3>1, <3>2, CongruentAdd
    <3>4. PICK bo \in Int, dx \in Int : bo = b - o /\ dx = d + x
      BY <3>2
    <3>5. Congruent(TsMod, bo, dx)
      BY <3>1, <3>3, <3>4
    <3>6. PICK bs \in Int : bs = b + step
      BY <3>2
    <3>7. Congruent(TsMod, b1, bs) /\ Congruent(TsMod, b, b)
      BY <1>11, <3>6 DEF Congruent
    <3>8. Congruent(TsMod, b1 - b, bs - b)
      BY <1>1, <3>7, CongruentSub
    <3>9. PICK bb \in Int : bb = b1 - b
      OBVIOUS
    <3>10. Congruent(TsMod, bb, step)
      BY <3>2, <3>6, <3>8, <3>9
    <3>11. Congruent(TsMod, bo + bb, dx + step)
      BY <1>1, <3>2, <3>5, <3>10, CongruentAdd
    <3>12. bo + bb = b1 - o /\ dx + step = n1
      BY <1>19, <3>2, <3>4, <3>9
    <3>13. QED BY <3>11, <3>12
  <2>2. \A i \in 1..(L + 1) : T[i] = source => n1 - v[i] \in 1..(sent + step)
    <3>1. n1 - x \in 1..(sent + step)
      BY <1>1, <1>12, <1>19
    <3>2. QED BY <1>15, <1>17, <1>16, <1>20, <3>1
  <2>3. QED BY <1>2, <1>4, <1>11, <1>17, <2>1, <2>2 DEF Ahead
<1>29. Begins(v, g)'
  <2>1. g \in 1..(L + 1) /\ T[g] = source
    BY <1>10, <1>17, <1>18
  <2>2. ASSUME NEW i \in 1..(L + 1), T[i] + 1 = source
        PROVE  TsStep - MaxDelay <= v[g] - v[i] /\ v[g] - v[i] <= TsStep + MaxPackets
    <3>1. i # L + 1
      <4>1. PICK c \in Int : c = source
        BY <1>7
      <4>2. c + 1 # c
        OBVIOUS
      <4>3. T[L + 1] = c /\ T[i] + 1 = c
        BY <1>17, <2>2, <4>1
      <4>4. QED BY <4>2, <4>3
    <3>2. i \in 1..L /\ v[i] = u[i] /\ S[i] + 1 = source
      BY <1>15, <1>17, <1>16, <2>2, <3>1
    <3>3. QED BY <1>21, <3>2
  <2>3. QED BY <1>2, <1>4, <1>17, <2>1, <2>2 DEF Begins
<1>30. Clock(v, n1, g)'
  BY <1>25, <1>26, <1>27, <1>28, <1>29 DEF Clock
<1>31. v \in [DOMAIN log' -> Int]
  BY <1>4, <1>15
<1>32. QED BY <1>23, <1>24, <1>30, <1>31

\* A packet under way is one tick older after the next was sent.
LEMMA LaterByOne ==
    ASSUME NEW m \in Nat \ {0}, NEW a \in Int, NEW b \in Int, NEW d \in 0..(m - 2),
           Congruent(m, a - b, d)
    PROVE  (((a + 1) % m) - b) % m = d + 1
<1>1. PICK a1 \in Int, d1 \in Int : a1 = a + 1 /\ d1 = d + 1
  OBVIOUS
<1>2. a1 % m \in Int /\ Congruent(m, a1 % m, a1)
  BY CongruentMod
<1>3. PICK r \in Int : r = a1 % m
  BY <1>2
<1>4. Congruent(m, b, b) /\ Congruent(m, 1, 1)
  BY DEF Congruent
<1>5. Congruent(m, r - b, a1 - b)
  BY <1>2, <1>3, <1>4, CongruentSub
<1>6. PICK ab \in Int : ab = a - b
  OBVIOUS
<1>7. d \in Int
  OBVIOUS
<1>8. Congruent(m, ab + 1, d + 1)
  BY <1>4, <1>6, <1>7, CongruentAdd
<1>9. ab + 1 = a1 - b
  BY <1>1, <1>6
<1>10. (r - b) % m = d1 % m
  BY <1>1, <1>5, <1>8, <1>9 DEF Congruent
<1>11. d1 % m = d1
  BY <1>1, ModSmall
<1>12. QED BY <1>1, <1>3, <1>10, <1>11

\* A packet more was sent: those under way are one older.
LEMMA SendsUnderWay ==
    ASSUME ClockAssumption, RewriterTypeOK, UnderWay, Sends,
           delayed' \subseteq delayed \cup {next}
    PROVE  /\ UnderWay'
           /\ Congruent(TsMod, next'.ts, next.ts + 1)
<1>1. TsMod \in Nat \ {0} /\ TsStep \in Nat /\ MaxDelay \in Nat /\ MaxPackets \in Nat
  BY RewriterAssumption
<1>2. MaxPackets <= TsMod - 2
  BY <1>1 DEF ClockAssumption
<1>3. sent < MaxPackets /\ sent' = sent + 1 /\ sent \in Nat
  BY <1>1 DEF Sends, RewriterTypeOK
<1>4. PICK b \in Int : b = next.ts
  BY <1>1 DEF RewriterTypeOK, Packet
<1>5. next'.ts = (b + 1) % TsMod
  BY <1>4 DEF Sends
<1>6. ASSUME NEW p \in delayed' PROVE (next'.ts - p.ts) % TsMod \in 1..sent'
  <2>1. p \in Packet /\ (p \in delayed \/ p = next)
    BY DEF RewriterTypeOK
  <2>2. PICK a \in Int : a = p.ts
    BY <1>1, <2>1 DEF Packet
  <2>3. PICK d \in 0..sent : Congruent(TsMod, b - a, d)
    <3>1. CASE p \in delayed
      <4>1. (b - a) % TsMod \in 1..sent
        BY <1>4, <2>2, <3>1 DEF UnderWay
      <4>2. PICK ba \in Int : ba = b - a
        OBVIOUS
      <4>3. Congruent(TsMod, ba % TsMod, ba)
        BY <1>1, CongruentMod
      <4>4. PICK d \in 1..sent : d = ba % TsMod
        BY <4>1, <4>2
      <4>5. Congruent(TsMod, ba, d)
        BY <4>3, <4>4 DEF Congruent
      <4>6. d \in 0..sent
        BY <1>3
      <4>7. QED BY <4>2, <4>5, <4>6
    <3>2. CASE p = next
      <4>1. b - a = 0
        BY <1>4, <2>2, <3>2
      <4>2. Congruent(TsMod, 0, 0)
        BY DEF Congruent
      <4>3. 0 \in 0..sent
        BY <1>3
      <4>4. QED BY <4>1, <4>2, <4>3
    <3>3. QED BY <2>1, <3>1, <3>2
  <2>4. d \in 0..(TsMod - 2) /\ d + 1 \in 1..(sent + 1)
    BY <1>1, <1>2, <1>3
  <2>5. (((b + 1) % TsMod) - a) % TsMod = d + 1
    BY <1>1, <2>3, <2>4, LaterByOne
  <2>6. QED BY <1>3, <1>5, <2>2, <2>4, <2>5
<1>7. Congruent(TsMod, next'.ts, next.ts + 1)
  <2>1. PICK c \in Int : c = b + 1
    OBVIOUS
  <2>2. Congruent(TsMod, c % TsMod, c)
    BY <1>1, CongruentMod
  <2>3. QED BY <1>4, <1>5, <2>1, <2>2
<1>8. QED BY <1>6, <1>7 DEF UnderWay

\* Nothing was rewritten at the start.
LEMMA ClockInvInit == RewriterInit => ClockInv
<1> SUFFICES ASSUME RewriterInit PROVE ClockInv
  OBVIOUS
<1>1. log = <<>> /\ DOMAIN log = {} /\ delayed = {} /\ ~rw.initialized
  BY DEF RewriterInit
<1>2. UnderWay /\ LastOut /\ InTurn
  BY <1>1 DEF UnderWay, LastOut, InTurn
<1>3. PICK u : u = [i \in DOMAIN log |-> 0]
  OBVIOUS
<1>4. u \in [DOMAIN log -> Int]
  BY <1>3
<1>5. Clock(u, 0, 0)
  BY <1>1 DEF Clock, Unwinds, Near, Apart, Ahead, Begins
<1>6. QED BY <1>2, <1>4, <1>5 DEF ClockInv

\* Nothing was sent or rewritten.
LEMMA UnchangedUnwinds ==
    ASSUME ClockInv, delayed' \subseteq delayed, UNCHANGED <<sent, next, rw, source, log>>
    PROVE  ClockInv'
<1>1. PICK u \in [DOMAIN log -> Int], n \in Int, f \in Int : Clock(u, n, f)
  BY DEF ClockInv
<1>2. Clock(u, n, f)'
  BY <1>1 DEF Clock, Unwinds, Near, Apart, Ahead, Begins
<1>3. LastOut' /\ InTurn' /\ UnderWay'
  BY DEF ClockInv, LastOut, InTurn, UnderWay
<1>4. u \in [DOMAIN log' -> Int]
  BY <1>1
<1>5. QED BY <1>2, <1>3, <1>4 DEF ClockInv

\* Nothing rewritten, and the current source not heard before or after.
LEMMA UnheardUnwinds ==
    ASSUME ClockInv, UNCHANGED log, ~rw'.initialized, rw'.lastOutTs = rw.lastOutTs
    PROVE  /\ LastOut' /\ InTurn'
           /\ \E u \in [DOMAIN log' -> Int], n, f \in Int : Clock(u, n, f)'
<1>1. PICK u \in [DOMAIN log -> Int], n \in Int, f \in Int : Clock(u, n, f)
  BY DEF ClockInv
<1>2. Clock(u, n, f)'
  BY <1>1 DEF Clock, Unwinds, Near, Apart, Ahead, Begins
<1>3. LastOut' /\ InTurn'
  BY DEF ClockInv, LastOut, InTurn
<1>4. QED BY <1>1, <1>2, <1>3

\* The source sends, and its packet is not rewritten yet.
LEMMA DelayUnwinds ==
    ASSUME RewriterTypeOK, ClockInv, UNCHANGED <<rw, source, log>>, sent' = sent + 1,
           Congruent(TsMod, next'.ts, next.ts + 1), next' \in Packet
    PROVE  /\ LastOut' /\ InTurn'
           /\ \E u \in [DOMAIN log' -> Int], n, f \in Int : Clock(u, n, f)'
<1>1. TsMod \in Nat \ {0}
  BY RewriterAssumption
<1>2. PICK u \in [DOMAIN log -> Int], n \in Int, f \in Int : Clock(u, n, f)
  BY DEF ClockInv
<1>3. LastOut' /\ InTurn'
  BY DEF ClockInv, LastOut, InTurn
<1>4. PICK b \in Int, b1 \in Int, o \in Int, k \in Int :
        b = next.ts /\ b1 = next'.ts /\ o = rw.tsOffset /\ k = sent
  <2>1. next.ts \in 0..(TsMod - 1) /\ next'.ts \in 0..(TsMod - 1) /\ sent \in 0..MaxPackets
    BY DEF RewriterTypeOK, Packet
  <2>2. rw.tsOffset \in 0..(TsMod - 1)
    BY DEF RewriterTypeOK
  <2>3. QED BY <2>1, <2>2, <1>1
<1>5. PICK n1 \in Int : n1 = n + 1
  OBVIOUS
<1>6. Ahead(u, n1)'
  <2>1. CASE ~rw.initialized
    BY <2>1 DEF Ahead
  <2>2. CASE rw.initialized
    <3>1. Congruent(TsMod, b - o, n)
      BY <1>2, <1>4, <2>2 DEF Clock, Ahead
    <3>2. PICK bo \in Int, bs \in Int : bo = b - o /\ bs = b + 1
      OBVIOUS
    <3>3. Congruent(TsMod, 1, 1) /\ Congruent(TsMod, o, o)
      BY DEF Congruent
    <3>4. Congruent(TsMod, bo + 1, n + 1)
      BY <1>1, <3>1, <3>2, <3>3, CongruentAdd
    <3>5. Congruent(TsMod, b1, bs)
      BY <1>4, <3>2
    <3>6. Congruent(TsMod, b1 - o, bs - o)
      BY <1>1, <3>3, <3>5, CongruentSub
    <3>7. bs - o = bo + 1
      BY <3>2
    <3>8. Congruent(TsMod, b1 - o, n1)
      BY <1>5, <3>4, <3>6, <3>7 DEF Congruent
    <3>9. ASSUME NEW i \in DOMAIN log, log[i].source = source
          PROVE  n1 - u[i] \in 1..(k + 1)
      <4>1. PICK y \in Int : y = u[i]
        BY <1>2
      <4>2. n - y \in 1..k
        BY <1>2, <1>4, <2>2, <3>9, <4>1 DEF Clock, Ahead
      <4>3. n1 - y \in 1..(k + 1)
        BY <1>5, <4>2
      <4>4. QED BY <4>1, <4>3
    <3>10. QED BY <1>4, <2>2, <3>8, <3>9 DEF Ahead
  <2>3. QED BY <2>1, <2>2
<1>7. Unwinds(u)' /\ Near(u)' /\ Apart(u)' /\ Begins(u, f)'
  BY <1>2 DEF Clock, Unwinds, Near, Apart, Begins
<1>8. Clock(u, n1, f)'
  BY <1>6, <1>7 DEF Clock
<1>9. u \in [DOMAIN log' -> Int]
  BY <1>2
<1>10. QED BY <1>3, <1>8, <1>9

\* Every step keeps the clock, given the offsets.
LEMMA ClockInvNext ==
    ASSUME ClockAssumption, RewriterInv, RewriterInv', ClockInv, [RewriterNext]_rewriterVars
    PROVE  ClockInv'
<1>1. /\ TsMod \in Nat \ {0} /\ TsStep \in Nat /\ MaxDelay \in Nat /\ MaxPackets \in Nat
      /\ RewriterTypeOK /\ UnderWay /\ RewriterTypeOK'
  BY RewriterAssumption DEF RewriterInv, ClockInv
<1>2. next \in Packet /\ next' \in Packet /\ sent \in 0..MaxPackets /\ sent' \in 0..MaxPackets
  BY <1>1 DEF RewriterTypeOK
<1>3. PICK b \in Int : b = next.ts
  BY <1>1, <1>2 DEF Packet
<1>4. CASE Deliver
  <2>1. UnderWay' /\ Congruent(TsMod, next'.ts, next.ts + 1)
    BY <1>1, <1>4, SendsUnderWay DEF Deliver
  <2>2. Rewrite(next) /\ source' = source /\ sent' = sent + 1
    BY <1>4 DEF Deliver, Sends
  <2>3. PICK d \in 0..MaxDelay, step \in 0..1 : d = 0 /\ step = 1
    BY <1>1
  <2>4. Congruent(TsMod, next.ts - next.ts, d)
    BY <1>3, <2>3 DEF Congruent
  <2>5. d + step \in 1..(sent + step)
    BY <1>1, <1>2, <2>3
  <2>6. /\ LastOut' /\ InTurn'
        /\ \E u \in [DOMAIN log' -> Int], n, f \in Int : Clock(u, n, f)'
    BY <1>2, <2>1, <2>2, <2>3, <2>4, <2>5, RewriteUnwinds
  <2>7. QED BY <2>1, <2>6 DEF ClockInv
<1>5. CASE Delay
  <2>1. UnderWay' /\ Congruent(TsMod, next'.ts, next.ts + 1)
    BY <1>1, <1>5, SendsUnderWay DEF Delay
  <2>2. sent' = sent + 1 /\ UNCHANGED <<rw, source, log>>
    BY <1>5 DEF Delay, Sends
  <2>3. /\ LastOut' /\ InTurn'
        /\ \E u \in [DOMAIN log' -> Int], n, f \in Int : Clock(u, n, f)'
    BY <1>1, <1>2, <2>1, <2>2, DelayUnwinds
  <2>4. QED BY <2>1, <2>3 DEF ClockInv
<1>6. ASSUME NEW p \in delayed, DeliverDelayed(p) PROVE ClockInv'
  <2>1. /\ Rewrite(p) /\ source' = source /\ sent' = sent /\ next' = next
        /\ delayed' = delayed \ {p}
    BY <1>6 DEF DeliverDelayed
  <2>2. UnderWay'
    BY <1>1, <2>1 DEF UnderWay
  <2>3. p \in Packet
    BY <1>1 DEF RewriterTypeOK
  <2>4. PICK a \in Int : a = p.ts
    BY <1>1, <2>3 DEF Packet
  <2>5. PICK c \in Int : c = b - a
    OBVIOUS
  <2>6. c % TsMod \in 1..sent /\ c % TsMod <= MaxDelay
    BY <1>1, <1>3, <1>6, <2>4, <2>5 DEF UnderWay, DeliverDelayed
  <2>7. PICK d \in 1..sent : d = c % TsMod /\ d \in 0..MaxDelay
    BY <1>1, <1>2, <2>6
  <2>8. Congruent(TsMod, c, d)
    BY <1>1, <2>7, CongruentMod DEF Congruent
  <2>9. Congruent(TsMod, next.ts - p.ts, d)
    BY <1>3, <2>4, <2>5, <2>8
  <2>10. PICK step \in 0..1 : step = 0
    OBVIOUS
  <2>11. d + step \in 1..(sent + step) /\ sent' = sent + step
    BY <1>2, <2>1, <2>7, <2>10
  <2>12. Congruent(TsMod, next'.ts, next.ts + step)
    BY <1>3, <2>1, <2>10 DEF Congruent
  <2>13. /\ LastOut' /\ InTurn'
         /\ \E u \in [DOMAIN log' -> Int], n, f \in Int : Clock(u, n, f)'
    BY <1>2, <2>1, <2>3, <2>7, <2>9, <2>11, <2>12, RewriteUnwinds
  <2>14. QED BY <2>2, <2>13 DEF ClockInv
<1>7. ASSUME NEW p \in delayed, Lose(p) PROVE ClockInv'
  <2>1. delayed' = delayed \ {p} /\ UNCHANGED <<sent, next, rw, source, log>>
    BY <1>7 DEF Lose
  <2>2. QED BY <2>1, UnchangedUnwinds
<1>8. CASE Switch
  <2>1. /\ delayed' = {} /\ log' = log /\ rw' = [rw EXCEPT !.initialized = FALSE]
    BY <1>8 DEF Switch
  <2>2. UnderWay'
    BY <2>1 DEF UnderWay
  <2>3. ~rw'.initialized /\ rw'.lastOutTs = rw.lastOutTs
    BY <1>1, <2>1 DEF RewriterTypeOK
  <2>4. QED BY <2>1, <2>2, <2>3, UnheardUnwinds DEF ClockInv
<1>9. CASE UNCHANGED rewriterVars
  BY <1>9, UnchangedUnwinds DEF rewriterVars
<1>10. QED BY <1>4, <1>5, <1>6, <1>7, <1>8, <1>9 DEF RewriterNext

-----------------------------------------------------------------------------
(* Theorems. *)

(***************************************************************************)
(* What rewrite() computes and keeps fits in the fields of the packet and  *)
(* of the rewriter, whatever wraps.                                        *)
(***************************************************************************)
THEOREM RewriterTypeCorrect == RewriterSpec => []RewriterTypeOK
<1>1. RewriterInv => RewriterTypeOK
  BY DEF RewriterInv
<1>2. QED BY <1>1, RewriterInvariant, PTL

(***************************************************************************)
(* Packets of one source keep their distances, for any width of the        *)
(* numbers and any order in which they come.                               *)
(***************************************************************************)
THEOREM DistancesArePreserved == RewriterSpec => []DistancesPreserved
<1>1. RewriterInv => DistancesPreserved
  <2> SUFFICES ASSUME RewriterInv, NEW i \in DOMAIN log, NEW j \in DOMAIN log,
                      log[i].source = log[j].source
               PROVE  /\ (log[j].out.seq - log[i].out.seq) % SeqMod
                            = (log[j].in.seq - log[i].in.seq) % SeqMod
                      /\ (log[j].out.ts - log[i].out.ts) % TsMod
                            = (log[j].in.ts - log[i].in.ts) % TsMod
    BY DEF DistancesPreserved
  <2>1. log[i] \in Entry /\ log[j] \in Entry
    BY LogEntries DEF RewriterInv
  <2>2. PICK a \in Int, b \in Int : Shifted(log[i], a, b) /\ Shifted(log[j], a, b)
    <3>1. log[i].source \in 0..MaxSwitches
      BY <2>1 DEF Entry
    <3>2. QED BY <3>1 DEF RewriterInv, OneShiftEach
  <2>3. /\ log[i].in.seq \in Int /\ log[j].in.seq \in Int
        /\ log[i].in.ts \in Int /\ log[j].in.ts \in Int
    BY <2>1, RewriterAssumption DEF Entry, Packet
  <2>4. (log[j].out.seq - log[i].out.seq) % SeqMod = (log[j].in.seq - log[i].in.seq) % SeqMod
    BY <2>2, <2>3, RewriterAssumption, ShiftKeepsDistance DEF Shifted
  <2>5. (log[j].out.ts - log[i].out.ts) % TsMod = (log[j].in.ts - log[i].in.ts) % TsMod
    BY <2>2, <2>3, RewriterAssumption, ShiftKeepsDistance DEF Shifted
  <2>6. QED BY <2>4, <2>5
<1>2. QED BY <1>1, RewriterInvariant, PTL

(***************************************************************************)
(* When the source is switched the time stamps of the subscriber go on     *)
(* forward, although a delayed packet may have been the last one rewritten *)
(* and the new source may begin with one that overtook others.             *)
(***************************************************************************)
THEOREM TimestampsAdvance ==
    ASSUME ClockAssumption
    PROVE  RewriterSpec => []TimestampsAdvanceAtSwitch
<1>1. ClockInv /\ RewriterInv => TimestampsAdvanceAtSwitch
  <2> SUFFICES ASSUME ClockInv, RewriterInv, NEW i \in DOMAIN log, NEW j \in DOMAIN log,
                      log[j].source = log[i].source + 1
               PROVE  (log[j].out.ts - log[i].out.ts) % TsMod \in 1..(TsMod \div 2)
    BY DEF TimestampsAdvanceAtSwitch
  <2>1. TsMod \in Nat \ {0} /\ TsStep \in Nat /\ MaxDelay \in Nat /\ MaxPackets \in Nat
    BY RewriterAssumption
  <2>2. PICK u \in [DOMAIN log -> Int], n \in Int, f \in Int : Clock(u, n, f)
    BY DEF ClockInv
  <2>3. PICK x \in Int, y \in Int : x = u[i] /\ y = u[j]
    OBVIOUS
  <2>4. log[i].out.ts = x % TsMod /\ log[j].out.ts = y % TsMod
    BY <2>2, <2>3 DEF Clock, Unwinds
  <2>5. TsStep - 2 * MaxDelay <= y - x /\ y - x <= TsStep + 2 * MaxPackets
    BY <2>2, <2>3 DEF Clock, Apart
  <2>6. PICK r \in 0..(TsMod - 1) : r = y - x /\ r \in 1..(TsMod \div 2)
    BY <2>1, <2>5 DEF ClockAssumption
  <2>7. Congruent(TsMod, y % TsMod, y) /\ Congruent(TsMod, x % TsMod, x)
    BY <2>1, CongruentMod
  <2>8. PICK s \in Int, t \in Int : s = y % TsMod /\ t = x % TsMod
    BY <2>1, CongruentMod
  <2>9. Congruent(TsMod, s - t, y - x)
    BY <2>1, <2>7, <2>8, CongruentSub
  <2>10. (s - t) % TsMod = r % TsMod
    BY <2>6, <2>9 DEF Congruent
  <2>11. r % TsMod = r
    BY <2>1, ModSmall
  <2>12. QED BY <2>4, <2>6, <2>8, <2>10, <2>11
<1>2. RewriterInv /\ RewriterInv' /\ ClockInv /\ [RewriterNext]_rewriterVars => ClockInv'
  BY ClockInvNext
<1>3. RewriterSpec => []ClockInv
  BY <1>2, ClockInvInit, RewriterInvariant, PTL DEF RewriterSpec
<1>4. QED BY <1>1, <1>3, RewriterInvariant, PTL
=============================================================================
