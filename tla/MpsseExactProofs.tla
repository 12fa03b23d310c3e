-------------------------- MODULE MpsseExactProofs --------------------------
(***************************************************************************)
(* Proofs about the scans of MpsseScan.  While no transfer fails, whatever *)
(* the sizes of the buffers and wherever they are flushed, each bit is     *)
(* clocked once, in order, with its own TDI, and read back to its own      *)
(* place, and a scan implements the one step of JtagScan.  When transfers  *)
(* fail, five ones bring the adapter and the TAP together again.           *)
(***************************************************************************)
EXTENDS MpsseScanProofs

-----------------------------------------------------------------------------
(* What the commands come to.  Two chips that differ in their queues alone execute a *)
(* command alike, so that it does not matter when the buffer is flushed.             *)

Twin(d, e) ==
    /\ e.tap = d.tap /\ e.pin = d.pin /\ e.clocks = d.clocks /\ e.expects = d.expects
    /\ e.agreed = d.agreed /\ e.began = d.began /\ e.ordered = d.ordered /\ e.shifted = d.shifted

\* What the chip answers to a command.
Due(cmd) == IF cmd.kind = "data" THEN cmd.octets ELSE 0
Answer(c, cmd) == IF cmd.kind \in {"last", "bits", "data"} /\ c.expects = Due(cmd)
                  THEN Sampled(c.clocks, Clocked(cmd)) ELSE <<>>

\* The fields of a chip that executes a command which clocks.
LEMMA ExecuteClocks ==
    ASSUME NEW c \in Chips, NEW cmd \in Commands, cmd.kind \in {"tms", "last", "bits", "data"}, c.expects = Due(cmd)
    PROVE  LET e == Execute(c, cmd)
               n == Clocked(cmd)
               at == jtag_path(jtag_next_state, c.tap, Levels(c, cmd))
           IN /\ e.expects = 0 /\ e.clocks = c.clocks + n /\ e.pin = Levels(c, cmd)[n] /\ e.tap = at[n]
              /\ e.agreed = c.agreed /\ e.began = c.began
              /\ e.shifted = c.shifted \cup {c.clocks + k : k \in {j \in 0 .. n - 1 : IsShift(at[j])}}
              /\ e.ordered = (c.ordered /\ \A k \in 1 .. Len(cmd.tdi) : cmd.tdi[k] = c.clocks + k - 1)
              /\ e.queue = c.queue \o Answer(c, cmd)
<1> DEFINE e == Execute(c, cmd)
           n == Clocked(cmd)
           levels == Levels(c, cmd)
           at == jtag_path(jtag_next_state, c.tap, levels)
           sh == c.shifted \cup {c.clocks + k : k \in {j \in 0 .. n - 1 : IsShift(at[j])}}
           ord == c.ordered /\ \A k \in 1 .. Len(cmd.tdi) : cmd.tdi[k] = c.clocks + k - 1
           q == IF cmd.kind = "tms" THEN c.queue ELSE c.queue \o Sampled(c.clocks, n)
           moved == [c EXCEPT !.expects = 0, !.clocks = @ + n, !.pin = levels[n], !.tap = at[n],
                              !.shifted = sh, !.ordered = ord, !.queue = q]
<1>1. Execute(c, cmd) = CASE c.expects # Due(cmd) -> [c EXCEPT !.expects = -1]
         [] c.expects = Due(cmd) /\ cmd.kind = "bytes" ->
              [c EXCEPT !.expects = IF cmd.octets = 0 THEN -1 ELSE cmd.octets]
         [] c.expects = Due(cmd) /\ cmd.kind = "clock" -> c
         [] OTHER -> moved
  BY DEF Execute, Levels, Clocked, Due
<1>2. q = c.queue \o Answer(c, cmd)
  <2>1. PICK before \in Seq(Octets) : before = c.queue BY DEF Chips
  <2>2. CASE cmd.kind = "tms"
    <3>1. Answer(c, cmd) = <<>> BY <2>2 DEF Answer
    <3>2. before \o <<>> = before OBVIOUS
    <3> QED BY <2>1, <2>2, <3>1, <3>2
  <2>3. CASE cmd.kind # "tms" BY <2>3 DEF Answer
  <2> QED BY <2>2, <2>3
<1>3. moved.shifted = sh /\ moved.ordered = ord
  <2> HIDE DEF sh, ord, q, at, n, levels
  <2> QED BY DEF Chips
<1> HIDE DEF sh, ord, q, moved
<1>4. e = moved BY <1>1
<1> HIDE DEF e, at, n, levels
<1>5. /\ moved.expects = 0 /\ moved.clocks = c.clocks + n /\ moved.pin = levels[n] /\ moved.tap = at[n]
      /\ moved.agreed = c.agreed /\ moved.began = c.began /\ moved.queue = q
  BY DEF moved, Chips
<1> QED BY <1>2, <1>3, <1>4, <1>5 DEF e, n, at, levels, sh, ord

\* The other commands.
LEMMA ExecuteOthers ==
    ASSUME NEW c \in Chips, NEW cmd \in Commands, cmd.kind \in {"bytes", "clock"} \/ c.expects # Due(cmd)
    PROVE  /\ Execute(c, cmd) = [c EXCEPT !.expects = Execute(c, cmd).expects]
           /\ Execute(c, cmd).expects =
                IF c.expects # Due(cmd) THEN -1
                ELSE IF cmd.kind = "clock" THEN c.expects ELSE IF cmd.octets = 0 THEN -1 ELSE cmd.octets
           /\ Answer(c, cmd) = <<>>
<1>1. CASE c.expects # Due(cmd)
  <2>1. Execute(c, cmd) = [c EXCEPT !.expects = -1] BY <1>1 DEF Execute, Due
  <2>2. Execute(c, cmd).expects = -1 BY <2>1 DEF Chips
  <2> QED BY <1>1, <2>1, <2>2 DEF Answer
<1>2. CASE c.expects = Due(cmd) /\ cmd.kind = "bytes"
  <2>1. Execute(c, cmd) = [c EXCEPT !.expects = IF cmd.octets = 0 THEN -1 ELSE cmd.octets] BY <1>2 DEF Execute, Due
  <2>2. Execute(c, cmd).expects = IF cmd.octets = 0 THEN -1 ELSE cmd.octets BY <2>1 DEF Chips
  <2> QED BY <1>2, <2>1, <2>2 DEF Answer
<1>3. CASE c.expects = Due(cmd) /\ cmd.kind = "clock"
  <2>1. Execute(c, cmd) = c BY <1>3 DEF Execute, Due
  <2>2. c = [c EXCEPT !.expects = c.expects] BY DEF Chips
  <2> QED BY <1>3, <2>1, <2>2 DEF Answer
<1> QED BY <1>1, <1>2, <1>3

LEMMA TwinStep ==
    ASSUME NEW d \in Chips, NEW e \in Chips, Twin(d, e), NEW cmd \in Commands
    PROVE  /\ Twin(Execute(d, cmd), Execute(e, cmd)) /\ Answer(e, cmd) = Answer(d, cmd)
           /\ Execute(d, cmd).queue = d.queue \o Answer(d, cmd)
           /\ Answer(d, cmd) \in Seq(Octets)
<1>1. Answer(e, cmd) = Answer(d, cmd) BY DEF Twin, Answer
<1>2. CASE cmd.kind \in {"tms", "last", "bits", "data"} /\ d.expects = Due(cmd)
  <2>1. e.expects = Due(cmd) /\ Levels(e, cmd) = Levels(d, cmd) BY <1>2 DEF Twin, Levels
  <2>2. Twin(Execute(d, cmd), Execute(e, cmd))
    <3> DEFINE n == Clocked(cmd)
               at == jtag_path(jtag_next_state, d.tap, Levels(d, cmd))
               new == {d.clocks + k : k \in {j \in 0 .. n - 1 : IsShift(at[j])}}
               own == \A k \in 1 .. Len(cmd.tdi) : cmd.tdi[k] = d.clocks + k - 1
               f == Execute(d, cmd)
               g == Execute(e, cmd)
    <3>1. /\ f.expects = 0 /\ f.clocks = d.clocks + n /\ f.pin = Levels(d, cmd)[n] /\ f.tap = at[n]
          /\ f.agreed = d.agreed /\ f.began = d.began
          /\ f.shifted = d.shifted \cup new /\ f.ordered = (d.ordered /\ own)
      BY <1>2, ExecuteClocks
    <3>2. /\ g.expects = 0 /\ g.clocks = e.clocks + n /\ g.pin = Levels(e, cmd)[n]
          /\ g.tap = jtag_path(jtag_next_state, e.tap, Levels(e, cmd))[n]
          /\ g.agreed = e.agreed /\ g.began = e.began
          /\ g.shifted = e.shifted \cup {e.clocks + k : k \in {j \in 0 .. n - 1 :
                 IsShift(jtag_path(jtag_next_state, e.tap, Levels(e, cmd))[j])}}
          /\ g.ordered = (e.ordered /\ \A k \in 1 .. Len(cmd.tdi) : cmd.tdi[k] = e.clocks + k - 1)
      BY <2>1, <1>2, ExecuteClocks
    <3>3. e.clocks = d.clocks /\ e.tap = d.tap /\ Levels(e, cmd) = Levels(d, cmd) BY <2>1 DEF Twin
    <3>4. /\ g.expects = 0 /\ g.clocks = e.clocks + n /\ g.pin = Levels(d, cmd)[n] /\ g.tap = at[n]
          /\ g.agreed = e.agreed /\ g.began = e.began
          /\ g.shifted = e.shifted \cup new /\ g.ordered = (e.ordered /\ own)
      BY <3>2, <3>3, Zenon
    <3> HIDE DEF n, at, new, own, f, g
    <3> QED BY <3>1, <3>4 DEF Twin, f, g
  <2>3. Execute(d, cmd).queue = d.queue \o Answer(d, cmd) BY <1>2, ExecuteClocks
  <2>4. Clocked(cmd) \in Nat /\ d.clocks \in Nat BY <1>2, LevelsType DEF Chips
  <2>5. Sampled(d.clocks, Clocked(cmd)) \in Seq(Octets) /\ <<>> \in Seq(Octets)
    <3>1. Sampled(d.clocks, Clocked(cmd)) \in Seq(Octets) BY <2>4, SampledType, Zenon
    <3> QED BY <3>1
  <2>6. Answer(d, cmd) \in Seq(Octets) BY <2>5, Zenon DEF Answer
  <2> QED BY <1>1, <2>2, <2>3, <2>6
<1>3. CASE cmd.kind \in {"bytes", "clock"} \/ d.expects # Due(cmd)
  <2>1. cmd.kind \in {"bytes", "clock"} \/ e.expects # Due(cmd) BY <1>3 DEF Twin
  <2>2. Execute(d, cmd).expects = Execute(e, cmd).expects BY <1>3, <2>1, ExecuteOthers DEF Twin
  <2>3. Execute(d, cmd) = [d EXCEPT !.expects = Execute(d, cmd).expects] BY <1>3, ExecuteOthers
  <2>4. Execute(e, cmd) = [e EXCEPT !.expects = Execute(e, cmd).expects] BY <2>1, ExecuteOthers
  <2>5. Twin(Execute(d, cmd), Execute(e, cmd)) BY <2>2, <2>3, <2>4 DEF Twin, Chips
  <2>6. Execute(d, cmd).queue = d.queue BY <2>3 DEF Chips
  <2>7. Answer(d, cmd) = <<>> BY <1>3, ExecuteOthers
  <2>8. d.queue \o <<>> = d.queue
    <3>1. d.queue \in Seq(Octets) BY DEF Chips
    <3> QED BY <3>1
  <2> QED BY <1>1, <2>5, <2>6, <2>7, <2>8
<1>4. cmd.kind \in Kinds BY DEF Commands
<1> QED BY <1>2, <1>3, <1>4 DEF Kinds

-----------------------------------------------------------------------------
(* The observers. *)

LEMMA LastOf ==
    ASSUME NEW n \in Nat, NEW S \in SUBSET (1 .. n), S # {}
    PROVE  Max(S) \in S /\ \A y \in S : y <= Max(S)
<1> DEFINE gap(j) == n - j
           gaps == {gap(j) : j \in S}
<1>1. gaps \in SUBSET Nat /\ gaps # {}
  <2>1. \A j \in S : gap(j) \in Nat OBVIOUS
  <2> HIDE DEF gap
  <2> QED BY <2>1
<1>2. PICK m \in gaps : \A g \in gaps : m <= g
  <2> HIDE DEF gaps
  <2> QED BY <1>1, FirstPlace
<1>3. PICK x \in S : m = gap(x) BY <1>2
<1>4. \A y \in S : gap(y) \in gaps OBVIOUS
<1>5. \A y \in S : m <= gap(y) BY <1>2, <1>4
<1>6. \A y \in S : x >= y BY <1>3, <1>5
<1>7. \E z \in S : \A y \in S : z >= y BY <1>6
<1>8. Max(S) \in S /\ \A y \in S : Max(S) >= y
  <2> DEFINE P(z) == \A y \in S : z >= y
  <2>1. \E z : z \in S /\ P(z) BY <1>7
  <2>2. Max(S) = CHOOSE z : z \in S /\ P(z) BY Zenon DEF Max
  <2> HIDE DEF P
  <2>3. Max(S) \in S /\ P(Max(S)) BY <2>1, <2>2, Zenon
  <2> QED BY <2>3 DEF P
<1> QED BY <1>8

\* Observer o copies to bit i of the TDO vector, and what it finds for it.
Covers(o, i) == i \in o.to .. o.to + o.num - 1
Source(o, i) == o.from + i - o.to
Found(o, bytes, i) == IF Source(o, i) \div 8 < Len(bytes) THEN bytes[Source(o, i) \div 8 + 1][Source(o, i) % 8] ELSE Junk

\* None of the observers copies to bit i; j is the last one that does.
Untouched(obs, i) == \A j \in DOMAIN obs : ~Covers(obs[j], i)
LastTouch(obs, i, j) == j \in DOMAIN obs /\ Covers(obs[j], i) /\ \A l \in DOMAIN obs : l > j => ~Covers(obs[l], i)

LEMMA ObservedBit ==
    ASSUME NEW obs \in Seq(Observers), NEW bytes, NEW t, NEW i \in DOMAIN t
    PROVE  /\ Untouched(obs, i) => RunObservers(obs, bytes, t)[i] = t[i]
           /\ \A j : LastTouch(obs, i, j) => RunObservers(obs, bytes, t)[i] = Found(obs[j], bytes, i)
<1> DEFINE S == {j \in DOMAIN obs : Covers(obs[j], i)}
           o == obs[Max(S)]
<1>1. RunObservers(obs, bytes, t)[i] = IF S = {} THEN t[i] ELSE Found(o, bytes, i)
  BY DEF RunObservers, Covers, Found, Source
<1>2. PICK n \in Nat : DOMAIN obs = 1 .. n OBVIOUS
<1>3. S \in SUBSET (1 .. n) BY <1>2
<1>4. ASSUME NEW j, LastTouch(obs, i, j)
      PROVE  S # {} /\ Max(S) = j
  <2>1. j \in S BY <1>4 DEF LastTouch
  <2>2. \A l \in S : ~(l > j) BY <1>4 DEF LastTouch
  <2> HIDE DEF S
  <2>3. Max(S) \in S /\ j <= Max(S) BY <1>3, <2>1, LastOf
  <2>4. PICK m \in Nat : m = Max(S)
    <3>1. \A l \in 1 .. n : l \in Nat OBVIOUS
    <3>2. Max(S) \in Nat BY <1>3, <2>3, <3>1, Zenon
    <3> QED BY <3>2
  <2>5. j \in Nat /\ ~(m > j) /\ j <= m BY <1>3, <2>1, <2>2, <2>3, <2>4
  <2>6. m = j BY <2>5
  <2> QED BY <2>1, <2>4, <2>6
<1>5. ASSUME Untouched(obs, i) PROVE S = {} BY <1>5 DEF Untouched
<1> HIDE DEF S
<1> QED BY <1>1, <1>4, <1>5

LEMMA TouchedOrNot ==
    ASSUME NEW obs \in Seq(Observers), NEW i
    PROVE  Untouched(obs, i) \/ \E j \in DOMAIN obs : LastTouch(obs, i, j)
<1> DEFINE S == {j \in DOMAIN obs : Covers(obs[j], i)}
<1>1. PICK n \in Nat : DOMAIN obs = 1 .. n OBVIOUS
<1>2. S \in SUBSET (1 .. n) BY <1>1
<1>3. CASE S = {} BY <1>3 DEF Untouched
<1>4. CASE S # {}
  <2>1. PICK j \in S : \A y \in S : y <= j
    <3> HIDE DEF S
    <3> QED BY <1>2, <1>4, LastOf
  <2>2. \A l \in DOMAIN obs : l > j => ~Covers(obs[l], i) BY <1>1, <2>1
  <2> QED BY <2>1, <2>2 DEF LastTouch
<1> QED BY <1>3, <1>4

\* A TDO vector into which one more answer is copied.
Overlay(view, ob, bytes) ==
    [i \in DOMAIN view |-> IF Covers(ob, i) THEN bytes[Source(ob, i) \div 8 + 1][Source(ob, i) % 8] ELSE view[i]]

\* An observer of an answer of rx_bytes.
Fits(ob, rx_bytes) ==
    /\ ob \in Observers /\ ob.from \in Nat /\ ob.to \in Nat /\ ob.num \in Nat
    /\ ob.from + ob.num <= 8 * rx_bytes
AllFit(obs, rx_bytes) == \A j \in DOMAIN obs : Fits(obs[j], rx_bytes)

\* Observer ob behind rx_num bytes of answers to earlier commands.
Behind(new, ob, rx_num) == new \in Observers /\ new.from = ob.from + 8 * rx_num /\ new.to = ob.to /\ new.num = ob.num

IsVector(t) == DOMAIN t \subseteq Nat /\ t = [i \in DOMAIN t |-> t[i]]

LEMMA EightTimes ==
    ASSUME NEW k \in Nat, NEW L \in Nat, NEW M \in Nat, k < 8 * M
    PROVE  /\ (k + 8 * L) \div 8 = L + k \div 8 /\ (k + 8 * L) % 8 = k % 8
           /\ k \div 8 \in Nat /\ k \div 8 < M
OBVIOUS

LEMMA Within ==
    ASSUME NEW from \in Nat, NEW to \in Nat, NEW num \in Nat, NEW i \in Nat, NEW L \in Nat,
           from + num <= 8 * L, to <= i, i <= to + num - 1
    PROVE  from + i - to \in Nat /\ from + i - to < 8 * L
OBVIOUS

\* An observer finds its bits in its answer, whatever answers come behind it.
LEMMA FoundBefore ==
    ASSUME NEW o, NEW bytes \in Seq(Octets), NEW more \in Seq(Octets), Fits(o, Len(bytes)), NEW i \in Nat, Covers(o, i)
    PROVE  Found(o, bytes \o more, i) = Found(o, bytes, i)
<1>1. PICK L \in Nat : L = Len(bytes) OBVIOUS
<1>2. PICK from \in Nat, to \in Nat, num \in Nat : from = o.from /\ to = o.to /\ num = o.num /\ from + num <= 8 * L
  BY <1>1 DEF Fits
<1>3. PICK k \in Nat : k = Source(o, i) /\ k < 8 * L
  <2>1. to <= i /\ i <= to + num - 1 BY <1>2 DEF Covers
  <2>2. from + i - to \in Nat /\ from + i - to < 8 * L BY <1>2, <2>1, Within
  <2> QED BY <1>2, <2>2 DEF Source
<1>4. PICK m \in Nat : m = k \div 8 /\ m < L BY <1>3
<1>5. (bytes \o more)[m + 1] = bytes[m + 1] /\ m < Len(bytes \o more) /\ m < Len(bytes) BY <1>1, <1>4
<1> QED BY <1>3, <1>4, <1>5 DEF Found

\* ... and in the last answer, whatever answers came before it.
LEMMA FoundBehind ==
    ASSUME NEW o, NEW new, NEW bytes \in Seq(Octets), NEW more \in Seq(Octets), Fits(o, Len(more)), NEW i \in Nat, Covers(o, i),
           new.from = o.from + 8 * Len(bytes), new.to = o.to, new.num = o.num
    PROVE  Found(new, bytes \o more, i) = more[Source(o, i) \div 8 + 1][Source(o, i) % 8]
<1>1. PICK L \in Nat, M \in Nat : L = Len(bytes) /\ M = Len(more) OBVIOUS
<1>2. PICK from \in Nat, to \in Nat, num \in Nat : from = o.from /\ to = o.to /\ num = o.num /\ from + num <= 8 * M
  BY <1>1 DEF Fits
<1>3. PICK k \in Nat : k = Source(o, i) /\ k < 8 * M
  <2>1. to <= i /\ i <= to + num - 1 BY <1>2 DEF Covers
  <2>2. from + i - to \in Nat /\ from + i - to < 8 * M BY <1>2, <2>1, Within
  <2> QED BY <1>2, <2>2 DEF Source
<1>4. Source(new, i) = k + 8 * L BY <1>1, <1>2, <1>3 DEF Source
<1>5. (k + 8 * L) \div 8 = L + k \div 8 /\ (k + 8 * L) % 8 = k % 8 /\ k \div 8 \in Nat /\ k \div 8 < M
  BY <1>3, EightTimes
<1>6. PICK m \in Nat : m = k \div 8 /\ m < M BY <1>5
<1>7. (bytes \o more)[L + m + 1] = more[m + 1] /\ L + m < Len(bytes \o more)
  <2>1. L + m + 1 \in 1 .. L + M /\ L + m + 1 > L /\ L + m + 1 - L = m + 1 BY <1>6
  <2> QED BY <1>1, <1>6, <2>1
<1> QED BY <1>3, <1>4, <1>5, <1>6, <1>7 DEF Found

LEMMA ObserveMore ==
    ASSUME NEW obs \in Seq(Observers), NEW bytes \in Seq(Octets), NEW more \in Seq(Octets), NEW t, IsVector(t),
           AllFit(obs, Len(bytes)), NEW ob, Fits(ob, Len(more)), NEW new, Behind(new, ob, Len(bytes))
    PROVE  RunObservers(obs \o <<new>>, bytes \o more, t) = Overlay(RunObservers(obs, bytes, t), ob, more)
<1> DEFINE obs2 == obs \o <<new>>
           all == bytes \o more
           u == RunObservers(obs, bytes, t)
           u2 == RunObservers(obs2, all, t)
<1>0. /\ DOMAIN t \subseteq Nat /\ \A j \in DOMAIN obs : Fits(obs[j], Len(bytes))
      /\ new \in Observers /\ new.from = ob.from + 8 * Len(bytes) /\ new.to = ob.to /\ new.num = ob.num
  BY DEF IsVector, AllFit, Behind
<1>1. PICK n \in Nat : n = Len(obs) /\ DOMAIN obs = 1 .. n OBVIOUS
<1>2. /\ obs2 \in Seq(Observers) /\ DOMAIN obs2 = 1 .. n + 1 /\ obs2[n + 1] = new
      /\ \A j \in 1 .. n : obs2[j] = obs[j]
  BY <1>0, <1>1
<1>3. DOMAIN u = DOMAIN t /\ DOMAIN u2 = DOMAIN t /\ u2 = [i \in DOMAIN t |-> u2[i]] BY DEF RunObservers
<1> HIDE DEF obs2, all, u, u2
<1>4. \A i : Covers(new, i) <=> Covers(ob, i) BY <1>0 DEF Covers
<1>5. ASSUME NEW i \in DOMAIN t, Covers(ob, i)
      PROVE  u2[i] = more[Source(ob, i) \div 8 + 1][Source(ob, i) % 8]
  <2>1. LastTouch(obs2, i, n + 1)
    <3>1. n + 1 \in DOMAIN obs2 /\ Covers(obs2[n + 1], i) BY <1>2, <1>4, <1>5
    <3>2. \A l \in DOMAIN obs2 : ~(l > n + 1) BY <1>2
    <3> QED BY <3>1, <3>2 DEF LastTouch
  <2>2. u2[i] = Found(obs2[n + 1], all, i) BY <1>2, <2>1, ObservedBit DEF u2
  <2>3. i \in Nat BY <1>0
  <2> QED BY <1>0, <1>2, <1>5, <2>2, <2>3, FoundBehind DEF all
<1>6. ASSUME NEW i \in DOMAIN t, ~Covers(ob, i)
      PROVE  u2[i] = u[i]
  <2>1. ~Covers(obs2[n + 1], i) BY <1>2, <1>4, <1>6
  <2>2. CASE Untouched(obs, i)
    <3>1. \A j \in 1 .. n : ~Covers(obs2[j], i) BY <1>1, <1>2, <2>2 DEF Untouched
    <3>2. Untouched(obs2, i)
      <4>1. \A j \in DOMAIN obs2 : j \in 1 .. n \/ j = n + 1 BY <1>2
      <4> QED BY <2>1, <3>1, <4>1 DEF Untouched
    <3>3. u2[i] = t[i] BY <1>2, <3>2, ObservedBit DEF u2
    <3>4. u[i] = t[i] BY <2>2, ObservedBit DEF u
    <3> QED BY <3>3, <3>4
  <2>3. CASE \E j \in DOMAIN obs : LastTouch(obs, i, j)
    <3>1. PICK j \in DOMAIN obs : LastTouch(obs, i, j) BY <2>3
    <3>2. j \in 1 .. n /\ Covers(obs[j], i) /\ \A l \in 1 .. n : l > j => ~Covers(obs[l], i)
      BY <1>1, <3>1 DEF LastTouch
    <3>3. obs2[j] = obs[j] /\ j \in DOMAIN obs2 BY <1>2, <3>2
    <3>4. LastTouch(obs2, i, j)
      <4>1. \A l \in 1 .. n : l > j => ~Covers(obs2[l], i) BY <1>2, <3>2
      <4>2. \A l \in DOMAIN obs2 : l \in 1 .. n \/ l = n + 1 BY <1>2
      <4> QED BY <2>1, <3>2, <3>3, <4>1, <4>2 DEF LastTouch
    <3>5. u2[i] = Found(obs[j], all, i) BY <1>2, <3>3, <3>4, ObservedBit DEF u2
    <3>6. u[i] = Found(obs[j], bytes, i) BY <3>1, ObservedBit DEF u
    <3>7. i \in Nat /\ Fits(obs[j], Len(bytes)) BY <1>0
    <3> QED BY <3>2, <3>5, <3>6, <3>7, FoundBefore DEF all
  <2> QED BY <2>2, <2>3, TouchedOrNot
<1>7. u2 = Overlay(u, ob, more) BY <1>3, <1>5, <1>6 DEF Overlay
<1> QED BY <1>7 DEF obs2, all, u, u2

-----------------------------------------------------------------------------
(* The buffer while no transfer fails. *)

\* The buffer waits for what its commands will be answered, its observers for a part of
\* it, and when all has been read and copied the TDO vector will be view.
InRange(b) ==
    /\ AllFit(b.observers, b.rx_num)
    /\ b.rx_num = 0 => b.observers = <<>>
Waits(b, c, t, d, view) ==
    /\ b \in Buffers /\ c \in Chips /\ d \in Chips /\ IsVector(t)
    /\ Executed(c, b.tx) = {d} /\ Len(d.queue) = b.rx_num /\ InRange(b)
    /\ RunObservers(b.observers, d.queue, t) = view

LEMMA NothingExecuted == ASSUME NEW c \in Chips PROVE Executed(c, <<>>) = {c}
<1>1. <<>> \in Seq(Commands) /\ Len(<<>>) = 0 OBVIOUS
<1>2. PICK at : Run(c, <<>>, 0, at) /\ Executed(c, <<>>) = {at[0]} BY <1>1, ExecutedIsRun
<1> QED BY <1>2 DEF Run, RunSteps

LEMMA ObservedDomain ==
    ASSUME NEW observers, NEW bytes, NEW t
    PROVE  LET u == RunObservers(observers, bytes, t) IN u = [i \in DOMAIN u |-> u[i]] /\ DOMAIN u = DOMAIN t
BY Zenon DEF RunObservers

LEMMA NothingObserved ==
    ASSUME NEW observers, NEW bytes, NEW t
    PROVE  RunObservers(<<>>, <<>>, RunObservers(observers, bytes, t)) = RunObservers(observers, bytes, t)
<1> DEFINE u == RunObservers(observers, bytes, t)
<1>1. u = [i \in DOMAIN u |-> u[i]] BY ObservedDomain
<1> HIDE DEF u
<1>2. RunObservers(<<>>, <<>>, u) = [i \in DOMAIN u |-> u[i]] BY DEF RunObservers
<1> QED BY <1>1, <1>2 DEF u

LEMMA ObservedVector ==
    ASSUME NEW observers, NEW bytes, NEW t, IsVector(t)
    PROVE  IsVector(RunObservers(observers, bytes, t))
<1> DEFINE u == RunObservers(observers, bytes, t)
<1>1. u = [i \in DOMAIN u |-> u[i]] /\ DOMAIN u = DOMAIN t BY ObservedDomain
<1>2. DOMAIN t \subseteq Nat BY DEF IsVector
<1> HIDE DEF u
<1>3. IsVector(u) BY <1>1, <1>2, Zenon DEF IsVector
<1> QED BY <1>3 DEF u

\* Whenever the buffer is flushed, what is waited for does not change.
LEMMA FlushWaits ==
    ASSUME NEW b, NEW c, NEW t, NEW d, NEW view, Waits(b, c, t, d, view), NEW o \in mpsse_buffer_flush(b, c, t)
    PROVE  /\ o.err \in {"ok", "usb"} /\ OutcomeOk(o) /\ o.b.pool = b.pool
           /\ o.err = "ok" =>
                /\ o.b.tx = <<>> /\ o.b.tx_num = 0 /\ o.b.rx_num = 0
                /\ Twin(d, o.c) /\ Waits(o.b, o.c, o.t, o.c, view) /\ o.c.queue = <<>>
                /\ o.b.observers = <<>> /\ o.t = view
<1>1. /\ b \in Buffers /\ c \in Chips /\ IsVector(t)
      /\ d \in Chips /\ Executed(c, b.tx) = {d} /\ Len(d.queue) = b.rx_num /\ InRange(b)
      /\ RunObservers(b.observers, d.queue, t) = view
  BY DEF Waits
<1>2. OutcomeOk(o) BY <1>1, FlushType
<1>3. PICK q \in Seq(Octets) : q = d.queue /\ Len(q) = b.rx_num BY <1>1 DEF Chips
<1>4. /\ Cleared(b).tx = <<>> /\ Cleared(b).tx_num = 0 /\ Cleared(b).rx_num = b.rx_num
      /\ Cleared(b).observers = b.observers /\ Cleared(b).pool = b.pool
  BY <1>1 DEF Cleared, Buffers
<1>5. /\ Answered(Cleared(b)).tx = <<>> /\ Answered(Cleared(b)).tx_num = 0 /\ Answered(Cleared(b)).rx_num = 0
      /\ Answered(Cleared(b)).observers = <<>> /\ Answered(Cleared(b)).pool = b.pool
  <2>1. Cleared(b) \in Buffers BY <1>1, ClearType
  <2> QED BY <1>4, <2>1 DEF Answered, Buffers
<1>6. ASSUME NEW err, NEW x \in Late(b, d, t, err) PROVE x.err = err /\ x.b = Cleared(b)
  BY <1>6, OutcomeFields DEF Late
<1>7. CASE failures < MaxFailures /\ \E p \in HalfSent(b, c) : o = Outcome("usb", b, p, t)
  BY <1>2, <1>7, OutcomeFields
<1>8. CASE o \in ReadAnswers(b, d, t)
  <2>1. CASE b.rx_num = 0
    <3>1. o = Outcome("ok", Cleared(b), d, t) BY <1>8, <2>1 DEF ReadAnswers
    <3>2. o.err = "ok" /\ o.b = Cleared(b) /\ o.c = d /\ o.t = t BY <3>1, OutcomeFields
    <3>3. Executed(d, <<>>) = {d} BY <1>1, NothingExecuted
    <3>4. InRange(Cleared(b)) /\ b.observers = <<>> BY <1>1, <1>4, <2>1 DEF InRange
    <3>5. o.b \in Buffers BY <1>2 DEF OutcomeOk
    <3>6. Waits(o.b, o.c, o.t, o.c, view) BY <1>1, <1>4, <3>2, <3>3, <3>4, <3>5 DEF Waits
    <3>7. d.queue = <<>> BY <1>3, <2>1
    <3>8. t = view
      <4>1. RunObservers(<<>>, <<>>, t) = view BY <1>1, <3>4, <3>7
      <4>2. RunObservers(<<>>, <<>>, t) = [i \in DOMAIN t |-> t[i]] BY DEF RunObservers
      <4> QED BY <1>1, <4>1, <4>2 DEF IsVector
    <3>9. Twin(d, d) BY DEF Twin
    <3> QED BY <1>2, <1>4, <2>1, <3>2, <3>4, <3>6, <3>7, <3>8, <3>9
  <2>2. CASE b.rx_num # 0
    <3> DEFINE copied == RunObservers(b.observers, SubSeq(d.queue, 1, b.rx_num), t)
    <3>1. ~(b.rx_num > Len(d.queue)) BY <1>1, Sizes DEF Buffers
    <3>2. \/ o = Outcome("ok", Answered(Cleared(b)), Take(d, b.rx_num), copied)
          \/ failures < MaxFailures /\ o \in Late(b, d, t, "usb")
      BY <1>8, <2>2, <3>1 DEF ReadAnswers
    <3>3. SubSeq(q, 1, Len(q)) = q /\ SubSeq(q, Len(q) + 1, Len(q)) = <<>> BY <1>3
    <3>4. copied = view BY <1>1, <1>3, <3>3
    <3>5. Take(d, b.rx_num).queue = <<>> /\ Twin(d, Take(d, b.rx_num)) /\ Take(d, b.rx_num) \in Chips
      <4>1. Take(d, b.rx_num) = [d EXCEPT !.queue = <<>>] BY <1>3, <3>3 DEF Take
      <4>2. <<>> \in Seq(Octets) OBVIOUS
      <4>3. [d EXCEPT !.queue = <<>>] \in Chips BY <1>1, <4>2, ChipPurged
      <4> QED BY <1>1, <4>1, <4>3 DEF Twin, Chips
    <3> HIDE DEF copied
    <3>6. CASE failures < MaxFailures /\ o \in Late(b, d, t, "usb") BY <1>2, <1>4, <1>6, <3>6
    <3>7. CASE o = Outcome("ok", Answered(Cleared(b)), Take(d, b.rx_num), copied)
      <4>1. o.err = "ok" /\ o.b = Answered(Cleared(b)) /\ o.c = Take(d, b.rx_num) /\ o.t = view
        BY <3>4, <3>7, OutcomeFields
      <4>2. Executed(o.c, <<>>) = {o.c} BY <3>5, <4>1, NothingExecuted
      <4>3. InRange(o.b) /\ o.b \in Buffers BY <1>2, <1>5, <4>1 DEF InRange, AllFit, OutcomeOk
      <4>4. RunObservers(<<>>, <<>>, view) = view BY <1>1, NothingObserved
      <4>5. Len(<<>>) = 0 OBVIOUS
      <4>6. IsVector(view) BY <1>1, ObservedVector
      <4>7. Waits(o.b, o.c, o.t, o.c, view) BY <1>5, <3>5, <4>1, <4>2, <4>3, <4>4, <4>5, <4>6 DEF Waits
      <4> QED BY <1>2, <1>5, <2>2, <3>5, <4>1, <4>7
    <3> QED BY <3>2, <3>6, <3>7
  <2> QED BY <2>1, <2>2
<1> QED BY <1>1, <1>7, <1>8, FlushCases

\* The same, the answers that have been read already left aside: the chip will be e, but
\* for its queue.
Soon(b, c, t, e, view) == \E d : Twin(e, d) /\ Waits(b, c, t, d, view)

LEMMA TwinTwin == ASSUME NEW d, NEW e, NEW f, Twin(d, e), Twin(e, f) PROVE Twin(d, f)
BY DEF Twin

\* An operation that succeeds, or fails with a transfer; what it leaves.
Leaves(o, e, view, pool) ==
    /\ OutcomeOk(o) /\ o.err \in {"ok", "usb"}
    /\ o.err = "ok" => o.b.pool = pool /\ Soon(o.b, o.c, o.t, e, view)

LEMMA FlushSoon ==
    ASSUME NEW b, NEW c, NEW t, NEW e, NEW view, Soon(b, c, t, e, view), NEW o \in mpsse_buffer_flush(b, c, t)
    PROVE  /\ Leaves(o, e, view, b.pool)
           /\ o.err = "ok" => /\ o.b.tx = <<>> /\ o.b.tx_num = 0 /\ o.b.rx_num = 0 /\ o.b.observers = <<>>
                              /\ o.t = view /\ o.c.queue = <<>> /\ Twin(e, o.c)
<1>1. PICK d : Twin(e, d) /\ Waits(b, c, t, d, view) BY DEF Soon
<1>2. /\ o.err \in {"ok", "usb"} /\ OutcomeOk(o) /\ o.b.pool = b.pool
      /\ o.err = "ok" =>
                /\ o.b.tx = <<>> /\ o.b.tx_num = 0 /\ o.b.rx_num = 0
                /\ Twin(d, o.c) /\ Waits(o.b, o.c, o.t, o.c, view) /\ o.c.queue = <<>>
                /\ o.b.observers = <<>> /\ o.t = view
  BY <1>1, FlushWaits
<1>3. o.err = "ok" => Twin(e, o.c) BY <1>1, <1>2, TwinTwin
<1> QED BY <1>2, <1>3 DEF Leaves, Soon

\* What is not flushed waits as before.
LEMMA StaysSoon ==
    ASSUME NEW b, NEW c, NEW t, NEW e, NEW view, Soon(b, c, t, e, view)
    PROVE  Leaves(Outcome("ok", b, c, t), e, view, b.pool)
<1>1. b \in Buffers /\ c \in Chips BY DEF Soon, Waits
<1>2. OutcomeOk(Outcome("ok", b, c, t)) BY <1>1, OutcomeIsOk DEF Errors
<1> QED BY <1>2, OutcomeFields DEF Leaves

\* The room that an append makes is room enough.
LEMMA RoomSoon ==
    ASSUME NEW b, NEW c, NEW t, NEW e, NEW view, Soon(b, c, t, e, view),
           NEW size \in Nat, size <= max_tx_buffer_bytes, NEW rx_bytes \in Nat, rx_bytes <= max_rx_buffer_bytes,
           NEW q \in Room(b, c, t, size, rx_bytes)
    PROVE  /\ Leaves(q, e, view, b.pool)
           /\ q.err = "ok" => /\ q.b.tx_num + size <= max_tx_buffer_bytes
                              /\ q.b.rx_num + rx_bytes <= max_rx_buffer_bytes
<1>1. CASE MustFlush(b, size, rx_bytes)
  <2>1. q \in mpsse_buffer_flush(b, c, t) BY <1>1 DEF Room
  <2>2. Leaves(q, e, view, b.pool) /\ (q.err = "ok" => q.b.tx_num = 0 /\ q.b.rx_num = 0) BY <2>1, FlushSoon
  <2>3. 0 + size <= max_tx_buffer_bytes /\ 0 + rx_bytes <= max_rx_buffer_bytes BY Sizes
  <2> QED BY <2>2, <2>3
<1>2. CASE ~MustFlush(b, size, rx_bytes)
  <2>1. q = Outcome("ok", b, c, t) BY <1>2 DEF Room
  <2>2. Leaves(q, e, view, b.pool) /\ q.b = b BY <2>1, StaysSoon, OutcomeFields
  <2>3. b \in Buffers BY DEF Soon, Waits
  <2>4. PICK tx \in Nat, rx \in Nat : tx = b.tx_num /\ rx = b.rx_num BY <2>3, Counts
  <2>5. ~(tx + size > max_tx_buffer_bytes) /\ ~(rx + rx_bytes > max_rx_buffer_bytes) BY <1>2, <2>4 DEF MustFlush
  <2>6. tx + size <= max_tx_buffer_bytes /\ rx + rx_bytes <= max_rx_buffer_bytes BY <2>5, Sizes
  <2> QED BY <2>2, <2>4, <2>6
<1> QED BY <1>1, <1>2

LEMMA ExecutedMore ==
    ASSUME NEW c \in Chips, NEW cmds \in Seq(Commands), NEW cmd \in Commands, NEW d, Executed(c, cmds) = {d}
    PROVE  Executed(c, cmds \o <<cmd>>) = {Execute(d, cmd)}
<1>1. \E f \in Chips : Executed(c, cmds) = {f} /\ Executed(c, cmds \o <<cmd>>) = {Execute(f, cmd)} BY ExecutedStep, Zenon
<1>2. PICK f \in Chips : Executed(c, cmds) = {f} /\ Executed(c, cmds \o <<cmd>>) = {Execute(f, cmd)} BY <1>1, Zenon
<1>3. f = d
  <2>1. f \in {d} BY <1>2, Zenon
  <2> QED BY <2>1, Zenon
<1> QED BY <1>2, <1>3, Zenon

\* One more command for which no answer is expected and none comes.
LEMMA WriteSilent ==
    ASSUME NEW b, NEW c, NEW t, NEW e \in Chips, NEW view, Soon(b, c, t, e, view), NEW cmd \in Commands,
           Answer(e, cmd) = <<>>, NEW size \in Nat, b.tx_num + size <= max_tx_buffer_bytes
    PROVE  Soon(Written(b, <<cmd>>, size), c, t, Execute(e, cmd), view)
<1> DEFINE w == Written(b, <<cmd>>, size)
<1>1. PICK d : Twin(e, d) /\ Waits(b, c, t, d, view) BY DEF Soon
<1>2. /\ b \in Buffers /\ c \in Chips /\ d \in Chips /\ IsVector(t) /\ Executed(c, b.tx) = {d}
      /\ Len(d.queue) = b.rx_num /\ InRange(b) /\ RunObservers(b.observers, d.queue, t) = view
  BY <1>1 DEF Waits
<1>3. b.tx \in Seq(Commands) /\ <<cmd>> \in Seq(Commands) BY <1>2 DEF Buffers
<1>4. /\ w \in Buffers /\ w.tx = b.tx \o <<cmd>> /\ w.rx_num = b.rx_num /\ w.observers = b.observers
  BY <1>2, <1>3, WrittenType
<1> HIDE DEF w
<1>5. Executed(c, w.tx) = {Execute(d, cmd)}
  <2>1. c \in Chips /\ Executed(c, b.tx) = {d} BY <1>2
  <2>2. b.tx \in Seq(Commands) BY <1>3
  <2>3. Executed(c, b.tx \o <<cmd>>) = {Execute(d, cmd)} BY ONLY cmd \in Commands, <2>1, <2>2, ExecutedMore
  <2> QED BY <1>4, <2>3, Zenon
<1>6. Execute(d, cmd) \in Chips BY <1>2, ExecuteType
<1>7. /\ Twin(Execute(e, cmd), Execute(d, cmd)) /\ Answer(d, cmd) = Answer(e, cmd)
  BY <1>1, <1>2, TwinStep
<1>8. Execute(d, cmd).queue = d.queue \o Answer(d, cmd)
  <2>1. Twin(d, d) BY DEF Twin
  <2> QED BY <1>2, <2>1, TwinStep
<1>9. Execute(d, cmd).queue = d.queue
  <2>1. PICK q \in Seq(Octets) : q = d.queue BY <1>2 DEF Chips
  <2>2. q \o <<>> = q OBVIOUS
  <2> QED BY <1>7, <1>8, <2>1, <2>2
<1>10. InRange(w) BY <1>2, <1>4 DEF InRange
<1>11. Waits(w, c, t, Execute(d, cmd), view) BY <1>2, <1>4, <1>5, <1>6, <1>9, <1>10 DEF Waits
<1> QED BY <1>7, <1>11 DEF Soon, w

LEMMA NotedOne ==
    ASSUME NEW b \in Buffers, NEW ob \in Observers
    PROVE  \E new :
             /\ Behind(new, ob, b.rx_num)
             /\ \A rx_bytes : Noted(b, <<ob>>, rx_bytes).observers = b.observers \o <<new>>
<1>1. PICK from \in Int : from = ob.from + 8 * b.rx_num
  <2>1. ob.from \in Int /\ b.rx_num \in Int BY Counts DEF Observers
  <2> QED BY <2>1
<1>2. PICK new \in Observers : new = [ob EXCEPT !.from = from] BY DEF Observers
<1>3. new.from = from /\ new.to = ob.to /\ new.num = ob.num BY <1>2 DEF Observers
<1>4. Note(b, ob) = new BY <1>1, <1>2 DEF Note
<1>5. [k \in DOMAIN <<ob>> |-> Note(b, <<ob>>[k])] = <<new>> BY <1>4
<1>6. ASSUME NEW rx_bytes PROVE Noted(b, <<ob>>, rx_bytes).observers = b.observers \o <<new>>
  BY <1>5 DEF Noted, Buffers
<1>7. Behind(new, ob, b.rx_num) BY <1>1, <1>3 DEF Behind
<1> QED BY <1>6, <1>7

LEMMA FitsMore ==
    ASSUME NEW o, NEW rx \in Nat, NEW M \in Nat, Fits(o, rx)
    PROVE  Fits(o, rx + M)
<1>1. PICK from \in Nat, num \in Nat : from = o.from /\ num = o.num /\ from + num <= 8 * rx BY DEF Fits
<1>2. from + num <= 8 * (rx + M) BY <1>1
<1> QED BY <1>1, <1>2 DEF Fits

LEMMA FitsBehind ==
    ASSUME NEW ob, NEW rx \in Nat, NEW M \in Nat, Fits(ob, M), NEW new, Behind(new, ob, rx)
    PROVE  Fits(new, rx + M)
<1>1. PICK from \in Nat, num \in Nat : from = ob.from /\ num = ob.num /\ from + num <= 8 * M BY DEF Fits
<1>2. from + 8 * rx \in Nat /\ (from + 8 * rx) + num <= 8 * (rx + M) BY <1>1
<1>3. ob.to \in Nat BY DEF Fits
<1> QED BY <1>1, <1>2, <1>3 DEF Fits, Behind

\* The observers and the answers that they wait for, one more of each.
LEMMA OneMoreObserver ==
    ASSUME NEW obs \in Seq(Observers), NEW rx \in Nat, NEW M \in Nat, AllFit(obs, rx),
           NEW new \in Observers, Fits(new, rx + M)
    PROVE  AllFit(obs \o <<new>>, rx + M)
<1>1. PICK n \in Nat : n = Len(obs) /\ DOMAIN obs = 1 .. n OBVIOUS
<1>2. /\ DOMAIN (obs \o <<new>>) = 1 .. n + 1 /\ (obs \o <<new>>)[n + 1] = new
      /\ \A j \in 1 .. n : (obs \o <<new>>)[j] = obs[j]
  BY <1>1
<1>3. \A j \in 1 .. n : Fits(obs[j], rx + M) BY <1>1, FitsMore DEF AllFit
<1>4. \A j \in 1 .. n + 1 : j \in 1 .. n \/ j = n + 1 OBVIOUS
<1> QED BY <1>2, <1>3, <1>4 DEF AllFit

\* One more command whose answer an observer copies.
LEMMA WriteHeard ==
    ASSUME NEW b, NEW c, NEW t, NEW e \in Chips, NEW view, Soon(b, c, t, e, view), NEW cmd \in Commands,
           NEW M \in Nat, M > 0, M = Len(Answer(e, cmd)), NEW ob, Fits(ob, M),
           b.rx_num + M <= max_rx_buffer_bytes,
           NEW p \in Buffers, p.tx = b.tx \o <<cmd>>, p.rx_num = b.rx_num, p.observers = b.observers
    PROVE  /\ Noted(p, <<ob>>, M) \in Buffers
           /\ Soon(Noted(p, <<ob>>, M), c, t, Execute(e, cmd), Overlay(view, ob, Answer(e, cmd)))
<1>1. PICK d : Twin(e, d) /\ Waits(b, c, t, d, view) BY DEF Soon
<1>2. /\ b \in Buffers /\ c \in Chips /\ d \in Chips /\ IsVector(t) /\ Executed(c, b.tx) = {d}
      /\ Len(d.queue) = b.rx_num /\ InRange(b) /\ RunObservers(b.observers, d.queue, t) = view
  BY <1>1 DEF Waits
<1>3. Twin(Execute(e, cmd), Execute(d, cmd)) /\ Answer(d, cmd) = Answer(e, cmd) BY <1>1, <1>2, TwinStep
<1>4. Execute(d, cmd).queue = d.queue \o Answer(e, cmd) /\ Answer(e, cmd) \in Seq(Octets)
  <2>1. Twin(d, d) BY DEF Twin
  <2> QED BY <1>2, <1>3, <2>1, TwinStep
<1>5. PICK more \in Seq(Octets) : more = Answer(e, cmd) /\ M = Len(more) BY <1>4
<1>6. PICK rx \in Nat : rx = b.rx_num /\ rx + M <= max_rx_buffer_bytes BY <1>2, Counts
<1>7. <<ob>> \in Seq(Observers) /\ ob \in Observers BY DEF Fits
<1>8. PICK w : w = Noted(p, <<ob>>, M) OBVIOUS
<1>9. w \in Buffers /\ w.tx = b.tx \o <<cmd>> /\ w.rx_num = rx + M
  <2>1. p.rx_num + M <= max_rx_buffer_bytes BY <1>6
  <2>2. /\ Noted(p, <<ob>>, M) \in Buffers /\ Noted(p, <<ob>>, M).tx = p.tx /\ Noted(p, <<ob>>, M).rx_num = p.rx_num + M
    BY <1>7, <2>1, NotedType, Zenon
  <2> QED BY <1>6, <1>8, <2>2
<1>10. PICK new : Behind(new, ob, rx) /\ w.observers = b.observers \o <<new>>
  <2>1. \E new : /\ Behind(new, ob, p.rx_num)
                 /\ \A rx_bytes : Noted(p, <<ob>>, rx_bytes).observers = p.observers \o <<new>>
    BY <1>7, NotedOne, Zenon
  <2> QED BY <1>6, <1>8, <2>1, Zenon
<1>11. Executed(c, w.tx) = {Execute(d, cmd)}
  <2>1. b.tx \in Seq(Commands) BY <1>2 DEF Buffers
  <2>2. c \in Chips /\ Executed(c, b.tx) = {d} BY <1>2
  <2>3. Executed(c, b.tx \o <<cmd>>) = {Execute(d, cmd)} BY ONLY cmd \in Commands, <2>1, <2>2, ExecutedMore
  <2> QED BY <1>9, <2>3, Zenon
<1>12. Execute(d, cmd) \in Chips BY <1>2, ExecuteType
<1>13. PICK queue \in Seq(Octets), obs \in Seq(Observers) :
         queue = d.queue /\ obs = b.observers /\ Len(queue) = rx /\ AllFit(obs, rx)
  BY <1>2, <1>6 DEF Chips, Buffers, InRange
<1>14. Execute(d, cmd).queue = queue \o more BY <1>4, <1>5, <1>13
<1>15. Len(queue \o more) = rx + M
  <2>1. Len(queue \o more) = Len(queue) + Len(more) OBVIOUS
  <2> QED BY <2>1, <1>5, <1>13
<1>16. InRange(w)
  <2>1. Fits(new, rx + M) BY <1>10, FitsBehind
  <2>2. AllFit(obs \o <<new>>, rx + M)
    <3>1. new \in Observers BY <1>10 DEF Behind
    <3> QED BY <1>13, <2>1, <3>1, OneMoreObserver, Zenon
  <2>3. w.rx_num # 0 BY <1>9
  <2> QED BY <1>9, <1>10, <1>13, <2>2, <2>3 DEF InRange
<1>17. RunObservers(w.observers, queue \o more, t) = Overlay(view, ob, more)
  <2>1. IsVector(t) BY <1>2
  <2>2. AllFit(obs, Len(queue)) BY <1>13
  <2>3. Fits(ob, Len(more)) BY <1>5
  <2>4. Behind(new, ob, Len(queue)) BY <1>10, <1>13
  <2>5. RunObservers(obs \o <<new>>, queue \o more, t) = Overlay(RunObservers(obs, queue, t), ob, more)
    BY ONLY obs \in Seq(Observers), queue \in Seq(Octets), more \in Seq(Octets),
            <2>1, <2>2, <2>3, <2>4, ObserveMore
  <2> QED BY <1>2, <1>10, <1>13, <2>5, Zenon
<1>18. Waits(w, c, t, Execute(d, cmd), Overlay(view, ob, more))
  BY <1>2, <1>9, <1>11, <1>12, <1>14, <1>15, <1>16, <1>17, Zenon DEF Waits
<1> QED BY <1>3, <1>5, <1>8, <1>9, <1>18, Zenon DEF Soon

\* What becomes of the pool.
LEMMA PoolKept ==
    ASSUME NEW b \in Buffers, NEW cmds, NEW size, NEW observers, NEW rx_bytes
    PROVE  Written(b, cmds, size).pool = b.pool /\ Noted(b, observers, rx_bytes).pool = b.pool
BY DEF Written, Noted, Buffers

LEMMA PoolGrows ==
    ASSUME NEW b \in Buffers, NEW c, NEW t, b.pool < PoolSize, NEW o \in pool_alloc(b, c, t)
    PROVE  o.err = "ok" /\ o.b.pool = b.pool + 1
<1>1. o = Outcome("ok", [b EXCEPT !.pool = @ + 1], c, t) BY DEF pool_alloc
<1>2. [b EXCEPT !.pool = @ + 1].pool = b.pool + 1 BY DEF Buffers
<1>3. PICK d : d = [b EXCEPT !.pool = @ + 1] OBVIOUS
<1>4. o = Outcome("ok", d, c, t) /\ d.pool = b.pool + 1 BY <1>1, <1>2, <1>3, Zenon
<1>5. o.err = "ok" /\ o.b = d BY ONLY <1>4, OutcomeFields
<1> QED BY <1>4, <1>5

\* A command that is not answered is appended.
LEMMA AppendSilent ==
    ASSUME NEW b, NEW c, NEW t, NEW e \in Chips, NEW view, Soon(b, c, t, e, view), NEW cmd \in Commands,
           Answer(e, cmd) = <<>>, NEW size \in Nat, size <= max_tx_buffer_bytes,
           NEW o \in mpsse_buffer_append(b, c, t, <<cmd>>, size, <<>>, 0)
    PROVE  Leaves(o, Execute(e, cmd), view, b.pool)
<1>1. PICK q \in Room(b, c, t, size, 0) : AppendEnd(q, o, <<cmd>>, size, <<>>, 0) BY AppendCases, Zenon
<1>2. 0 \in Nat /\ 0 <= max_rx_buffer_bytes BY Sizes
<1>3. /\ Leaves(q, e, view, b.pool)
      /\ q.err = "ok" => q.b.tx_num + size <= max_tx_buffer_bytes /\ q.b.rx_num + 0 <= max_rx_buffer_bytes
  BY ONLY size \in Nat, size <= max_tx_buffer_bytes, q \in Room(b, c, t, size, 0), Soon(b, c, t, e, view), <1>2, RoomSoon
<1>4. CASE q.err # "ok"
  <2>1. o = q BY <1>1, <1>4 DEF AppendEnd
  <2> QED BY <1>3, <1>4, <2>1 DEF Leaves
<1>5. CASE q.err = "ok"
  <2>1. Soon(q.b, q.c, q.t, e, view) /\ q.b \in Buffers /\ q.c \in Chips /\ q.b.pool = b.pool
    BY <1>3, <1>5 DEF Leaves, OutcomeOk
  <2>2. q.b.tx_num \in Nat /\ q.b.rx_num \in Nat /\ q.b.tx_num + size <= max_tx_buffer_bytes /\ q.b.rx_num + 0 <= max_rx_buffer_bytes
    BY <1>3, <1>5, <2>1, Counts
  <2>3. ~(q.b.tx_num + size > max_tx_buffer_bytes) /\ ~(q.b.rx_num + 0 > max_rx_buffer_bytes) BY <2>2, Sizes
  <2>4. o = Outcome("ok", Written(q.b, <<cmd>>, size), q.c, q.t) BY <1>1, <1>5, <2>3 DEF AppendEnd
  <2>5. Soon(Written(q.b, <<cmd>>, size), q.c, q.t, Execute(e, cmd), view)
    BY ONLY e \in Chips, cmd \in Commands, size \in Nat, Answer(e, cmd) = <<>>, <2>1, <2>2, WriteSilent
  <2>6. Written(q.b, <<cmd>>, size) \in Buffers BY <2>5 DEF Soon, Waits
  <2>7. OutcomeOk(o) BY <2>1, <2>4, <2>6, OutcomeIsOk DEF Errors
  <2>8. Written(q.b, <<cmd>>, size).pool = b.pool BY <2>1, PoolKept
  <2> QED BY <2>4, <2>5, <2>7, <2>8, OutcomeFields DEF Leaves
<1> QED BY <1>4, <1>5

\* A command whose answer ob copies is appended.
LEMMA AppendHeard ==
    ASSUME NEW b, NEW c, NEW t, NEW e \in Chips, NEW view, Soon(b, c, t, e, view), NEW cmd \in Commands,
           NEW M \in Nat, M > 0, M = Len(Answer(e, cmd)), NEW ob, Fits(ob, M), M <= max_rx_buffer_bytes,
           NEW size \in Nat, size <= max_tx_buffer_bytes, b.pool < PoolSize,
           NEW o \in mpsse_buffer_append(b, c, t, <<cmd>>, size, <<ob>>, M)
    PROVE  Leaves(o, Execute(e, cmd), Overlay(view, ob, Answer(e, cmd)), b.pool + 1)
<1>1. PICK q \in Room(b, c, t, size, M) : AppendEnd(q, o, <<cmd>>, size, <<ob>>, M) BY AppendCases, Zenon
<1>2. /\ Leaves(q, e, view, b.pool)
      /\ q.err = "ok" => q.b.tx_num + size <= max_tx_buffer_bytes /\ q.b.rx_num + M <= max_rx_buffer_bytes
  BY ONLY size \in Nat, size <= max_tx_buffer_bytes, M \in Nat, M <= max_rx_buffer_bytes,
          q \in Room(b, c, t, size, M), Soon(b, c, t, e, view), RoomSoon
<1>3. CASE q.err # "ok"
  <2>1. o = q BY <1>1, <1>3 DEF AppendEnd
  <2> QED BY <1>2, <1>3, <2>1 DEF Leaves
<1>4. CASE q.err = "ok"
  <2>1. Soon(q.b, q.c, q.t, e, view) /\ q.b \in Buffers /\ q.c \in Chips /\ q.b.pool = b.pool
    BY <1>2, <1>4 DEF Leaves, OutcomeOk
  <2>2. q.b.tx_num \in Nat /\ q.b.rx_num \in Nat /\ q.b.tx_num + size <= max_tx_buffer_bytes /\ q.b.rx_num + M <= max_rx_buffer_bytes
    BY <1>2, <1>4, <2>1, Counts
  <2>3. ~(q.b.tx_num + size > max_tx_buffer_bytes) /\ ~(q.b.rx_num + M > max_rx_buffer_bytes) /\ M # 0 BY <2>2, Sizes
  <2>4. PICK w \in Buffers : /\ w = Written(q.b, <<cmd>>, size) /\ w.tx = q.b.tx \o <<cmd>>
                             /\ w.rx_num = q.b.rx_num /\ w.observers = q.b.observers /\ w.pool = b.pool
    <3>1. <<cmd>> \in Seq(Commands) OBVIOUS
    <3>2. /\ Written(q.b, <<cmd>>, size) \in Buffers /\ Written(q.b, <<cmd>>, size).tx = q.b.tx \o <<cmd>>
          /\ Written(q.b, <<cmd>>, size).rx_num = q.b.rx_num /\ Written(q.b, <<cmd>>, size).observers = q.b.observers
      BY ONLY <3>1, size \in Nat, <2>1, <2>2, WrittenType
    <3>3. Written(q.b, <<cmd>>, size).pool = b.pool
      <4>1. q.b \in Buffers /\ q.b.pool = b.pool BY <2>1
      <4>2. Written(q.b, <<cmd>>, size).pool = q.b.pool BY ONLY <4>1, PoolKept
      <4> QED BY <4>1, <4>2
    <3> QED BY <3>2, <3>3
  <2>5. PICK p \in pool_alloc(w, q.c, q.t) :
                  \/ p.err # "ok" /\ o = p
                  \/ p.err = "ok" /\ o = Outcome("ok", Noted(p.b, <<ob>>, M), p.c, p.t)
    BY <1>1, <1>4, <2>3, <2>4 DEF AppendEnd
  <2>6. p.err = "ok" /\ p.b.pool = b.pool + 1
    <3>1. w.pool < PoolSize BY <2>4
    <3> QED BY <2>4, <3>1, PoolGrows
  <2>7. p.b \in Buffers /\ p.c = q.c /\ p.t = q.t /\ p.b.tx = w.tx /\ p.b.rx_num = w.rx_num /\ p.b.observers = w.observers
    BY <2>1, PoolType DEF OutcomeOk
  <2>8. o = Outcome("ok", Noted(p.b, <<ob>>, M), q.c, q.t) BY <2>5, <2>6, <2>7
  <2>9. /\ Noted(p.b, <<ob>>, M) \in Buffers
        /\ Soon(Noted(p.b, <<ob>>, M), q.c, q.t, Execute(e, cmd), Overlay(view, ob, Answer(e, cmd)))
    <3>1. p.b.tx = q.b.tx \o <<cmd>> /\ p.b.rx_num = q.b.rx_num /\ p.b.observers = q.b.observers BY <2>4, <2>7
    <3>2. p.b \in Buffers BY <2>7
    <3> QED BY ONLY e \in Chips, cmd \in Commands, M \in Nat, M > 0, M = Len(Answer(e, cmd)), Fits(ob, M),
               <2>1, <2>2, <3>1, <3>2, WriteHeard
  <2>10. OutcomeOk(o) BY <2>1, <2>8, <2>9, OutcomeIsOk DEF Errors
  <2>11. Noted(p.b, <<ob>>, M).pool = b.pool + 1 BY <2>6, <2>7, PoolKept
  <2> QED BY <2>8, <2>9, <2>10, <2>11, OutcomeFields DEF Leaves
<1> QED BY <1>3, <1>4

\* ... after making room once more.
LEMMA ReadbackHeard ==
    ASSUME NEW b, NEW c, NEW t, NEW e \in Chips, NEW view, Soon(b, c, t, e, view), NEW cmd \in Commands,
           NEW M \in Nat, M > 0, M = Len(Answer(e, cmd)), NEW ob, Fits(ob, M), M <= max_rx_buffer_bytes,
           NEW size \in Nat, size <= max_tx_buffer_bytes, b.pool < PoolSize,
           NEW o \in mpsse_buffer_add_write_with_readback(b, c, t, <<cmd>>, size, ob, M)
    PROVE  Leaves(o, Execute(e, cmd), Overlay(view, ob, Answer(e, cmd)), b.pool + 1)
<1>1. PICK q \in mpsse_buffer_ensure_can_append(b, c, t, size, M) :
             \/ q.err # "ok" /\ o = q
             \/ q.err = "ok" /\ o \in mpsse_buffer_append(q.b, q.c, q.t, <<cmd>>, size, <<ob>>, M)
  BY ONLY o \in mpsse_buffer_add_write_with_readback(b, c, t, <<cmd>>, size, ob, M), ReadbackCases
<1>2. Leaves(q, e, view, b.pool)
  <2>1. CASE q \in mpsse_buffer_flush(b, c, t) BY <2>1, FlushSoon
  <2>2. CASE q = Outcome("ok", b, c, t) BY <2>2, StaysSoon
  <2> QED BY <1>1, <2>1, <2>2 DEF mpsse_buffer_ensure_can_append
<1>3. CASE q.err # "ok" BY <1>1, <1>2, <1>3 DEF Leaves
<1>4. CASE q.err = "ok"
  <2>1. Soon(q.b, q.c, q.t, e, view) /\ q.b.pool = b.pool BY <1>2, <1>4 DEF Leaves
  <2>2. q.b.pool < PoolSize BY <2>1
  <2>3. o \in mpsse_buffer_append(q.b, q.c, q.t, <<cmd>>, size, <<ob>>, M) BY <1>1, <1>4
  <2>4. Leaves(o, Execute(e, cmd), Overlay(view, ob, Answer(e, cmd)), q.b.pool + 1)
    BY ONLY e \in Chips, cmd \in Commands, M \in Nat, M > 0, M = Len(Answer(e, cmd)), Fits(ob, M), M <= max_rx_buffer_bytes,
            size \in Nat, size <= max_tx_buffer_bytes, <2>1, <2>2, <2>3, AppendHeard
  <2> QED BY <2>1, <2>4
<1> QED BY <1>3, <1>4

-----------------------------------------------------------------------------
(* What the commands of a scan do.  The clocks of a chip that is clocked through v. *)

Along(s, v) == jtag_path(jtag_next_state, s, v)
InShift(path, m) == {i \in 0 .. m - 1 : IsShift(path[i])}
ShiftBehind(path, m, n) == {m + k : k \in {j \in 0 .. n - 1 : IsShift(path[j])}}

Tracks(e, v) ==
    /\ e.clocks \in 0 .. Len(v) /\ e.ordered /\ e.tap = Along(e.began, v)[e.clocks]
    /\ e.shifted = InShift(Along(e.began, v), e.clocks)

\* The levels are the bits of v from c on.
Follows(w, v, c) == w \in Seq({0, 1}) /\ c + Len(w) <= Len(v) /\ \A k \in 1 .. Len(w) : w[k] = v[c + k]

LEMMA ShiftMore ==
    ASSUME NEW m \in Nat, NEW n \in Nat, NEW p, NEW q, \A k \in 0 .. n - 1 : q[k] = p[m + k]
    PROVE  InShift(p, m) \cup ShiftBehind(q, m, n) = InShift(p, m + n)
<1> DEFINE A == {i \in 0 .. m - 1 : IsShift(p[i])}
           B == {m + k : k \in {j \in 0 .. n - 1 : IsShift(q[j])}}
           C == {i \in 0 .. m + n - 1 : IsShift(p[i])}
<1>1. ASSUME NEW i \in A PROVE i \in C BY <1>1
<1>2. ASSUME NEW i \in B PROVE i \in C
  <2>1. PICK k \in 0 .. n - 1 : IsShift(q[k]) /\ i = m + k BY <1>2
  <2>2. m + k \in 0 .. m + n - 1 OBVIOUS
  <2> QED BY <2>1, <2>2
<1>3. ASSUME NEW i \in C PROVE i \in A \/ i \in B
  <2>1. i \in 0 .. m + n - 1 /\ IsShift(p[i]) OBVIOUS
  <2>2. CASE i < m BY <2>1, <2>2
  <2>3. CASE ~(i < m)
    <3>1. PICK k \in 0 .. n - 1 : i = m + k
      <4>1. i - m \in 0 .. n - 1 /\ i = m + (i - m) BY <2>1, <2>3
      <4> QED BY <4>1
    <3>2. IsShift(q[k]) BY <2>1, <3>1
    <3> QED BY <3>1, <3>2
  <2> QED BY <2>2, <2>3
<1> HIDE DEF A, B, C
<1>4. A \cup B = C BY <1>1, <1>2, <1>3
<1> QED BY <1>4 DEF A, B, C, InShift, ShiftBehind

LEMMA TracksClocks ==
    ASSUME NEW e \in Chips, NEW v \in Seq({0, 1}), Tracks(e, v), NEW cmd \in Commands,
           cmd.kind \in {"tms", "last", "bits", "data"}, e.expects = Due(cmd),
           Follows(Levels(e, cmd), v, e.clocks), \A k \in 1 .. Len(cmd.tdi) : cmd.tdi[k] = e.clocks + k - 1
    PROVE  LET f == Execute(e, cmd)
           IN /\ Tracks(f, v) /\ f.clocks = e.clocks + Clocked(cmd) /\ f.expects = 0 /\ f.pin = v[f.clocks]
              /\ f.agreed = e.agreed /\ f.began = e.began
<1>1. PICK s \in JtagStates, m \in Nat, n \in Nat \ {0}, w \in Seq({0, 1}) :
        s = e.began /\ m = e.clocks /\ n = Clocked(cmd) /\ w = Levels(e, cmd) /\ Len(w) = n
  BY LevelsType DEF Chips
<1>2. PICK p : p = Along(s, v) OBVIOUS
<1>3. PICK q : q = jtag_path(jtag_next_state, p[m], w) OBVIOUS
<1>4. m + n <= Len(v) /\ \A k \in 1 .. n : w[k] = v[m + k] BY <1>1 DEF Follows
<1>5. \A k \in 0 .. n : q[k] = p[m + k]
  <2>1. m + Len(w) <= Len(v) /\ \A k \in 1 .. Len(w) : w[k] = v[m + k] BY <1>1, <1>4
  <2>2. \A k \in 0 .. Len(w) : jtag_path(jtag_next_state, Along(s, v)[m], w)[k] = Along(s, v)[m + k]
    BY ONLY s \in JtagStates, m \in Nat, w \in Seq({0, 1}), v \in Seq({0, 1}), <2>1, PathJoin DEF Along
  <2> QED BY <1>1, <1>2, <1>3, <2>2
<1>6. e.tap = p[m] /\ e.ordered /\ e.shifted = InShift(p, m) BY <1>1, <1>2 DEF Tracks
<1>7. PICK f : f = Execute(e, cmd) OBVIOUS
<1>8. /\ f.expects = 0 /\ f.clocks = m + n /\ f.pin = w[n] /\ f.tap = q[n] /\ f.agreed = e.agreed /\ f.began = s
      /\ f.shifted = e.shifted \cup ShiftBehind(q, m, n)
      /\ f.ordered = (e.ordered /\ \A k \in 1 .. Len(cmd.tdi) : cmd.tdi[k] = e.clocks + k - 1)
  <2>1. q = jtag_path(jtag_next_state, e.tap, Levels(e, cmd)) BY <1>1, <1>3, <1>6
  <2>2. LET at == jtag_path(jtag_next_state, e.tap, Levels(e, cmd))
        IN /\ f.expects = 0 /\ f.clocks = e.clocks + Clocked(cmd) /\ f.pin = Levels(e, cmd)[Clocked(cmd)] /\ f.tap = at[Clocked(cmd)]
           /\ f.agreed = e.agreed /\ f.began = e.began
           /\ f.shifted = e.shifted \cup {e.clocks + k : k \in {j \in 0 .. Clocked(cmd) - 1 : IsShift(at[j])}}
           /\ f.ordered = (e.ordered /\ \A k \in 1 .. Len(cmd.tdi) : cmd.tdi[k] = e.clocks + k - 1)
    BY <1>7, ExecuteClocks, Zenon
  <2> QED BY <1>1, <2>1, <2>2, Zenon DEF ShiftBehind
<1>9. f.ordered BY <1>6, <1>8
<1>10. f.shifted = InShift(p, m + n)
  <2>1. \A k \in 0 .. n - 1 : q[k] = p[m + k] BY <1>5
  <2>2. InShift(p, m) \cup ShiftBehind(q, m, n) = InShift(p, m + n) BY <2>1, ShiftMore
  <2> QED BY <1>6, <1>8, <2>2, Zenon
<1>11. f.tap = Along(s, v)[m + n] BY <1>2, <1>5, <1>8
<1>12. m + n \in 0 .. Len(v)
  <2>1. Len(v) \in Nat OBVIOUS
  <2> QED BY <1>4, <2>1
<1>13. Tracks(f, v) BY <1>2, <1>8, <1>9, <1>10, <1>11, <1>12 DEF Tracks
<1>14. f.pin = v[m + n] BY <1>4, <1>8
<1> QED BY <1>1, <1>7, <1>8, <1>13, <1>14

\* Each bit from t on that is sampled goes to its own place.
Own(view, t, n) == [i \in DOMAIN view |-> IF i \in t .. t + n - 1 THEN i ELSE view[i]]

LEMMA CopierFields ==
    ASSUME NEW from, NEW to, NEW num
    PROVE  LET o == Copier(from, to, num) IN o.from = from /\ o.to = to /\ o.num = num
BY DEF Copier

LEMMA FewSampled ==
    ASSUME NEW t \in Nat, NEW n \in 1 .. 7, NEW view
    PROVE  /\ Len(Sampled(t, n)) = 1 /\ Fits(Copier(8 - n, t, n), 1)
           /\ Overlay(view, Copier(8 - n, t, n), Sampled(t, n)) = Own(view, t, n)
<1> DEFINE byte == [j \in 0 .. 7 |-> IF j >= 8 - n THEN t + j - (8 - n) ELSE Junk]
           o == Copier(8 - n, t, n)
<1>1. Sampled(t, n) = <<byte>> BY DEF Sampled
<1>2. o.from = 8 - n /\ o.to = t /\ o.num = n BY CopierFields
<1>3. o \in Observers
  <2>1. 8 - n \in Int /\ t \in Int /\ n \in Int OBVIOUS
  <2> QED BY <2>1, CopierType
<1> HIDE DEF o
<1>4. Fits(o, 1) BY <1>2, <1>3 DEF Fits
<1>5. ASSUME NEW i, Covers(o, i)
      PROVE  Sampled(t, n)[Source(o, i) \div 8 + 1][Source(o, i) % 8] = i
  <2>1. i \in t .. t + n - 1 BY <1>2, <1>5 DEF Covers
  <2>2. PICK k \in Int : k = 8 - n + i - t BY <2>1
  <2>3. k \in 8 - n .. 7 /\ k \in 0 .. 7 /\ t + k - (8 - n) = i BY <2>1, <2>2
  <2>4. k \div 8 = 0 /\ k % 8 = k BY <2>3
  <2>5. Source(o, i) = k BY <1>2, <2>2 DEF Source
  <2>6. byte[k] = i BY <2>3
  <2> HIDE DEF byte
  <2>7. <<byte>>[0 + 1] = byte OBVIOUS
  <2> QED BY <1>1, <2>4, <2>5, <2>6, <2>7
<1>6. \A i : Covers(o, i) <=> i \in t .. t + n - 1 BY <1>2 DEF Covers
<1>7. Overlay(view, o, Sampled(t, n)) = Own(view, t, n) BY <1>5, <1>6, Zenon DEF Overlay, Own
<1>8. Len(Sampled(t, n)) = 1
  <2> HIDE DEF byte
  <2> QED BY <1>1
<1> QED BY <1>4, <1>7, <1>8 DEF o

LEMMA BytePlace ==
    ASSUME NEW x \in Nat, NEW m \in Nat, x < 8 * m
    PROVE  x \div 8 + 1 \in 1 .. m /\ x % 8 \in 0 .. 7 /\ 8 * (x \div 8 + 1 - 1) + (x % 8) = x
OBVIOUS

LEMMA WholeSampled ==
    ASSUME NEW t \in Nat, NEW m \in Nat, m > 0, NEW view
    PROVE  /\ Len(Sampled(t, 8 * m)) = m /\ Fits(Copier(0, t, 8 * m), m)
           /\ Overlay(view, Copier(0, t, 8 * m), Sampled(t, 8 * m)) = Own(view, t, 8 * m)
<1> DEFINE bytes == [k \in 1 .. m |-> [j \in 0 .. 7 |-> t + 8 * (k - 1) + j]]
           o == Copier(0, t, 8 * m)
<1>1. Sampled(t, 8 * m) = bytes
  <2>1. ~(8 * m < 8) /\ (8 * m) \div 8 = m OBVIOUS
  <2> QED BY <2>1 DEF Sampled
<1>2. o.from = 0 /\ o.to = t /\ o.num = 8 * m BY CopierFields
<1>3. o \in Observers
  <2>1. 0 \in Int /\ t \in Int /\ 8 * m \in Int OBVIOUS
  <2> QED BY <2>1, CopierType
<1> HIDE DEF o
<1>4. Fits(o, m)
  <2>1. 0 + 8 * m <= 8 * m /\ 8 * m \in Nat OBVIOUS
  <2> QED BY <1>2, <1>3, <2>1 DEF Fits
<1>5. ASSUME NEW i, Covers(o, i)
      PROVE  Sampled(t, 8 * m)[Source(o, i) \div 8 + 1][Source(o, i) % 8] = i
  <2>1. i \in t .. t + 8 * m - 1 BY <1>2, <1>5 DEF Covers
  <2>2. PICK x \in Nat : x = i - t /\ x < 8 * m /\ i = t + x
    <3>1. i - t \in Nat /\ i - t < 8 * m /\ i = t + (i - t) BY <2>1
    <3> QED BY <3>1
  <2>3. Source(o, i) = x
    <3>1. 0 + i - t = i - t BY <2>1
    <3> QED BY <1>2, <2>2, <3>1 DEF Source
  <2>4. PICK k \in 1 .. m, j \in 0 .. 7 : k = x \div 8 + 1 /\ j = x % 8 /\ 8 * (k - 1) + j = x BY <2>2, BytePlace
  <2>5. bytes[k][j] = t + 8 * (k - 1) + j OBVIOUS
  <2>6. t + 8 * (k - 1) + j = i BY <2>2, <2>4
  <2> HIDE DEF bytes
  <2> QED BY <1>1, <2>3, <2>4, <2>5, <2>6
<1>6. \A i : Covers(o, i) <=> i \in t .. t + 8 * m - 1 BY <1>2 DEF Covers
<1>7. Overlay(view, o, Sampled(t, 8 * m)) = Own(view, t, 8 * m)
  <2>1. PICK n : n = 8 * m OBVIOUS
  <2>2. /\ \A i : Covers(o, i) => Sampled(t, n)[Source(o, i) \div 8 + 1][Source(o, i) % 8] = i
        /\ \A i : Covers(o, i) <=> i \in t .. t + n - 1
    BY <1>5, <1>6, <2>1
  <2>3. ASSUME NEW i \in DOMAIN view
        PROVE  (IF Covers(o, i) THEN Sampled(t, n)[Source(o, i) \div 8 + 1][Source(o, i) % 8] ELSE view[i])
                 = IF i \in t .. t + n - 1 THEN i ELSE view[i]
    BY <2>2, Zenon
  <2>4. Overlay(view, o, Sampled(t, n)) = Own(view, t, n) BY <2>3, Zenon DEF Overlay, Own
  <2> QED BY <2>1, <2>4
<1>8. Len(Sampled(t, 8 * m)) = m
  <2> DEFINE byte(k) == [j \in 0 .. 7 |-> t + 8 * (k - 1) + j]
  <2>1. bytes = [k \in 1 .. m |-> byte(k)] OBVIOUS
  <2> HIDE DEF byte
  <2>2. Len([k \in 1 .. m |-> byte(k)]) = m OBVIOUS
  <2> QED BY <1>1, <2>1, <2>2
<1> QED BY <1>4, <1>7, <1>8 DEF o

\* The TDO vector when the bits before k have been clocked along path.
FilledTo(path, len, k) == [i \in 0 .. len - 1 |-> IF i < k /\ IsShift(path[i]) THEN i ELSE Junk]

LEMMA FilledByShift ==
    ASSUME NEW path, NEW len \in Nat, NEW k \in Nat, NEW n \in Nat, \A i \in k .. k + n - 1 : IsShift(path[i])
    PROVE  Own(FilledTo(path, len, k), k, n) = FilledTo(path, len, k + n)
<1>1. DOMAIN FilledTo(path, len, k) = 0 .. len - 1 BY DEF FilledTo
<1>2. ASSUME NEW i \in 0 .. len - 1
      PROVE  (IF i \in k .. k + n - 1 THEN i ELSE FilledTo(path, len, k)[i])
               = IF i < k + n /\ IsShift(path[i]) THEN i ELSE Junk
  <2>1. FilledTo(path, len, k)[i] = IF i < k /\ IsShift(path[i]) THEN i ELSE Junk BY DEF FilledTo
  <2>2. CASE i \in k .. k + n - 1
    <3>1. i < k + n /\ IsShift(path[i]) BY <2>2
    <3> QED BY <2>2, <3>1
  <2>3. CASE i \notin k .. k + n - 1
    <3>1. i < k + n <=> i < k BY <2>3
    <3> QED BY <2>1, <2>3, <3>1, Zenon
  <2> QED BY <2>2, <2>3
<1> QED BY <1>1, <1>2, Zenon DEF Own, FilledTo

LEMMA FilledElsewhere ==
    ASSUME NEW path, NEW len \in Nat, NEW k \in Nat, NEW n \in Nat, \A i \in k .. k + n - 1 : ~IsShift(path[i])
    PROVE  FilledTo(path, len, k) = FilledTo(path, len, k + n)
<1>1. ASSUME NEW i \in 0 .. len - 1
      PROVE  (i < k /\ IsShift(path[i])) <=> (i < k + n /\ IsShift(path[i]))
  <2>1. CASE i \in k .. k + n - 1
    <3>1. ~(i < k) /\ ~IsShift(path[i]) BY <2>1
    <3> QED BY <3>1
  <2>2. CASE i \notin k .. k + n - 1
    <3>1. i < k + n <=> i < k BY <2>2
    <3> QED BY <3>1
  <2> QED BY <2>1, <2>2
<1> QED BY <1>1, Zenon DEF FilledTo

-----------------------------------------------------------------------------
(* A chip along the scan of v, which the adapter thinks began in state s. *)

\* TMS is low at the clock that leads to a Shift state; from a Shift state it leads
\* to no other.
LEMMA ShiftLow ==
    ASSUME NEW s \in JtagStates, NEW b \in {0, 1}
    PROVE  /\ IsShift(jtag_step(jtag_next_state, s, b)) => b = 0
           /\ IsShift(s) /\ b = 0 => IsShift(jtag_step(jtag_next_state, s, b))
<1>1. b = 1 => ~IsShift(jtag_step(jtag_next_state, s, 1)) BY DEF IsShift, jtag_step, jtag_next_state, JtagStates
<1>2. IsShift(s) => IsShift(jtag_step(jtag_next_state, s, 0)) BY DEF IsShift, jtag_step, jtag_next_state, JtagStates
<1> QED BY <1>1, <1>2

LEMMA AlongSteps ==
    ASSUME NEW s \in JtagStates, NEW v \in Seq({0, 1})
    PROVE  /\ \A k \in 0 .. Len(v) : Along(s, v)[k] \in JtagStates
           /\ Along(s, v)[0] = s
           /\ \A k \in 1 .. Len(v) : /\ IsShift(Along(s, v)[k]) => v[k] = 0
                                     /\ IsShift(Along(s, v)[k - 1]) /\ v[k] = 0 => IsShift(Along(s, v)[k])
<1>1. PICK p : p = Along(s, v) OBVIOUS
<1>2. p \in [0 .. Len(v) -> JtagStates] /\ Steps(s, v, Len(v), p) BY <1>1, PathIsPath DEF Path, Along
<1>3. p[0] = s /\ \A k \in 1 .. Len(v) : p[k] = jtag_step(jtag_next_state, p[k - 1], v[k]) BY <1>2 DEF Steps
<1>4. ASSUME NEW k \in 1 .. Len(v)
      PROVE  (IsShift(p[k]) => v[k] = 0) /\ (IsShift(p[k - 1]) /\ v[k] = 0 => IsShift(p[k]))
  <2>1. k - 1 \in 0 .. Len(v) OBVIOUS
  <2>2. PICK a \in JtagStates, b \in {0, 1} : a = p[k - 1] /\ b = v[k] BY <1>2, <2>1
  <2>3. p[k] = jtag_step(jtag_next_state, a, b) BY <1>3, <2>2
  <2>4. /\ IsShift(jtag_step(jtag_next_state, a, b)) => b = 0
        /\ IsShift(a) /\ b = 0 => IsShift(jtag_step(jtag_next_state, a, b))
    BY ShiftLow
  <2> QED BY <2>2, <2>3, <2>4
<1>5. \A k \in 0 .. Len(v) : p[k] \in JtagStates BY <1>2
<1> QED BY <1>1, <1>3, <1>4, <1>5

Rides(e, s, v, k) ==
    /\ Tracks(e, v) /\ e.clocks = k /\ e.expects = 0 /\ e.agreed = (e.began = s)
    /\ IsShift(Along(s, v)[k]) => e.pin = 0

LEMMA RidesOn ==
    ASSUME NEW s \in JtagStates, NEW v \in Seq({0, 1}), NEW e \in Chips, NEW k \in Nat,
           Tracks(e, v), e.clocks = k, e.agreed = (e.began = s),
           NEW cmd \in Commands, cmd.kind \in {"tms", "last", "bits", "data"}, e.expects = Due(cmd),
           Follows(Levels(e, cmd), v, k), \A i \in 1 .. Len(cmd.tdi) : cmd.tdi[i] = k + i - 1
    PROVE  Execute(e, cmd) \in Chips /\ Rides(Execute(e, cmd), s, v, k + Clocked(cmd))
<1>1. PICK f : f = Execute(e, cmd) OBVIOUS
<1>2. /\ Tracks(f, v) /\ f.clocks = e.clocks + Clocked(cmd) /\ f.expects = 0 /\ f.pin = v[f.clocks]
      /\ f.agreed = e.agreed /\ f.began = e.began
  <2>1. Follows(Levels(e, cmd), v, e.clocks) /\ \A i \in 1 .. Len(cmd.tdi) : cmd.tdi[i] = e.clocks + i - 1 OBVIOUS
  <2>2. LET g == Execute(e, cmd)
        IN /\ Tracks(g, v) /\ g.clocks = e.clocks + Clocked(cmd) /\ g.expects = 0 /\ g.pin = v[g.clocks]
           /\ g.agreed = e.agreed /\ g.began = e.began
    BY ONLY v \in Seq({0, 1}), e \in Chips, Tracks(e, v), cmd \in Commands,
            cmd.kind \in {"tms", "last", "bits", "data"}, e.expects = Due(cmd), <2>1, TracksClocks
  <2> QED BY <1>1, <2>2
<1>3. PICK m \in Nat : m = f.clocks /\ m = k + Clocked(cmd) /\ m \in 1 .. Len(v)
  <2>1. Clocked(cmd) \in Nat \ {0} /\ Len(v) \in Nat BY LevelsType
  <2>2. f.clocks \in 0 .. Len(v) BY <1>2 DEF Tracks
  <2> QED BY <1>2, <2>1, <2>2
<1>4. IsShift(Along(s, v)[m]) => f.pin = 0
  <2>1. IsShift(Along(s, v)[m]) => v[m] = 0 BY <1>3, AlongSteps
  <2> QED BY <1>2, <1>3, <2>1
<1>5. f \in Chips BY <1>1, ExecuteType
<1> QED BY <1>1, <1>2, <1>3, <1>4, <1>5 DEF Rides

LEMMA CommandFields ==
    ASSUME NEW kind, NEW tdi, NEW bits, NEW octets
    PROVE  LET cmd == Command(kind, tdi, bits, octets)
           IN cmd.kind = kind /\ cmd.tdi = tdi /\ cmd.tms = bits /\ cmd.octets = octets
BY DEF Command

LEMMA SubSeqFollows ==
    ASSUME NEW v \in Seq({0, 1}), NEW k \in Nat, NEW n \in Nat, k + n <= Len(v)
    PROVE  Follows(SubSeq(v, k + 1, k + n), v, k) /\ Len(SubSeq(v, k + 1, k + n)) = n
<1>1. PICK len \in Nat : len = Len(v) OBVIOUS
<1>2. k + 1 \in 1 .. len + 1 /\ k + n \in 0 .. len /\ (k + n) - (k + 1) + 1 = n BY <1>1
<1>3. SubSeq(v, k + 1, k + n) \in Seq({0, 1}) BY <1>1, <1>2
<1>4. Len(SubSeq(v, k + 1, k + n)) = n BY <1>1, <1>2
<1>5. \A i \in 1 .. n : SubSeq(v, k + 1, k + n)[i] = v[k + i]
  <2>1. \A i \in 1 .. n : SubSeq(v, k + 1, k + n)[i] = v[(k + 1) + i - 1] BY <1>1, <1>2, <1>4
  <2>2. \A i \in 1 .. n : (k + 1) + i - 1 = k + i OBVIOUS
  <2> QED BY <2>1, <2>2
<1> QED BY <1>3, <1>4, <1>5 DEF Follows

\* A command of TMS bits.
LEMMA TmsRides ==
    ASSUME NEW s \in JtagStates, NEW v \in Seq({0, 1}), NEW e \in Chips, NEW k \in Nat, Rides(e, s, v, k),
           NEW n \in Nat, n > 0, k + n <= Len(v), NEW cmd, cmd = Command("tms", <<>>, SubSeq(v, k + 1, k + n), 0)
    PROVE  /\ cmd \in Commands /\ Answer(e, cmd) = <<>>
           /\ Execute(e, cmd) \in Chips /\ Rides(Execute(e, cmd), s, v, k + n)
<1>1. PICK bits \in Seq({0, 1}) : bits = SubSeq(v, k + 1, k + n) /\ Follows(bits, v, k) /\ Len(bits) = n
  <2>1. Follows(SubSeq(v, k + 1, k + n), v, k) /\ Len(SubSeq(v, k + 1, k + n)) = n BY SubSeqFollows
  <2>2. PICK w : w = SubSeq(v, k + 1, k + n) OBVIOUS
  <2>3. Follows(w, v, k) /\ Len(w) = n BY <2>1, <2>2, Zenon
  <2>4. w \in Seq({0, 1}) BY <2>3 DEF Follows
  <2> QED BY <2>2, <2>3, <2>4, Zenon
<1>2. cmd.kind = "tms" /\ cmd.tdi = <<>> /\ cmd.tms = bits /\ cmd.octets = 0
  <2>1. cmd = Command("tms", <<>>, bits, 0) BY <1>1, Zenon
  <2> QED BY ONLY <2>1, CommandFields
<1>3. bits # <<>> BY <1>1
<1>4. cmd \in Commands
  <2>1. <<>> \in Seq(Int) /\ "tms" \in Kinds /\ 0 \in Nat BY DEF Kinds
  <2>2. Command("tms", <<>>, bits, 0) \in Commands BY ONLY bits \in Seq({0, 1}), <1>3, <2>1, CommandType
  <2> QED BY <1>1, <2>2
<1>5. Answer(e, cmd) = <<>> BY <1>2 DEF Answer
<1>6. Levels(e, cmd) = bits /\ Clocked(cmd) = n /\ Due(cmd) = 0 BY <1>1, <1>2, <1>3 DEF Levels, Clocked, Due
<1>7. Tracks(e, v) /\ e.clocks = k /\ e.expects = 0 /\ e.agreed = (e.began = s) BY DEF Rides
<1>8. \A i \in 1 .. Len(cmd.tdi) : cmd.tdi[i] = k + i - 1 BY <1>2
<1>9. cmd.kind \in {"tms", "last", "bits", "data"} /\ e.expects = Due(cmd) /\ Follows(Levels(e, cmd), v, k)
  BY <1>1, <1>2, <1>6, <1>7
<1>10. Execute(e, cmd) \in Chips /\ Rides(Execute(e, cmd), s, v, k + Clocked(cmd))
  BY ONLY s \in JtagStates, v \in Seq({0, 1}), e \in Chips, k \in Nat, <1>4, <1>7, <1>8, <1>9, RidesOn
<1> QED BY <1>4, <1>5, <1>6, <1>10

\* While the adapter is in a Shift state and stays there, the level of TMS stays low.
LEMMA LowFollows ==
    ASSUME NEW s \in JtagStates, NEW v \in Seq({0, 1}), NEW k \in Nat, NEW n \in Nat, k + n <= Len(v),
           \A i \in k .. k + n : IsShift(Along(s, v)[i]), NEW pin, pin = 0
    PROVE  Follows([i \in 1 .. n |-> pin], v, k)
<1>1. [i \in 1 .. n |-> pin] \in Seq({0, 1}) OBVIOUS
<1>2. Len([i \in 1 .. n |-> pin]) = n OBVIOUS
<1>3. ASSUME NEW i \in 1 .. n PROVE v[k + i] = 0
  <2>1. k + i \in 1 .. Len(v) /\ k + i \in k .. k + n
    <3>1. Len(v) \in Nat OBVIOUS
    <3> QED BY <3>1
  <2>2. IsShift(Along(s, v)[k + i]) BY <2>1
  <2> QED BY <2>1, <2>2, AlongSteps
<1> QED BY <1>1, <1>2, <1>3 DEF Follows

LEMMA PositionsOwn ==
    ASSUME NEW k \in Nat, NEW n \in Nat
    PROVE  Len(Positions(k, n)) = n /\ \A i \in 1 .. Len(Positions(k, n)) : Positions(k, n)[i] = k + i - 1
<1>1. k \in Int OBVIOUS
<1>2. Len(Positions(k, n)) = n BY <1>1, PositionsType
<1> QED BY <1>2 DEF Positions

\* Bits or bytes of TDI: the whole run but its last bit.
LEMMA BitsRide ==
    ASSUME NEW s \in JtagStates, NEW v \in Seq({0, 1}), NEW e \in Chips, NEW k \in Nat, NEW octets \in Nat,
           Tracks(e, v), e.clocks = k, e.expects = octets, e.agreed = (e.began = s), e.pin = 0,
           NEW n \in Nat, n > 0, k + n <= Len(v), \A i \in k .. k + n : IsShift(Along(s, v)[i]),
           NEW kind, \/ kind = "bits" /\ octets = 0
                     \/ kind = "data",
           NEW cmd, cmd = Command(kind, Positions(k, n), <<>>, octets)
    PROVE  /\ cmd \in Commands /\ Answer(e, cmd) = Sampled(k, n)
           /\ Execute(e, cmd) \in Chips /\ Rides(Execute(e, cmd), s, v, k + n)
<1>1. cmd.kind = kind /\ cmd.tdi = Positions(k, n) /\ cmd.tms = <<>> /\ cmd.octets = octets BY CommandFields
<1>2. Positions(k, n) \in Seq(Int) /\ Len(Positions(k, n)) = n
  <2>1. k \in Int OBVIOUS
  <2> QED BY <2>1, PositionsType
<1>3. cmd \in Commands
  <2>1. kind \in Kinds /\ kind # "tms" /\ <<>> \in Seq({0, 1}) /\ Len(Positions(k, n)) > 0 BY <1>2 DEF Kinds
  <2>2. Command(kind, Positions(k, n), <<>>, octets) \in Commands BY ONLY octets \in Nat, <1>2, <2>1, CommandType
  <2> QED BY <2>2
<1>4. Clocked(cmd) = n /\ Due(cmd) = octets /\ Levels(e, cmd) = [i \in 1 .. n |-> e.pin]
  <2>1. Clocked(cmd) = n BY <1>1, <1>2 DEF Clocked
  <2>2. Due(cmd) = octets BY <1>1 DEF Due
  <2> QED BY <1>1, <2>1, <2>2 DEF Levels
<1>5. Follows(Levels(e, cmd), v, k)
  <2>1. Follows([i \in 1 .. n |-> e.pin], v, k)
    BY ONLY s \in JtagStates, v \in Seq({0, 1}), k \in Nat, n \in Nat, k + n <= Len(v), e.pin = 0,
            \A i \in k .. k + n : IsShift(Along(s, v)[i]), LowFollows
  <2> QED BY <1>4, <2>1
<1>6. Answer(e, cmd) = Sampled(k, n) BY <1>1, <1>4 DEF Answer
<1>7. \A i \in 1 .. Len(cmd.tdi) : cmd.tdi[i] = k + i - 1
  <2>1. \A i \in 1 .. Len(Positions(k, n)) : Positions(k, n)[i] = k + i - 1 BY PositionsOwn
  <2> QED BY <1>1, <2>1
<1>8. cmd.kind \in {"tms", "last", "bits", "data"} /\ e.expects = Due(cmd) BY <1>1, <1>4
<1>9. Execute(e, cmd) \in Chips /\ Rides(Execute(e, cmd), s, v, k + Clocked(cmd))
  BY ONLY s \in JtagStates, v \in Seq({0, 1}), e \in Chips, k \in Nat, Tracks(e, v), e.clocks = k, e.agreed = (e.began = s),
          <1>3, <1>5, <1>7, <1>8, RidesOn
<1> QED BY <1>3, <1>4, <1>6, <1>9

\* The last bit of a run, with its TMS bit.
LEMMA LastRides ==
    ASSUME NEW s \in JtagStates, NEW v \in Seq({0, 1}), NEW e \in Chips, NEW k \in Nat, Rides(e, s, v, k),
           k + 1 <= Len(v), NEW bit \in {0, 1}, bit = v[k + 1], NEW cmd, cmd = Command("last", <<k>>, <<bit>>, 0)
    PROVE  /\ cmd \in Commands /\ Answer(e, cmd) = Sampled(k, 1)
           /\ Execute(e, cmd) \in Chips /\ Rides(Execute(e, cmd), s, v, k + 1)
<1>1. cmd.kind = "last" /\ cmd.tdi = <<k>> /\ cmd.tms = <<bit>> /\ cmd.octets = 0 BY CommandFields
<1>2. <<k>> \in Seq(Int) /\ Len(<<k>>) = 1 /\ <<bit>> \in Seq({0, 1}) /\ Len(<<bit>>) = 1 /\ <<bit>> # <<>> OBVIOUS
<1>3. cmd \in Commands
  <2>1. "last" \in Kinds /\ 0 \in Nat BY DEF Kinds
  <2>2. Len(<<k>>) > 0 /\ Len(<<bit>>) = Len(<<k>>) BY <1>2
  <2>3. Command("last", <<k>>, <<bit>>, 0) \in Commands BY ONLY <1>2, <2>1, <2>2, CommandType
  <2> QED BY <2>3
<1>4. Clocked(cmd) = 1 /\ Due(cmd) = 0 /\ Levels(e, cmd) = <<bit>> BY <1>1, <1>2 DEF Clocked, Due, Levels
<1>5. Follows(Levels(e, cmd), v, k)
  <2>1. \A i \in 1 .. 1 : <<bit>>[i] = v[k + i] OBVIOUS
  <2> QED BY <1>2, <1>4, <2>1 DEF Follows
<1>6. Tracks(e, v) /\ e.clocks = k /\ e.expects = 0 /\ e.agreed = (e.began = s) BY DEF Rides
<1>7. Answer(e, cmd) = Sampled(k, 1) BY <1>1, <1>4, <1>6 DEF Answer
<1>8. \A i \in 1 .. Len(cmd.tdi) : cmd.tdi[i] = k + i - 1
  <2>1. \A i \in 1 .. 1 : <<k>>[i] = k + i - 1 OBVIOUS
  <2> QED BY <1>1, <1>2, <2>1
<1>9. cmd.kind \in {"tms", "last", "bits", "data"} /\ e.expects = Due(cmd) BY <1>1, <1>4, <1>6
<1>10. Execute(e, cmd) \in Chips /\ Rides(Execute(e, cmd), s, v, k + Clocked(cmd))
  BY ONLY s \in JtagStates, v \in Seq({0, 1}), e \in Chips, k \in Nat, <1>3, <1>5, <1>6, <1>8, <1>9, RidesOn
<1> QED BY <1>3, <1>4, <1>7, <1>10

-----------------------------------------------------------------------------
(* The operations of a scan, from bit k on to a later bit. *)

InScan(b, c, t, e, s, v, k) ==
    e \in Chips /\ Rides(e, s, v, k) /\ Soon(b, c, t, e, FilledTo(Along(s, v), Len(v), k))

Arrives(o, s, v, k, pool) ==
    /\ OutcomeOk(o) /\ o.err \in {"ok", "usb"}
    /\ o.err = "ok" => o.b.pool = pool /\ \E e : InScan(o.b, o.c, o.t, e, s, v, k)

LEMMA Lengths ==
    /\ 3 <= max_tx_buffer_bytes /\ 1 <= max_rx_buffer_bytes
    /\ \A m \in Nat : m <= chip_buffer_size => m <= max_tx_buffer_bytes /\ m <= max_rx_buffer_bytes
BY ScanAssumption DEF max_tx_buffer_bytes, max_rx_buffer_bytes

\* append_tms_shift: one command of a run outside the Shift states.
LEMMA TmsArrives ==
    ASSUME NEW s \in JtagStates, NEW v \in Seq({0, 1}), NEW k \in Nat, NEW b, NEW c, NEW t, NEW e, InScan(b, c, t, e, s, v, k),
           NEW n \in Nat, n > 0, k + n <= Len(v), \A i \in k .. k + n - 1 : ~IsShift(Along(s, v)[i]),
           NEW cmd, cmd = Command("tms", <<>>, SubSeq(v, k + 1, k + n), 0),
           NEW o \in mpsse_buffer_append(b, c, t, <<cmd>>, 3, <<>>, 0)
    PROVE  Arrives(o, s, v, k + n, b.pool)
<1>1. PICK view : view = FilledTo(Along(s, v), Len(v), k) OBVIOUS
<1>2. e \in Chips /\ Rides(e, s, v, k) /\ Soon(b, c, t, e, view) BY <1>1 DEF InScan
<1>3. /\ cmd \in Commands /\ Answer(e, cmd) = <<>>
      /\ Execute(e, cmd) \in Chips /\ Rides(Execute(e, cmd), s, v, k + n)
  BY ONLY s \in JtagStates, v \in Seq({0, 1}), k \in Nat, n \in Nat, n > 0, k + n <= Len(v),
          cmd = Command("tms", <<>>, SubSeq(v, k + 1, k + n), 0), <1>2, TmsRides
<1>4. Leaves(o, Execute(e, cmd), view, b.pool)
  <2>1. 3 \in Nat /\ 3 <= max_tx_buffer_bytes BY Lengths
  <2> QED BY ONLY o \in mpsse_buffer_append(b, c, t, <<cmd>>, 3, <<>>, 0), <1>2, <1>3, <2>1, AppendSilent
<1>5. view = FilledTo(Along(s, v), Len(v), k + n)
  <2>1. Len(v) \in Nat OBVIOUS
  <2> QED BY ONLY k \in Nat, n \in Nat, \A i \in k .. k + n - 1 : ~IsShift(Along(s, v)[i]), <1>1, <2>1, FilledElsewhere
<1>6. o.err = "ok" => InScan(o.b, o.c, o.t, Execute(e, cmd), s, v, k + n) BY <1>3, <1>4, <1>5 DEF InScan, Leaves
<1> QED BY <1>4, <1>6 DEF Arrives, Leaves

LEMMA AllocSoon ==
    ASSUME NEW b, NEW c, NEW t, NEW e, NEW view, Soon(b, c, t, e, view), b.pool < PoolSize, NEW o \in pool_alloc(b, c, t)
    PROVE  o.err = "ok" /\ OutcomeOk(o) /\ o.b.pool = b.pool + 1 /\ Soon(o.b, o.c, o.t, e, view)
<1>1. PICK d : Twin(e, d) /\ Waits(b, c, t, d, view) BY DEF Soon
<1>2. /\ b \in Buffers /\ c \in Chips /\ d \in Chips /\ IsVector(t) /\ Executed(c, b.tx) = {d}
      /\ Len(d.queue) = b.rx_num /\ InRange(b) /\ RunObservers(b.observers, d.queue, t) = view
  BY <1>1 DEF Waits
<1>3. o.err = "ok" /\ o.b.pool = b.pool + 1 BY <1>2, PoolGrows
<1>4. /\ OutcomeOk(o) /\ o.c = c /\ o.t = t
      /\ o.b.tx = b.tx /\ o.b.rx_num = b.rx_num /\ o.b.observers = b.observers
  BY <1>2, PoolType
<1>5. o.b \in Buffers BY <1>4 DEF OutcomeOk
<1>6. InRange(o.b) BY <1>2, <1>4 DEF InRange
<1>7. Waits(o.b, o.c, o.t, d, view) BY <1>2, <1>4, <1>5, <1>6 DEF Waits
<1> QED BY <1>1, <1>3, <1>4, <1>7 DEF Soon

\* Up to seven bits of a run in a Shift state, whose answer is copied.
LEMMA BitsArrive ==
    ASSUME NEW s, NEW v \in Seq({0, 1}), NEW k \in Nat, NEW e, InScan(buffer, chip, tdo, e, s, v, k),
           NEW n \in 1 .. 7, \A i \in k .. k + n - 1 : IsShift(Along(s, v)[i]), buffer.pool + 2 <= PoolSize,
           NEW cmd \in Commands, Answer(e, cmd) = Sampled(k, n), Execute(e, cmd) \in Chips, Rides(Execute(e, cmd), s, v, k + n),
           NEW o \in AddBits(cmd, Copier(8 - n, k, n))
    PROVE  Arrives(o, s, v, k + n, buffer.pool + 2)
<1>1. PICK view : view = FilledTo(Along(s, v), Len(v), k) OBVIOUS
<1>2. e \in Chips /\ Soon(buffer, chip, tdo, e, view) BY <1>1 DEF InScan
<1>3. PICK q \in pool_alloc(buffer, chip, tdo) :
        \/ q.err # "ok" /\ o = q
        \/ q.err = "ok" /\ o \in mpsse_buffer_add_write_with_readback(q.b, q.c, q.t, <<cmd>>, 3, Copier(8 - n, k, n), 1)
  BY ONLY o \in AddBits(cmd, Copier(8 - n, k, n)), AddBitsCases
<1>4. PICK pool \in Nat : pool = buffer.pool /\ pool + 2 <= PoolSize
  <2>1. buffer \in Buffers BY <1>2 DEF Soon, Waits
  <2> QED BY <2>1, Counts
<1>5. q.err = "ok" /\ q.b.pool = pool + 1 /\ Soon(q.b, q.c, q.t, e, view)
  <2>1. buffer.pool < PoolSize BY <1>4, Sizes
  <2> QED BY <1>2, <1>4, <2>1, AllocSoon
<1>6. PICK ob : ob = Copier(8 - n, k, n) OBVIOUS
<1>7. Len(Sampled(k, n)) = 1 /\ Fits(ob, 1) /\ Overlay(view, ob, Sampled(k, n)) = Own(view, k, n)
  BY ONLY k \in Nat, n \in 1 .. 7, <1>6, FewSampled
<1>8. Own(view, k, n) = FilledTo(Along(s, v), Len(v), k + n)
  <2>1. Len(v) \in Nat /\ n \in Nat OBVIOUS
  <2> QED BY ONLY k \in Nat, \A i \in k .. k + n - 1 : IsShift(Along(s, v)[i]), <1>1, <2>1, FilledByShift
<1>9. Leaves(o, Execute(e, cmd), Overlay(view, ob, Answer(e, cmd)), q.b.pool + 1)
  <2>1. 3 \in Nat /\ 3 <= max_tx_buffer_bytes /\ 1 \in Nat /\ 1 > 0 /\ 1 <= max_rx_buffer_bytes BY Lengths
  <2>2. q.b.pool < PoolSize BY <1>4, <1>5, Sizes
  <2>3. 1 = Len(Answer(e, cmd)) /\ Fits(ob, 1) BY <1>7
  <2>4. o \in mpsse_buffer_add_write_with_readback(q.b, q.c, q.t, <<cmd>>, 3, ob, 1) BY <1>3, <1>5, <1>6
  <2> QED BY ONLY cmd \in Commands, <1>2, <1>5, <2>1, <2>2, <2>3, <2>4, ReadbackHeard
<1>10. Leaves(o, Execute(e, cmd), FilledTo(Along(s, v), Len(v), k + n), buffer.pool + 2)
  <2>1. q.b.pool + 1 = buffer.pool + 2 BY <1>4, <1>5
  <2>2. Overlay(view, ob, Answer(e, cmd)) = FilledTo(Along(s, v), Len(v), k + n) BY <1>7, <1>8
  <2> QED BY <1>9, <2>1, <2>2
<1>11. o.err = "ok" => InScan(o.b, o.c, o.t, Execute(e, cmd), s, v, k + n) BY <1>10 DEF InScan, Leaves
<1> QED BY <1>10, <1>11 DEF Arrives, Leaves

\* The bytes of a run: a header, and data as the chip expects them behind it.
LEMMA ChunkRides ==
    ASSUME NEW s \in JtagStates, NEW v \in Seq({0, 1}), cur \in Nat, NEW e \in Chips, Rides(e, s, v, cur),
           NEW m \in Nat, m > 0, cur + 8 * m <= Len(v), \A i \in cur .. cur + 8 * m : IsShift(Along(s, v)[i]),
           ChunkSize = m, ChunkData = Command("data", Positions(cur, 8 * m), <<>>, m),
           NEW head, head = Header, NEW f, f = Execute(e, head)
    PROVE  /\ head \in Commands /\ f \in Chips /\ Answer(e, head) = <<>> /\ Tracks(f, v)
           /\ ChunkData \in Commands /\ Answer(f, ChunkData) = Sampled(cur, 8 * m)
           /\ Execute(f, ChunkData) \in Chips /\ Rides(Execute(f, ChunkData), s, v, cur + 8 * m)
<1>3. PICK n \in Nat : n = 8 * m /\ n > 0 /\ cur + n <= Len(v) OBVIOUS
<1>5. head.kind = "bytes" /\ head.octets = m
  <2>1. head = Command("bytes", <<>>, <<>>, m) BY Zenon DEF Header
  <2> QED BY ONLY <2>1, CommandFields
<1>6. head \in Commands
  <2>1. "bytes" \in Kinds /\ "bytes" \notin {"tms", "last", "bits", "data"} /\ <<>> \in Seq(Int) /\ <<>> \in Seq({0, 1}) BY DEF Kinds
  <2>2. Command("bytes", <<>>, <<>>, m) \in Commands BY ONLY m \in Nat, <2>1, CommandType
  <2> QED BY <2>2, Zenon DEF Header
<1>8. /\ f = [e EXCEPT !.expects = m] /\ f \in Chips /\ Answer(e, head) = <<>>
  <2>1. e.expects = 0 /\ Due(head) = 0 BY <1>5 DEF Rides, Due
  <2>2. /\ f = [e EXCEPT !.expects = f.expects] /\ Answer(e, head) = <<>>
        /\ f.expects = IF e.expects # Due(head) THEN -1
                       ELSE IF head.kind = "clock" THEN e.expects ELSE IF head.octets = 0 THEN -1 ELSE head.octets
    BY <1>5, <1>6, ExecuteOthers
  <2>3. f.expects = m BY <1>5, <2>1, <2>2
  <2>4. f \in Chips BY <1>6, ExecuteType
  <2> QED BY <2>2, <2>3, <2>4, Zenon
<1>9. /\ f.expects = m /\ f.pin = e.pin /\ f.clocks = e.clocks /\ f.agreed = e.agreed /\ f.began = e.began
      /\ f.tap = e.tap /\ f.ordered = e.ordered /\ f.shifted = e.shifted
  BY <1>8 DEF Chips
<1>10. Tracks(f, v) /\ f.clocks = cur /\ f.agreed = (f.began = s) /\ f.pin = 0
  <2>1. cur \in cur .. cur + 8 * m OBVIOUS
  <2>2. IsShift(Along(s, v)[cur]) BY <2>1
  <2>3. Tracks(e, v) /\ e.clocks = cur /\ e.agreed = (e.began = s) /\ e.pin = 0 BY <2>2 DEF Rides
  <2> QED BY <1>9, <2>3 DEF Tracks
<1>11. PICK data : data = ChunkData OBVIOUS
<1>12. /\ data \in Commands /\ Answer(f, data) = Sampled(cur, n)
       /\ Execute(f, data) \in Chips /\ Rides(Execute(f, data), s, v, cur + n)
  <2>1. data = Command("data", Positions(cur, n), <<>>, m) BY <1>3, <1>11
  <2>2. \A i \in cur .. cur + n : IsShift(Along(s, v)[i]) BY <1>3
  <2>3. f \in Chips /\ f.expects = m BY <1>8, <1>9
  <2>4. n > 0 /\ cur + n <= Len(v) BY <1>3
  <2> QED BY ONLY s \in JtagStates, v \in Seq({0, 1}), cur \in Nat, m \in Nat, n \in Nat,
             <1>10, <2>1, <2>2, <2>3, <2>4, BitsRide
<1> QED BY <1>3, <1>6, <1>8, <1>10, <1>11, <1>12

\* One chunk, read back as a whole.
LEMMA ChunkArrives ==
    ASSUME NEW s \in JtagStates, NEW v \in Seq({0, 1}), cur \in Nat, NEW e, InScan(buffer, chip, tdo, e, s, v, cur),
           NEW m \in Nat, m > 0, m <= chip_buffer_size, cur + 8 * m <= Len(v),
           \A i \in cur .. cur + 8 * m : IsShift(Along(s, v)[i]), buffer.pool < PoolSize,
           ChunkSize = m, Bulk, ChunkCopier = Copier(0, cur, 8 * m),
           ChunkData = Command("data", Positions(cur, 8 * m), <<>>, m), NEW o \in Chunk
    PROVE  Arrives(o, s, v, cur + 8 * m, buffer.pool + 1)
<1>1. PICK view : view = FilledTo(Along(s, v), Len(v), cur) OBVIOUS
<1>2. e \in Chips /\ Rides(e, s, v, cur) /\ Soon(buffer, chip, tdo, e, view) BY <1>1 DEF InScan
<1>3. PICK n \in Nat : n = 8 * m /\ n > 0 /\ cur + n <= Len(v) OBVIOUS
<1>4. PICK head : head = Header OBVIOUS
<1>7. PICK f : f = Execute(e, head) OBVIOUS
<1>8. /\ head \in Commands /\ f \in Chips /\ Answer(e, head) = <<>> /\ ChunkData \in Commands
      /\ Answer(f, ChunkData) = Sampled(cur, 8 * m) /\ Execute(f, ChunkData) \in Chips
      /\ Rides(Execute(f, ChunkData), s, v, cur + 8 * m)
  BY <1>2, <1>4, <1>7, ChunkRides
<1>11. PICK q \in mpsse_buffer_append(buffer, chip, tdo, <<head>>, 3, <<>>, 0) :
             \/ q.err # "ok" /\ o = q
             \/ q.err = "ok" /\ o \in AddChunk(q)
  BY <1>4, ChunkCases
<1>12. Leaves(q, f, view, buffer.pool)
  <2>1. 3 \in Nat /\ 3 <= max_tx_buffer_bytes /\ Answer(e, head) = <<>> BY <1>8, Lengths
  <2>2. Leaves(q, Execute(e, head), view, buffer.pool)
    BY ONLY q \in mpsse_buffer_append(buffer, chip, tdo, <<head>>, 3, <<>>, 0), <1>2, <1>8, <2>1, AppendSilent
  <2> QED BY <1>7, <2>2
<1>13. CASE q.err # "ok" BY <1>11, <1>12, <1>13 DEF Arrives, Leaves
<1>14. CASE q.err = "ok"
  <2>1. PICK data, ob : data = ChunkData /\ ob = ChunkCopier OBVIOUS
  <2>2. o \in mpsse_buffer_add_write_with_readback(q.b, q.c, q.t, <<data>>, m, ob, m)
    <3>1. o \in AddChunk(q) /\ ChunkSize # 0 BY <1>11, <1>14
    <3> QED BY <2>1, <3>1 DEF AddChunk
  <2>3. Soon(q.b, q.c, q.t, f, view) /\ q.b.pool = buffer.pool BY <1>12, <1>14 DEF Leaves
  <2>4. /\ data \in Commands /\ Answer(f, data) = Sampled(cur, n)
        /\ Execute(f, data) \in Chips /\ Rides(Execute(f, data), s, v, cur + n)
    BY <1>3, <1>8, <2>1
  <2>5. /\ Len(Sampled(cur, n)) = m /\ Fits(ob, m) /\ Overlay(view, ob, Sampled(cur, n)) = Own(view, cur, n)
    <3>1. /\ Len(Sampled(cur, 8 * m)) = m /\ Fits(Copier(0, cur, 8 * m), m)
          /\ Overlay(view, Copier(0, cur, 8 * m), Sampled(cur, 8 * m)) = Own(view, cur, 8 * m)
      BY ONLY cur \in Nat, m \in Nat, m > 0, WholeSampled
    <3> QED BY <1>3, <2>1, <3>1, Zenon
  <2>6. Own(view, cur, n) = FilledTo(Along(s, v), Len(v), cur + n)
    <3>1. Len(v) \in Nat /\ \A i \in cur .. cur + n - 1 : IsShift(Along(s, v)[i]) BY <1>3
    <3> QED BY ONLY cur \in Nat, n \in Nat, <1>1, <3>1, FilledByShift
  <2>7. Leaves(o, Execute(f, data), Overlay(view, ob, Answer(f, data)), q.b.pool + 1)
    <3>1. m <= max_tx_buffer_bytes /\ m <= max_rx_buffer_bytes BY Lengths
    <3>2. m = Len(Answer(f, data)) BY <2>4, <2>5
    <3>3. q.b.pool < PoolSize BY <2>3
    <3>4. data \in Commands /\ f \in Chips /\ Fits(ob, m) BY <1>8, <2>4, <2>5
    <3> QED BY ONLY m \in Nat, m > 0, <2>2, <2>3, <3>1, <3>2, <3>3, <3>4, ReadbackHeard
  <2>8. Leaves(o, Execute(f, data), FilledTo(Along(s, v), Len(v), cur + n), buffer.pool + 1)
    BY <2>3, <2>4, <2>5, <2>6, <2>7
  <2>9. o.err = "ok" => InScan(o.b, o.c, o.t, Execute(f, data), s, v, cur + n) BY <2>4, <2>8 DEF InScan, Leaves
  <2>10. Arrives(o, s, v, cur + n, buffer.pool + 1) BY <2>8, <2>9 DEF Arrives, Leaves
  <2> QED BY <1>3, <2>10
<1> QED BY <1>13, <1>14

-----------------------------------------------------------------------------
(* How append_tdi_shift divides a run. *)

\* Where the loop is when its first two parts have been done.
PartsEnd(s) == IF LeadingOnly(s) THEN s.to - 1 ELSE InnerEnd(s)

LEMMA Aligned ==
    ASSUME NEW from \in Nat, NEW last \in Nat, NEW odd \in Int, odd = (8 - (from % 8)) % 8, odd < last - from
    PROVE  /\ odd \in 0 .. 7 /\ (from + odd) % 8 = 0
           /\ 8 * ((from + odd) \div 8) = from + odd
           /\ from + odd <= last - (last % 8)
           /\ \E m \in Nat : /\ last - (last % 8) = from + odd + 8 * m
                             /\ ((last - (last % 8)) - (from + odd)) \div 8 = m
<1>1. odd \in 0 .. 7 /\ (from + odd) % 8 = 0 OBVIOUS
<1>2. PICK a \in Nat : from + odd = 8 * a BY <1>1
<1>3. PICK z \in Nat : last - (last % 8) = 8 * z
  <2>1. last \div 8 \in Nat /\ last - (last % 8) = 8 * (last \div 8) OBVIOUS
  <2> QED BY <2>1
<1>4. last % 8 \in 0 .. 7 OBVIOUS
<1>5. 8 * a <= 8 * z BY <1>2, <1>3, <1>4
<1>6. z - a \in Nat /\ 8 * z = 8 * a + 8 * (z - a) /\ (8 * z - 8 * a) \div 8 = z - a BY <1>5
<1>7. 8 * ((8 * a) \div 8) = 8 * a OBVIOUS
<1> QED BY <1>1, <1>2, <1>3, <1>5, <1>6, <1>7

LEMMA Parts ==
    ASSUME NEW s \in Segments, s.from < s.to
    PROVE  /\ NumLeading(s) \in 0 .. 7 /\ s.from + NumLeading(s) <= s.to - 1
           /\ LeadingOnly(s) => /\ s.from + NumLeading(s) = s.to - 1 /\ InnerEnd(s) = -1
                                /\ NumTrailing(s) = 0 /\ InnerBytes(s) = 0
           /\ ~LeadingOnly(s) =>
                /\ 8 * ((s.from + NumLeading(s)) \div 8) = s.from + NumLeading(s)
                /\ InnerBytes(s) \in Nat /\ InnerEnd(s) = s.from + NumLeading(s) + 8 * InnerBytes(s)
                /\ NumTrailing(s) \in 0 .. 7 /\ InnerEnd(s) + NumTrailing(s) = s.to - 1
<1>1. PICK from \in Nat, last \in Nat : from = s.from /\ last = s.to - 1 /\ from <= last BY DEF Segments
<1>2. PICK odd \in 0 .. 7 : odd = (8 - (from % 8)) % 8 BY <1>1
<1>3. NumLeading(s) = IF odd < last - from THEN odd ELSE last - from BY <1>1, <1>2 DEF NumLeading
<1>4. CASE ~(odd < last - from)
  <2>1. NumLeading(s) = last - from BY <1>3, <1>4
  <2>2. last - from \in 0 .. 7 /\ from + (last - from) = last BY <1>1, <1>4
  <2>3. LeadingOnly(s) BY <1>1, <2>1 DEF LeadingOnly
  <2>4. InnerEnd(s) = -1 /\ NumTrailing(s) = 0 BY <2>3 DEF InnerEnd, NumTrailing
  <2>5. InnerBytes(s) = 0 BY <1>1, <2>4 DEF InnerBytes
  <2> QED BY <1>1, <2>1, <2>2, <2>3, <2>4, <2>5
<1>5. CASE odd < last - from
  <2>1. NumLeading(s) = odd BY <1>3, <1>5
  <2>2. ~LeadingOnly(s) BY <1>1, <1>5, <2>1 DEF LeadingOnly
  <2>3. PICK tail \in 0 .. 7 : tail = last % 8 OBVIOUS
  <2>4. InnerEnd(s) = last - tail /\ NumTrailing(s) = tail BY <1>1, <2>2, <2>3 DEF InnerEnd, NumTrailing
  <2>5. PICK m \in Nat : /\ last - tail = from + odd + 8 * m /\ ((last - tail) - (from + odd)) \div 8 = m
                         /\ 8 * ((from + odd) \div 8) = from + odd
    BY <1>2, <1>5, <2>3, Aligned
  <2>6. InnerBytes(s) = m
    <3>1. CASE last - tail > from BY <1>1, <2>1, <2>4, <2>5, <3>1 DEF InnerBytes
    <3>2. CASE ~(last - tail > from)
      <4>1. m = 0 BY <2>5, <3>2
      <4> QED BY <1>1, <2>4, <3>2, <4>1 DEF InnerBytes
    <3> QED BY <3>1, <3>2
  <2>7. from + odd <= last /\ (last - tail) + tail = last BY <1>5
  <2> QED BY <1>1, <2>1, <2>2, <2>4, <2>5, <2>6, <2>7
<1> QED BY <1>4, <1>5

-----------------------------------------------------------------------------
(* Where a scan is.  The adapter's idea of the TAP along the vector. *)

Here == Along(state, tms)

ShiftParts == {"leading", "whole", "trailing", "last"}
Scanning == {"next", "tms"} \cup ShiftParts

\* The first bit of each part of the run.
PartStart(part) ==
    CASE part = "leading"  -> seg.from
      [] part = "whole"    -> seg.from + NumLeading(seg)
      [] part = "trailing" -> PartsEnd(seg)
      [] part = "last"     -> seg.to - 1

ShiftRun ==
    /\ seg.from < seg.to /\ seg.to <= Len(tms) /\ InnerBytes(seg) <= chip_buffer_size
    /\ \A k \in seg.from .. seg.to - 1 : IsShift(Here[k])
    /\ seg.leave <=> ~IsShift(Here[seg.to])

At(where, k) ==
    /\ where = "idle" => k = 0
    /\ where = "next" => k <= Len(tms)
    /\ where = "tms" => k < seg.to /\ seg.to <= Len(tms) /\ \A i \in k .. seg.to - 1 : ~IsShift(Here[i])
    /\ where \in ShiftParts => ShiftRun /\ k = PartStart(where)

IPlace == (pc # "idle" => tms \in ScanVectors) /\ At(pc, cur)

LEMMA StateIs ==
    ASSUME IType, NEW k \in 0 .. Len(tms)
    PROVE  StateAt(k) = Here[k]
<1>1. state \in JtagStates /\ tms \in Seq({0, 1}) BY DEF IType
<1>2. jtag_walk(jtag_next_state, state, SubSeq(tms, 1, k)) = jtag_path(jtag_next_state, state, tms)[k]
  BY ONLY k \in 0 .. Len(tms), <1>1, WalkAlong
<1> QED BY <1>2, TablesAgree DEF StateAt, Here, Along

\* What the parts of append_tdi_shift do, from where they are.
BitsMove(n, next_pc) ==
    /\ Perform(AddBits(Command("bits", Positions(cur, n), <<>>, 0), Copier(8 - n, cur, n)), cur + n, next_pc)
    /\ n \in 1 .. 7 /\ cur + n < Len(tms) /\ (\A i \in cur .. cur + n : IsShift(Here[i])) /\ At(next_pc, cur + n)
SkipMove(next_pc) == Skip(next_pc) /\ At(next_pc, cur)

LEMMA RunFacts ==
    ASSUME IType, IPlace, pc \in ShiftParts
    PROVE  /\ seg \in Segments /\ seg.from \in Nat /\ seg.to \in Nat /\ cur \in Nat /\ Len(tms) \in Nat
           /\ seg.from < seg.to /\ seg.to <= Len(tms) /\ ShiftRun /\ cur = PartStart(pc)
<1>1. seg \in Segments /\ cur \in Nat /\ tms \in Seq({0, 1}) BY DEF IType
<1>2. ShiftRun /\ cur = PartStart(pc) BY DEF IPlace, At
<1>3. seg.from \in Nat /\ seg.to \in Nat /\ Len(tms) \in Nat BY <1>1 DEF Segments
<1> QED BY <1>1, <1>2, <1>3 DEF ShiftRun

LEMMA ShiftsWithin ==
    ASSUME ShiftRun, seg.from \in Nat, seg.to \in Nat, NEW a \in Nat, NEW z \in Nat, seg.from <= a, z <= seg.to - 1
    PROVE  \A i \in a .. z : IsShift(Here[i])
<1>1. \A i \in a .. z : i \in seg.from .. seg.to - 1 OBVIOUS
<1> QED BY <1>1 DEF ShiftRun

LEMMA LeadingMoves ==
    ASSUME IType, IPlace, Leading
    PROVE  (\E n : BitsMove(n, "whole")) \/ SkipMove("whole")
<1>1. pc = "leading" /\ pc \in ShiftParts BY DEF Leading, ShiftParts
<1>2. /\ seg \in Segments /\ seg.from \in Nat /\ seg.to \in Nat /\ Len(tms) \in Nat
      /\ seg.from < seg.to /\ seg.to <= Len(tms) /\ ShiftRun /\ cur = seg.from
  BY <1>1, RunFacts DEF PartStart
<1>3. PICK n \in 0 .. 7 : n = NumLeading(seg) /\ seg.from + n <= seg.to - 1 BY <1>2, Parts
<1>4. At("whole", cur + n) BY <1>2, <1>3 DEF At, PartStart, ShiftParts
<1>5. CASE n > 0
  <2>1. Perform(AddBits(Command("bits", Positions(cur, n), <<>>, 0), Copier(8 - n, cur, n)), cur + n, "whole")
    BY <1>2, <1>3, <1>5 DEF Leading
  <2>2. cur + n \in Nat /\ cur + n <= seg.to - 1 /\ cur + n < Len(tms) /\ n \in 1 .. 7 BY <1>2, <1>3, <1>5
  <2>3. \A i \in cur .. cur + n : IsShift(Here[i]) BY <1>2, <2>2, ShiftsWithin
  <2> QED BY <1>4, <2>1, <2>2, <2>3 DEF BitsMove
<1>6. CASE ~(n > 0)
  <2>1. Skip("whole") BY <1>3, <1>6 DEF Leading
  <2>2. cur + n = cur BY <1>2, <1>6
  <2> QED BY <1>4, <2>1, <2>2 DEF SkipMove
<1> QED BY <1>5, <1>6

LEMMA TrailingMoves ==
    ASSUME IType, IPlace, Trailing
    PROVE  (\E n : BitsMove(n, "last")) \/ SkipMove("last")
<1>1. pc = "trailing" /\ pc \in ShiftParts BY DEF Trailing, ShiftParts
<1>2. /\ seg \in Segments /\ seg.from \in Nat /\ seg.to \in Nat /\ Len(tms) \in Nat /\ cur \in Nat
      /\ seg.from < seg.to /\ seg.to <= Len(tms) /\ ShiftRun /\ cur = PartsEnd(seg)
  BY <1>1, RunFacts DEF PartStart
<1>3. At("last", seg.to - 1) BY <1>2 DEF At, PartStart, ShiftParts
<1>4. CASE LeadingOnly(seg)
  <2>1. cur = seg.to - 1 /\ NumTrailing(seg) = 0 BY <1>2, <1>4, Parts DEF PartsEnd
  <2>2. Skip("last") BY <2>1 DEF Trailing
  <2> QED BY <1>3, <2>1, <2>2 DEF SkipMove
<1>5. CASE ~LeadingOnly(seg)
  <2>1. PICK n \in 0 .. 7 : n = NumTrailing(seg) /\ cur + n = seg.to - 1 /\ cur = InnerEnd(seg)
    BY <1>2, <1>5, Parts DEF PartsEnd
  <2>2. seg.from <= cur
    <3>1. PICK lead \in 0 .. 7, m \in Nat : InnerEnd(seg) = seg.from + lead + 8 * m BY <1>2, <1>5, Parts
    <3> QED BY <1>2, <2>1, <3>1
  <2>3. CASE n > 0
    <3>1. cur < seg.to - 1 BY <1>2, <2>1, <2>3
    <3>2. Perform(AddBits(Command("bits", Positions(cur, n), <<>>, 0), Copier(8 - n, cur, n)), cur + n, "last")
      BY <2>1, <2>3, <3>1 DEF Trailing
    <3>3. cur + n \in Nat /\ cur + n <= seg.to - 1 /\ cur + n < Len(tms) /\ n \in 1 .. 7 BY <1>2, <2>1, <2>3
    <3>4. \A i \in cur .. cur + n : IsShift(Here[i]) BY <1>2, <2>2, <3>3, ShiftsWithin
    <3>5. At("last", cur + n) BY <1>3, <2>1
    <3> QED BY <3>2, <3>3, <3>4, <3>5 DEF BitsMove
  <2>4. CASE ~(n > 0)
    <3>1. Skip("last") BY <2>1, <2>4 DEF Trailing
    <3>2. cur = seg.to - 1 BY <1>2, <2>1, <2>4
    <3> QED BY <1>3, <3>1, <3>2 DEF SkipMove
  <2> QED BY <2>3, <2>4
<1> QED BY <1>4, <1>5

ChunkMove(m) ==
    /\ Perform(Chunk, cur + 8 * m, "trailing")
    /\ m \in Nat /\ m > 0 /\ m <= chip_buffer_size /\ cur + 8 * m < Len(tms)
    /\ \A i \in cur .. cur + 8 * m : IsShift(Here[i])
    /\ ChunkSize = m /\ Bulk /\ InnerBytes(seg) > 0 /\ ChunkCopier = Copier(0, cur, 8 * m)
    /\ ChunkData = Command("data", Positions(cur, 8 * m), <<>>, m)
    /\ At("trailing", cur + 8 * m)

LEMMA EightPast == ASSUME NEW a \in Nat, NEW m \in Nat PROVE ((a + 8 * m) - a) \div 8 = m
OBVIOUS

LEMMA WholeMoves ==
    ASSUME IType, IPlace, Whole
    PROVE  (\E m : ChunkMove(m)) \/ (SkipMove("trailing") /\ InnerBytes(seg) = 0)
<1>1. pc = "whole" /\ pc \in ShiftParts BY WholeIs DEF ShiftParts
<1>2. /\ seg \in Segments /\ seg.from \in Nat /\ seg.to \in Nat /\ Len(tms) \in Nat /\ cur \in Nat
      /\ seg.from < seg.to /\ seg.to <= Len(tms) /\ ShiftRun /\ cur = seg.from + NumLeading(seg)
  BY <1>1, RunFacts DEF PartStart
<1>3. At("trailing", PartsEnd(seg)) BY <1>2 DEF At, PartStart, ShiftParts
<1>4. CASE LeadingOnly(seg)
  <2>1. cur = seg.to - 1 /\ InnerBytes(seg) = 0 /\ InnerEnd(seg) = -1 BY <1>2, <1>4, Parts
  <2>2. ~(cur < seg.to - 1) /\ PartsEnd(seg) = cur BY <1>2, <1>4, <2>1 DEF PartsEnd
  <2>3. Skip("trailing") BY <2>2, WholeIs
  <2> QED BY <1>3, <2>1, <2>2, <2>3 DEF SkipMove
<1>5. CASE ~LeadingOnly(seg)
  <2>1. PICK m \in Nat, n \in 0 .. 7 :
          /\ m = InnerBytes(seg) /\ n = NumTrailing(seg) /\ 8 * (cur \div 8) = cur
          /\ InnerEnd(seg) = cur + 8 * m /\ (cur + 8 * m) + n = seg.to - 1
    BY <1>2, <1>5, Parts
  <2>2. m <= chip_buffer_size /\ PartsEnd(seg) = cur + 8 * m BY <1>2, <1>5, <2>1 DEF ShiftRun, PartsEnd
  <2>3. CASE m = 0
    <3>1. ~(InnerEnd(seg) > cur) /\ cur + 8 * m = cur BY <1>2, <2>1, <2>3
    <3>2. Skip("trailing") BY <3>1, WholeIs
    <3> QED BY <1>3, <2>1, <2>2, <2>3, <3>1, <3>2 DEF SkipMove
  <2>4. CASE m > 0
    <3>1. /\ InnerEnd(seg) > cur /\ cur < seg.to - 1 /\ (InnerEnd(seg) - cur) \div 8 = m
          /\ cur + 8 * m <= seg.to - 1 /\ cur + 8 * m < Len(tms) /\ cur + 8 * m \in Nat
      <4>1. /\ InnerEnd(seg) > cur /\ cur < seg.to - 1
            /\ cur + 8 * m <= seg.to - 1 /\ cur + 8 * m < Len(tms) /\ cur + 8 * m \in Nat
        <5>1. PICK to \in Nat, len \in Nat, k \in Nat :
                to = seg.to /\ len = Len(tms) /\ k = cur /\ to <= len /\ k + 8 * m + n = to - 1 /\ InnerEnd(seg) = k + 8 * m
          BY <1>2, <2>1
        <5>2. k + 8 * m > k /\ k < to - 1 /\ k + 8 * m <= to - 1 /\ k + 8 * m < len /\ k + 8 * m \in Nat
          BY ONLY to \in Nat, len \in Nat, k \in Nat, m \in Nat, n \in 0 .. 7, <5>1, <2>4
        <5> QED BY <5>1, <5>2
      <4>2. (InnerEnd(seg) - cur) \div 8 = m BY <1>2, <2>1, EightPast
      <4> QED BY <4>1, <4>2
    <3>2. ChunkSize = m BY <2>2, <3>1, ScanAssumption DEF ChunkSize
    <3>3. (cur - (seg.from + NumLeading(seg))) \div 8 = 0 BY <1>2
    <3>4. Bulk BY <2>1, <2>4, <3>2, <3>3 DEF Bulk
    <3>5. ChunkCopier = Copier(0, cur, 8 * m) BY <1>2, <2>1, <3>4 DEF ChunkCopier
    <3>6. ChunkData = Command("data", Positions(cur, 8 * m), <<>>, m) BY <2>1, <3>2 DEF ChunkData
    <3>7. Perform(Chunk, cur + 8 * m, "trailing") BY <3>1, <3>2, WholeIs
    <3>8. \A i \in cur .. cur + 8 * m : IsShift(Here[i])
      <4>1. PICK lead \in 0 .. 7 : cur = seg.from + lead BY <1>2, Parts
      <4>2. seg.from <= cur BY <1>2, <4>1
      <4> QED BY <1>2, <3>1, <4>2, ShiftsWithin
    <3>9. At("trailing", cur + 8 * m) BY <1>3, <2>2
    <3>10. InnerBytes(seg) > 0 BY <2>1, <2>4
    <3>11. ChunkMove(m) BY <2>2, <2>4, <3>1, <3>2, <3>4, <3>5, <3>6, <3>7, <3>8, <3>9, <3>10, Zenon DEF ChunkMove
    <3> QED BY <3>11
  <2> QED BY <2>3, <2>4
<1> QED BY <1>4, <1>5

LastMove(bit) ==
    /\ Perform(AddBits(Command("last", <<cur>>, <<bit>>, 0), Copier(8 - 1, cur, 1)), cur + 1, "next")
    /\ bit \in {0, 1} /\ bit = tms[cur + 1] /\ cur + 1 <= Len(tms) /\ IsShift(Here[cur]) /\ At("next", cur + 1)

LEMMA LastMoves ==
    ASSUME IType, IPlace, LastBit
    PROVE  \E bit : LastMove(bit)
<1>1. pc = "last" /\ pc \in ShiftParts BY DEF LastBit, ShiftParts
<1>2. /\ seg.from \in Nat /\ seg.to \in Nat /\ Len(tms) \in Nat /\ cur \in Nat
      /\ seg.from < seg.to /\ seg.to <= Len(tms) /\ ShiftRun /\ cur = seg.to - 1
  BY <1>1, RunFacts DEF PartStart
<1>3. PICK bit : bit = LastTms(seg) OBVIOUS
<1>4. /\ Perform(AddBits(Command("last", <<cur>>, <<bit>>, 0), Copier(7, cur, 1)), cur + 1,
                 IF cur + 1 < seg.to THEN "leading" ELSE "next")
  BY <1>2, <1>3 DEF LastBit
<1>5. 8 - 1 = 7 /\ ~(cur + 1 < seg.to) /\ cur + 1 <= Len(tms) /\ cur + 1 \in 1 .. Len(tms) /\ cur + 1 - 1 = cur
      /\ cur \in seg.from .. seg.to - 1 /\ cur + 1 = seg.to
  BY <1>2
<1>6. IsShift(Here[cur]) /\ (seg.leave <=> ~IsShift(Here[cur + 1])) BY <1>2, <1>5 DEF ShiftRun
<1>7. PICK level \in {0, 1} : level = tms[cur + 1]
  <2>1. tms \in Seq({0, 1}) BY DEF IType
  <2> QED BY <1>5, <2>1
<1>8. IsShift(Here[cur + 1]) <=> level = 0
  <2>1. state \in JtagStates /\ tms \in Seq({0, 1}) BY DEF IType
  <2>2. \A k \in 1 .. Len(tms) : /\ IsShift(Here[k]) => tms[k] = 0
                                 /\ IsShift(Here[k - 1]) /\ tms[k] = 0 => IsShift(Here[k])
    BY <2>1, AlongSteps DEF Here
  <2> QED BY <1>5, <1>6, <1>7, <2>2
<1>9. bit = level BY <1>3, <1>6, <1>7, <1>8 DEF LastTms
<1>10. At("next", cur + 1) BY <1>5 DEF At, ShiftParts
<1> QED BY <1>4, <1>5, <1>6, <1>7, <1>9, <1>10 DEF LastMove

TmsMove(n, next_pc) ==
    /\ Perform(mpsse_buffer_append(buffer, chip, tdo, <<Command("tms", <<>>, SubSeq(tms, cur + 1, cur + n), 0)>>, 3, <<>>, 0),
               cur + n, next_pc)
    /\ n \in Nat /\ n > 0 /\ cur + n <= Len(tms) /\ (\A i \in cur .. cur + n - 1 : ~IsShift(Here[i]))
    /\ next_pc \in {"next", "tms"} /\ At(next_pc, cur + n)

LEMMA TmsMoves ==
    ASSUME IType, IPlace, append_tms_shift
    PROVE  \E n, next_pc : TmsMove(n, next_pc)
<1>1. pc = "tms" /\ cur \in Nat /\ seg.to \in Nat /\ Len(tms) \in Nat BY DEF append_tms_shift, IType, Segments
<1>2. cur < seg.to /\ seg.to <= Len(tms) /\ \A i \in cur .. seg.to - 1 : ~IsShift(Here[i]) BY <1>1 DEF IPlace, At
<1>3. PICK n \in 1 .. 6 : n = TmsBits(seg, cur) /\ cur + n <= seg.to BY <1>1, <1>2 DEF TmsBits
<1>4. PICK next_pc : next_pc = IF cur + n = seg.to THEN "next" ELSE "tms" OBVIOUS
<1>5. Perform(mpsse_buffer_append(buffer, chip, tdo, <<Command("tms", <<>>, SubSeq(tms, cur + 1, cur + n), 0)>>, 3, <<>>, 0),
               cur + n, next_pc)
  BY <1>3, <1>4 DEF append_tms_shift
<1>6. /\ n \in Nat /\ n > 0 /\ cur + n <= Len(tms)
      /\ \A i \in cur .. cur + n - 1 : i \in cur .. seg.to - 1
  BY <1>1, <1>2, <1>3
<1>7. At(next_pc, cur + n)
  <2>1. CASE cur + n = seg.to BY <1>2, <1>4, <2>1 DEF At, ShiftParts
  <2>2. CASE cur + n # seg.to
    <3>1. cur + n < seg.to /\ \A i \in cur + n .. seg.to - 1 : i \in cur .. seg.to - 1 BY <1>1, <1>3, <2>2
    <3> QED BY <1>2, <1>4, <2>2, <3>1 DEF At, ShiftParts
  <2> QED BY <2>1, <2>2
<1>8. \A i \in cur .. cur + n - 1 : ~IsShift(Here[i]) BY <1>2, <1>6
<1>9. next_pc \in {"next", "tms"} BY <1>4
<1> QED BY <1>5, <1>6, <1>7, <1>8, <1>9 DEF TmsMove

\* A run that no event ends before e is all in Shift states or all outside.
LEMMA NoEventBetween ==
    ASSUME NEW p, NEW a \in Nat, NEW e \in Nat, a <= e, \A k \in a .. e - 1 : IsShift(p[k]) <=> IsShift(p[k + 1])
    PROVE  \A k \in a .. e : IsShift(p[k]) <=> IsShift(p[e])
<1> DEFINE bad == {d \in 0 .. e - a : ~(IsShift(p[e - d]) <=> IsShift(p[e]))}
<1>1. SUFFICES bad = {}
  <2>1. ASSUME bad = {}, NEW k \in a .. e PROVE IsShift(p[k]) <=> IsShift(p[e])
    <3>1. PICK d \in 0 .. e - a : e - d = k
      <4>1. e - k \in 0 .. e - a /\ e - (e - k) = k OBVIOUS
      <4> QED BY <4>1
    <3> QED BY <2>1, <3>1
  <2> QED BY <2>1
<1>2. SUFFICES ASSUME bad # {} PROVE FALSE OBVIOUS
<1>3. bad \in SUBSET Nat OBVIOUS
<1>4. PICK d \in bad : \A j \in bad : d <= j
  <2> HIDE DEF bad
  <2> QED BY <1>2, <1>3, FirstPlace
<1>5. d \in 0 .. e - a /\ ~(IsShift(p[e - d]) <=> IsShift(p[e])) BY <1>4
<1>6. d # 0
  <2>1. e - 0 = e OBVIOUS
  <2> QED BY <1>5, <2>1
<1>7. d - 1 \in 0 .. e - a /\ ~(d <= d - 1) BY <1>5, <1>6
<1>8. IsShift(p[e - (d - 1)]) <=> IsShift(p[e]) BY <1>4, <1>7
<1>9. e - d \in a .. e - 1 /\ e - (d - 1) = (e - d) + 1 BY <1>5, <1>6
<1> QED BY <1>5, <1>8, <1>9

RunMove ==
    \/ \E o \in pool_alloc(buffer, chip, tdo) : o.err # "ok" /\ pc' = "done" /\ result' = o.err /\ buffer' = o.b
    \/ /\ UNCHANGED result /\ pc' \in {"tms", "leading"} /\ At(pc, cur)'
       /\ \/ UNCHANGED buffer
          \/ /\ pc' = "leading" /\ InnerBytes(seg') > 0
             /\ \E o \in pool_alloc(buffer, chip, tdo) : o.err = "ok" /\ buffer' = o.b

LEMMA NextRunMoves ==
    ASSUME ShortRuns, IType, IPlace, NextRun
    PROVE  pc = "next" /\ cur < Len(tms) /\ UNCHANGED <<chip, state, tdo, tms, cur, failures>> /\ RunMove
<1>1. /\ pc = "next" /\ cur < Len(tms) /\ UNCHANGED <<chip, state, tdo, tms, cur, failures>>
  BY NextRunIs
<1>2. PICK e \in cur .. Len(tms) - 1 :
        /\ Event(e) /\ \A k \in cur .. e - 1 : ~Event(k)
        /\ \E o \in RunAlloc(e) : RunStarts(e, o)
  BY NextRunIs
<1>3. PICK o \in RunAlloc(e) : RunStarts(e, o) BY <1>2
<1>4. PICK len \in Nat : len = Len(tms) BY DEF IType
<1>5. cur \in Nat /\ e \in Nat /\ cur <= e /\ e + 1 <= len /\ e \in 0 .. len /\ e + 1 \in 0 .. len
  BY <1>2, <1>4 DEF IType
<1>6. StateAt(e) = Here[e] /\ StateAt(e + 1) = Here[e + 1] BY <1>4, <1>5, StateIs
<1>7. \A k \in cur .. e : IsShift(Here[k]) <=> IsShift(Here[e])
  <2>1. ASSUME NEW k \in cur .. e - 1 PROVE IsShift(Here[k]) <=> IsShift(Here[k + 1])
    <3>1. k \in 0 .. Len(tms) /\ k + 1 \in 0 .. Len(tms) BY <1>4, <1>5
    <3>2. StateAt(k) = Here[k] /\ StateAt(k + 1) = Here[k + 1] BY <3>1, StateIs
    <3>3. ~Event(k) BY <1>2
    <3> QED BY <3>2, <3>3 DEF Event, IsShift
  <2> QED BY <1>5, <2>1, NoEventBetween
<1>8. CASE o.err # "ok" /\ pc' = "done" /\ result' = o.err /\ UNCHANGED seg
  <2>1. o \in pool_alloc(buffer, chip, tdo)
    <3>1. Outcome("ok", buffer, chip, tdo).err = "ok" BY OutcomeFields
    <3> QED BY <1>8, <3>1 DEF RunAlloc
  <2> QED BY <1>1, <1>3, <1>8, <2>1 DEF RunMove, RunStarts
<1>9. CASE /\ o.err = "ok" /\ seg' = RunTo(e) /\ UNCHANGED result
           /\ pc' = (IF IsShift(StateAt(e)) THEN "leading" ELSE "tms")
  <2>1. PICK run : run = RunTo(e) OBVIOUS
  <2>2. run.from = cur /\ run.to = e + 1 /\ run.leave = (IsShift(Here[e]) /\ ~IsShift(Here[e + 1])) BY <1>6, <2>1 DEF RunTo
  <2>3. seg' = run /\ Here' = Here /\ tms' = tms /\ cur' = cur BY <1>1, <1>9, <2>1 DEF Here
  <2>4. CASE IsShift(Here[e])
    <3>1. pc' = "leading" BY <1>6, <1>9, <2>4
    <3>2. /\ run.from < run.to /\ run.to <= Len(tms) /\ \A k \in run.from .. run.to - 1 : IsShift(Here[k])
      <4>1. cur < e + 1 /\ e + 1 <= Len(tms) /\ (e + 1) - 1 = e BY <1>4, <1>5
      <4> QED BY <1>7, <2>2, <2>4, <4>1
    <3>3. InnerBytes(run) <= chip_buffer_size
      <4>1. tms \in ScanVectors /\ state \in JtagStates BY <1>1 DEF IPlace, IType
      <4>2. e + 1 \in 1 .. Len(tms) /\ cur \in 0 .. (e + 1) - 1 BY <1>4, <1>5
      <4>3. PICK bare : bare = [NoSeg EXCEPT !.from = cur, !.to = e + 1] OBVIOUS
      <4>4. bare.from = run.from /\ bare.to = run.to BY <2>2, <4>3 DEF NoSeg
      <4>5. \A k \in cur .. (e + 1) - 1 : IsShift(jtag_path(jtag_next_state, state, tms)[k]) BY <2>2, <3>2 DEF Here, Along
      <4>6. InnerBytes(bare) <= chip_buffer_size BY <4>1, <4>2, <4>3, <4>5 DEF ShortRuns
      <4>7. InnerBytes(bare) = InnerBytes(run) BY <4>4 DEF InnerBytes, InnerEnd, LeadingOnly, NumLeading
      <4> QED BY <4>6, <4>7
    <3>4. run.leave <=> ~IsShift(Here[run.to]) BY <2>2, <2>4
    <3>5. ShiftRun' BY <2>3, <3>2, <3>3, <3>4 DEF ShiftRun
    <3>6. At(pc, cur)' BY <2>2, <2>3, <3>1, <3>5 DEF At, PartStart
    <3>7. \/ UNCHANGED buffer
          \/ InnerBytes(seg') > 0 /\ \E q \in pool_alloc(buffer, chip, tdo) : q.err = "ok" /\ buffer' = q.b
      <4>1. buffer' = o.b BY <1>3 DEF RunStarts
      <4>2. CASE InnerBytes(run) > 0
        <5>1. o \in pool_alloc(buffer, chip, tdo) BY <1>6, <2>1, <2>4, <4>2 DEF RunAlloc
        <5> QED BY <1>9, <2>3, <4>1, <4>2, <5>1
      <4>3. CASE ~(InnerBytes(run) > 0)
        <5>1. o = Outcome("ok", buffer, chip, tdo) BY <2>1, <4>3 DEF RunAlloc
        <5> QED BY <4>1, <5>1, OutcomeFields
      <4> QED BY <4>2, <4>3
    <3> QED BY <1>1, <1>9, <3>1, <3>6, <3>7 DEF RunMove
  <2>5. CASE ~IsShift(Here[e])
    <3>1. pc' = "tms" BY <1>6, <1>9, <2>5
    <3>2. /\ cur < run.to /\ run.to <= Len(tms) /\ \A k \in cur .. run.to - 1 : ~IsShift(Here[k])
      <4>1. cur < e + 1 /\ e + 1 <= Len(tms) /\ (e + 1) - 1 = e BY <1>4, <1>5
      <4> QED BY <1>7, <2>2, <2>5, <4>1
    <3>3. At(pc, cur)' BY <2>3, <3>1, <3>2 DEF At, ShiftParts
    <3>4. UNCHANGED buffer
      <4>1. o = Outcome("ok", buffer, chip, tdo) BY <1>6, <2>5 DEF RunAlloc
      <4> QED BY <1>3, <4>1, OutcomeFields DEF RunStarts
    <3> QED BY <1>1, <1>9, <3>1, <3>3, <3>4 DEF RunMove
  <2> QED BY <2>4, <2>5
<1> QED BY <1>3, <1>8, <1>9 DEF RunStarts
-----------------------------------------------------------------------------
(* Each step of a scan starts from its place. *)

LEMMA AtKept ==
    ASSUME NEW next, NEW next_pc, At(next_pc, next), cur' = next, pc' = next_pc, UNCHANGED <<state, tms, seg>>
    PROVE  At(pc, cur)'
BY DEF At, ShiftRun, Here, PartStart

LEMMA PerformPlace ==
    ASSUME IPlace, pc # "idle", NEW outcomes, NEW next, NEW next_pc, Perform(outcomes, next, next_pc), At(next_pc, next)
    PROVE  IPlace'
<1>1. PICK o \in outcomes :
        \/ o.err # "ok" /\ Fail(o)
        \/ o.err = "ok" /\ cur' = next /\ pc' = next_pc /\ UNCHANGED <<state, tms, seg, result, failures>>
  BY DEF Perform
<1>2. CASE Fail(o)
  <2>1. pc' = "done" /\ tms' = tms BY <1>2 DEF Fail
  <2>2. At(pc, cur)' BY <2>1 DEF At, ShiftParts
  <2> QED BY <2>1, <2>2 DEF IPlace
<1>3. CASE cur' = next /\ pc' = next_pc /\ UNCHANGED <<state, tms, seg, result, failures>>
  <2>1. At(pc, cur)' BY <1>3, AtKept
  <2> QED BY <1>3, <2>1 DEF IPlace
<1> QED BY <1>1, <1>2, <1>3

LEMMA SkipPlace ==
    ASSUME IPlace, pc # "idle", NEW next_pc, SkipMove(next_pc)
    PROVE  IPlace'
<1>1. At(next_pc, cur) /\ cur' = cur /\ pc' = next_pc /\ UNCHANGED <<state, tms, seg>> BY DEF SkipMove, Skip
<1>2. At(pc, cur)' BY <1>1, AtKept
<1> QED BY <1>1, <1>2 DEF IPlace

LEMMA IdlePlace == ASSUME pc' = "idle", cur' = 0 PROVE IPlace'
BY DEF IPlace, At, ShiftParts

LEMMA DonePlace == ASSUME IPlace, pc # "idle", pc' = "done", tms' = tms PROVE IPlace'
BY DEF IPlace, At, ShiftParts

LEMMA PlaceInit == ASSUME Init PROVE IPlace
BY DEF Init, IPlace, At, ShiftParts

LEMMA ScanStepPlace == ASSUME ShortRuns, IType, IPlace, ScanStep PROVE IPlace'
<1>1. CASE NextRun
  <2>1. pc = "next" /\ tms' = tms /\ RunMove BY <1>1, NextRunMoves
  <2>2. pc' = "done" \/ At(pc, cur)' BY <2>1 DEF RunMove
  <2> QED BY <2>1, <2>2, DonePlace DEF IPlace
<1>2. CASE append_tms_shift
  <2>1. PICK n, next_pc : TmsMove(n, next_pc) BY <1>2, TmsMoves
  <2>2. pc # "idle" BY <1>2 DEF append_tms_shift
  <2> QED BY <2>1, <2>2, PerformPlace DEF TmsMove
<1>3. CASE Leading
  <2>1. (\E n : BitsMove(n, "whole")) \/ SkipMove("whole") BY <1>3, LeadingMoves
  <2>2. pc # "idle" BY <1>3 DEF Leading
  <2> QED BY <2>1, <2>2, PerformPlace, SkipPlace DEF BitsMove
<1>4. CASE Whole
  <2>1. (\E m : ChunkMove(m)) \/ SkipMove("trailing") BY <1>4, WholeMoves
  <2>2. pc # "idle" BY <1>4, WholeIs
  <2> QED BY <2>1, <2>2, PerformPlace, SkipPlace DEF ChunkMove
<1>5. CASE Trailing
  <2>1. (\E n : BitsMove(n, "last")) \/ SkipMove("last") BY <1>5, TrailingMoves
  <2>2. pc # "idle" BY <1>5 DEF Trailing
  <2> QED BY <2>1, <2>2, PerformPlace, SkipPlace DEF BitsMove
<1>6. CASE LastBit
  <2>1. PICK bit : LastMove(bit) BY <1>6, LastMoves
  <2>2. pc # "idle" BY <1>6 DEF LastBit
  <2> QED BY <2>1, <2>2, PerformPlace DEF LastMove
<1>7. CASE Finish
  <2>1. pc = "next" /\ pc' = "done" /\ tms' = tms BY <1>7 DEF Finish, Fail
  <2> QED BY <2>1, DonePlace
<1> QED BY <1>1, <1>2, <1>3, <1>4, <1>5, <1>6, <1>7 DEF ScanStep

LEMMA PlaceStep == ASSUME ShortRuns, IType, IPlace, [Next]_vars PROVE IPlace'
<1>1. CASE mpsse_adapter_scan
  <2>1. pc = "idle" /\ pc' = "next" /\ cur' = cur /\ tms' \in ScanVectors BY <1>1 DEF mpsse_adapter_scan
  <2>2. cur = 0 BY <2>1 DEF IPlace, At
  <2>3. Len(tms') \in Nat BY <2>1, ScanAssumption
  <2>4. At(pc, cur)' BY <2>1, <2>2, <2>3 DEF At, ShiftParts
  <2> QED BY <2>1, <2>4 DEF IPlace
<1>2. CASE mpsse_adapter_set_frequency
  <2>1. pc = "idle" /\ pc' = pc /\ cur' = cur BY <1>2 DEF mpsse_adapter_set_frequency
  <2> QED BY <2>1, IdlePlace DEF IPlace, At
<1>3. CASE ScanStep BY <1>3, ScanStepPlace
<1>4. CASE Return BY <1>4, IdlePlace DEF Return
<1>5. CASE mpsse_adapter_close BY <1>5, IdlePlace DEF mpsse_adapter_close, Reopen
<1>6. CASE Killed BY <1>6, IdlePlace DEF Killed, Reopen
<1>7. CASE UNCHANGED vars
  <2>1. UNCHANGED <<pc, cur, tms, state, seg>> BY <1>7 DEF vars
  <2>2. At(pc, cur) BY DEF IPlace
  <2>3. At(pc, cur)' BY <2>1, <2>2, AtKept
  <2> QED BY <2>1, <2>3 DEF IPlace
<1> QED BY <1>1, <1>2, <1>3, <1>4, <1>5, <1>6, <1>7 DEF Next
-----------------------------------------------------------------------------
(* The invariant: what buffer, chip and TDO vector have to do with each other. *)

\* Nothing is under way.
Settled(b, c) ==
    /\ b.tx = <<>> /\ b.tx_num = 0 /\ b.rx_num = 0 /\ b.observers = <<>> /\ b.pool = 0
    /\ c.queue = <<>> /\ c.expects = 0

\* Between two scans TMS has the level at which a TAP stays in its Shift state.
Ready ==
    /\ Settled(buffer, chip) /\ tdo = <<>> /\ chip.clocks = 0 /\ chip.ordered /\ chip.shifted = {}
    /\ IsShift(state) => chip.pin = 0

\* In a scan, all that has been appended comes to a chip and a TDO vector that are right
\* up to cur; a bit takes no more than two allocations, the bulk copier one more ahead.
Extra(where) == IF where \in {"leading", "whole"} /\ InnerBytes(seg) > 0 THEN 1 ELSE 0
Moving == (\E e : InScan(buffer, chip, tdo, e, state, tms, cur)) /\ buffer.pool <= 2 * cur + Extra(pc)

Complete ==
    /\ Settled(buffer, chip)
    /\ \E s \in JtagStates : /\ Rides(chip, s, tms, Len(tms)) /\ state = Along(s, tms)[Len(tms)]
                             /\ tdo = FilledTo(Along(s, tms), Len(tms), Len(tms))

IExact == failures = 0 => /\ result = "ok" /\ (pc = "idle" => Ready) /\ (pc \in Scanning => Moving)
                          /\ (pc = "done" => Complete)

LEMMA NotFailed == ASSUME IType, failures + 1 = 0 PROVE FALSE
BY Sizes DEF IType

LEMMA PerformExact ==
    ASSUME IType, IExact, pc \in Scanning, NEW outcomes, NEW next \in Nat, NEW next_pc \in Scanning, NEW pool \in Nat,
           failures = 0 => (\A o \in outcomes : Arrives(o, state, tms, next, pool)),
           failures = 0 => pool <= 2 * next + Extra(next_pc),
           Perform(outcomes, next, next_pc)
    PROVE  IExact'
<1>1. PICK o \in outcomes :
        /\ buffer' = o.b /\ chip' = o.c /\ tdo' = o.t
        /\ \/ o.err # "ok" /\ Fail(o)
           \/ o.err = "ok" /\ cur' = next /\ pc' = next_pc /\ UNCHANGED <<state, tms, seg, result, failures>>
  BY DEF Perform
<1> SUFFICES ASSUME failures' = 0
             PROVE  /\ result' = "ok" /\ (pc' = "idle" => Ready') /\ (pc' \in Scanning => Moving')
                    /\ (pc' = "done" => Complete')
  BY DEF IExact
<1>2. CASE o.err # "ok" /\ Fail(o)
  <2>1. failures = 0 /\ o.err # "usb" BY <1>2, NotFailed DEF Fail
  <2>2. o.err \in {"ok", "usb"} BY <2>1 DEF Arrives
  <2> QED BY <1>2, <2>1, <2>2
<1>3. CASE o.err = "ok" /\ cur' = next /\ pc' = next_pc /\ UNCHANGED <<state, tms, seg, result, failures>>
  <2>1. failures = 0 /\ result = "ok" BY <1>3 DEF IExact
  <2>2. Arrives(o, state, tms, next, pool) /\ pool <= 2 * next + Extra(next_pc) BY <2>1
  <2>3. o.b.pool = pool /\ \E e : InScan(o.b, o.c, o.t, e, state, tms, next) BY <1>3, <2>2 DEF Arrives
  <2>4. Extra(pc)' = Extra(next_pc) BY <1>3 DEF Extra
  <2>5. Moving' BY <1>1, <1>3, <2>2, <2>3, <2>4 DEF Moving
  <2>6. pc' \in Scanning /\ pc' # "idle" /\ pc' # "done" BY <1>3 DEF Scanning, ShiftParts
  <2> QED BY <1>3, <2>1, <2>5, <2>6
<1> QED BY <1>1, <1>2, <1>3

LEMMA SkipExact ==
    ASSUME IType, IExact, pc \in Scanning, NEW next_pc \in Scanning, Skip(next_pc), Extra(pc) <= Extra(next_pc)
    PROVE  IExact'
<1> SUFFICES ASSUME failures' = 0
             PROVE  /\ result' = "ok" /\ (pc' = "idle" => Ready') /\ (pc' \in Scanning => Moving')
                    /\ (pc' = "done" => Complete')
  BY DEF IExact
<1>1. pc' = next_pc /\ UNCHANGED <<buffer, chip, state, tdo, tms, seg, cur, result, failures>> BY DEF Skip
<1>2. result = "ok" /\ Moving BY <1>1 DEF IExact
<1>3. Extra(pc)' = Extra(next_pc) BY <1>1 DEF Extra
<1>4. buffer.pool \in Nat /\ cur \in Nat BY Counts DEF IType
<1>5. Extra(pc) \in {0, 1} /\ Extra(next_pc) \in {0, 1} BY DEF Extra
<1>6. buffer.pool <= 2 * cur + Extra(next_pc) BY <1>2, <1>4, <1>5 DEF Moving
<1>7. Moving' BY <1>1, <1>2, <1>3, <1>6 DEF Moving
<1>8. pc' # "idle" /\ pc' # "done" BY <1>1 DEF Scanning, ShiftParts
<1> QED BY <1>1, <1>2, <1>7, <1>8

\* The pool of a scan under way.
LEMMA PoolNow ==
    ASSUME IType, Moving
    PROVE  /\ buffer.pool \in Nat /\ cur \in Nat /\ buffer.pool <= 2 * cur + Extra(pc)
           /\ \A where : Extra(where) \in {0, 1}
           /\ pc \notin {"leading", "whole"} => Extra(pc) = 0
BY Counts DEF IType, Moving, Extra

LEMMA PoolEnough ==
    ASSUME PoolFits, tms \in ScanVectors, NEW k \in Nat, k <= Len(tms)
    PROVE  2 * k <= PoolSize
<1>1. Len(tms) \in Nat /\ 2 * Len(tms) <= PoolSize BY ScanAssumption DEF PoolFits
<1> QED BY <1>1, Sizes

LEMMA BitsRoom ==
    ASSUME NEW pool \in Nat, NEW k \in Nat, NEW n \in Nat, n > 0, NEW x \in {0, 1}, NEW y \in {0, 1}, x <= y, pool <= 2 * k + x
    PROVE  /\ pool + 2 <= 2 * (k + n) + y
           /\ \A size \in Nat : 2 * (k + n + 1) <= size => pool + 2 <= size
OBVIOUS

LEMMA BitsExact ==
    ASSUME PoolFits, IType, IPlace, IExact, NEW n, NEW next_pc, BitsMove(n, next_pc),
           \/ pc = "leading" /\ next_pc = "whole"
           \/ pc = "trailing" /\ next_pc = "last"
    PROVE  IExact'
<1> DEFINE cmd == Command("bits", Positions(cur, n), <<>>, 0)
           copier == Copier(8 - n, cur, n)
<1>1. /\ Perform(AddBits(cmd, copier), cur + n, next_pc) /\ n \in 1 .. 7 /\ cur + n < Len(tms)
      /\ \A i \in cur .. cur + n : IsShift(Here[i])
  BY DEF BitsMove
<1>2. pc \in Scanning /\ next_pc \in Scanning BY DEF Scanning, ShiftParts
<1>3. cur \in Nat /\ tms \in Seq({0, 1}) /\ state \in JtagStates /\ n \in Nat /\ n > 0 /\ Len(tms) \in Nat BY <1>1 DEF IType
<1>4. buffer.pool + 2 \in Nat /\ cur + n \in Nat BY <1>3, Counts DEF IType
<1>5. ASSUME failures = 0
      PROVE  buffer.pool + 2 <= 2 * (cur + n) + Extra(next_pc) /\ buffer.pool + 2 <= PoolSize
  <2>1. Moving BY <1>2, <1>5 DEF IExact
  <2>2. Extra(pc) <= Extra(next_pc) /\ Extra(pc) \in {0, 1} /\ Extra(next_pc) \in {0, 1} BY DEF Extra
  <2>3. buffer.pool \in Nat /\ buffer.pool <= 2 * cur + Extra(pc) BY <2>1, PoolNow
  <2>4. tms \in ScanVectors BY DEF IPlace
  <2>5. cur + n + 1 \in Nat /\ cur + n + 1 <= Len(tms) BY <1>1, <1>3
  <2>6. 2 * (cur + n + 1) <= PoolSize BY ONLY PoolFits, <2>4, <2>5, PoolEnough
  <2> QED BY ONLY <1>3, <2>2, <2>3, <2>6, Sizes, BitsRoom
<1>6. ASSUME failures = 0, NEW o \in AddBits(cmd, copier)
      PROVE  Arrives(o, state, tms, cur + n, buffer.pool + 2)
  <2>1. Moving BY <1>2, <1>6 DEF IExact
  <2>2. PICK e : InScan(buffer, chip, tdo, e, state, tms, cur) BY <2>1 DEF Moving
  <2>3. e \in Chips /\ Rides(e, state, tms, cur) BY <2>2 DEF InScan
  <2>4. IsShift(Along(state, tms)[cur]) BY <1>1, <1>3 DEF Here
  <2>5. Tracks(e, tms) /\ e.clocks = cur /\ e.expects = 0 /\ e.agreed = (e.began = state) /\ e.pin = 0
    BY <2>3, <2>4 DEF Rides
  <2>6. \A i \in cur .. cur + n : IsShift(Along(state, tms)[i]) BY <1>1 DEF Here
  <2>7. cur + n <= Len(tms) /\ 0 \in Nat BY <1>1, <1>3
  <2>8. PICK c1 : c1 = cmd OBVIOUS
  <2>9. c1 = Command("bits", Positions(cur, n), <<>>, 0) BY <2>8
  <2>10. /\ c1 \in Commands /\ Answer(e, c1) = Sampled(cur, n)
         /\ Execute(e, c1) \in Chips /\ Rides(Execute(e, c1), state, tms, cur + n)
    BY ONLY <1>3, <2>3, <2>5, <2>6, <2>7, <2>9, BitsRide
  <2>11. \A i \in cur .. cur + n - 1 : IsShift(Along(state, tms)[i]) BY <1>3, <2>6
  <2>12. buffer.pool + 2 <= PoolSize BY <1>5, <1>6
  <2>13. o \in AddBits(c1, Copier(8 - n, cur, n)) BY <1>6, <2>8
  <2> QED BY ONLY <1>1, <1>3, <2>2, <2>10, <2>11, <2>12, <2>13, BitsArrive
<1> HIDE DEF cmd, copier
<1> QED BY ONLY <1>1, <1>2, <1>4, <1>5, <1>6, IType, IExact, PerformExact

LEMMA ChunkRoom ==
    ASSUME NEW pool \in Nat, NEW k \in Nat, NEW m \in Nat, m > 0, pool <= 2 * k + 1
    PROVE  /\ pool + 1 <= 2 * (k + 8 * m) /\ \A size \in Nat : 2 * (k + 1) <= size => pool < size
OBVIOUS

LEMMA ChunkExact ==
    ASSUME PoolFits, IType, IPlace, IExact, NEW m, ChunkMove(m), pc = "whole"
    PROVE  IExact'
<1>1. Perform(Chunk, cur + 8 * m, "trailing") BY DEF ChunkMove
<1>2. /\ m \in Nat /\ m > 0 /\ m <= chip_buffer_size /\ cur + 8 * m < Len(tms)
      /\ ChunkSize = m /\ Bulk /\ ChunkCopier = Copier(0, cur, 8 * m)
      /\ ChunkData = Command("data", Positions(cur, 8 * m), <<>>, m)
  BY DEF ChunkMove
<1>3. \A i \in cur .. cur + 8 * m : IsShift(Along(state, tms)[i]) BY DEF ChunkMove, Here
<1>4. pc \in Scanning /\ "trailing" \in Scanning BY DEF Scanning, ShiftParts
<1>5. cur \in Nat /\ tms \in Seq({0, 1}) /\ state \in JtagStates /\ Len(tms) \in Nat BY DEF IType
<1>6. buffer.pool + 1 \in Nat /\ cur + 8 * m \in Nat BY <1>2, <1>5, Counts DEF IType
<1>7. ASSUME failures = 0
      PROVE  buffer.pool + 1 <= 2 * (cur + 8 * m) + Extra("trailing") /\ buffer.pool < PoolSize
  <2>1. Moving BY <1>4, <1>7 DEF IExact
  <2>2. Extra(pc) \in {0, 1} /\ Extra("trailing") = 0 BY DEF Extra
  <2>3. buffer.pool \in Nat /\ buffer.pool <= 2 * cur + 1 BY <1>5, <2>1, <2>2, PoolNow
  <2>4. tms \in ScanVectors BY DEF IPlace
  <2>5. cur + 1 \in Nat /\ cur + 1 <= Len(tms) BY <1>2, <1>5
  <2>6. 2 * (cur + 1) <= PoolSize BY ONLY PoolFits, <2>4, <2>5, PoolEnough
  <2>7. buffer.pool + 1 <= 2 * (cur + 8 * m) /\ buffer.pool < PoolSize BY ONLY <1>2, <1>5, <2>3, <2>6, Sizes, ChunkRoom
  <2> QED BY <1>2, <1>5, <2>2, <2>7
<1>8. ASSUME failures = 0, NEW o \in Chunk
      PROVE  Arrives(o, state, tms, cur + 8 * m, buffer.pool + 1)
  <2>1. Moving BY <1>4, <1>8 DEF IExact
  <2>2. PICK e : InScan(buffer, chip, tdo, e, state, tms, cur) BY <2>1 DEF Moving
  <2>3. cur + 8 * m <= Len(tms) BY <1>2, <1>5
  <2>4. buffer.pool < PoolSize BY <1>7, <1>8
  <2> QED BY ONLY <1>2, <1>3, <1>5, <1>8, <2>2, <2>3, <2>4, ChunkArrives
<1> QED BY ONLY <1>1, <1>4, <1>6, <1>7, <1>8, IType, IExact, PerformExact

LEMMA LastExact ==
    ASSUME PoolFits, IType, IPlace, IExact, NEW bit, LastMove(bit), pc = "last"
    PROVE  IExact'
<1> DEFINE cmd == Command("last", <<cur>>, <<bit>>, 0)
           copier == Copier(8 - 1, cur, 1)
<1>1. /\ Perform(AddBits(cmd, copier), cur + 1, "next") /\ bit \in {0, 1} /\ bit = tms[cur + 1] /\ cur + 1 <= Len(tms)
      /\ IsShift(Along(state, tms)[cur])
  BY DEF LastMove, Here
<1>2. pc \in Scanning /\ "next" \in Scanning BY DEF Scanning, ShiftParts
<1>3. cur \in Nat /\ tms \in Seq({0, 1}) /\ state \in JtagStates /\ Len(tms) \in Nat BY DEF IType
<1>4. buffer.pool + 2 \in Nat /\ cur + 1 \in Nat BY <1>3, Counts DEF IType
<1>5. ASSUME failures = 0
      PROVE  buffer.pool + 2 <= 2 * (cur + 1) + Extra("next") /\ buffer.pool + 2 <= PoolSize
  <2>1. Moving BY <1>2, <1>5 DEF IExact
  <2>2. Extra(pc) = 0 /\ Extra("next") = 0 BY DEF Extra
  <2>3. buffer.pool \in Nat /\ buffer.pool <= 2 * cur BY <1>3, <2>1, <2>2, PoolNow
  <2>4. tms \in ScanVectors BY DEF IPlace
  <2>5. 2 * (cur + 1) <= PoolSize BY ONLY PoolFits, <1>1, <1>4, <2>4, PoolEnough
  <2> QED BY <1>3, <2>2, <2>3, <2>5, Sizes
<1>6. ASSUME failures = 0, NEW o \in AddBits(cmd, copier)
      PROVE  Arrives(o, state, tms, cur + 1, buffer.pool + 2)
  <2>1. Moving BY <1>2, <1>6 DEF IExact
  <2>2. PICK e : InScan(buffer, chip, tdo, e, state, tms, cur) BY <2>1 DEF Moving
  <2>3. e \in Chips /\ Rides(e, state, tms, cur) BY <2>2 DEF InScan
  <2>4. PICK c1 : c1 = cmd OBVIOUS
  <2>5. c1 = Command("last", <<cur>>, <<bit>>, 0) BY <2>4
  <2>6. /\ c1 \in Commands /\ Answer(e, c1) = Sampled(cur, 1)
        /\ Execute(e, c1) \in Chips /\ Rides(Execute(e, c1), state, tms, cur + 1)
    BY ONLY <1>1, <1>3, <2>3, <2>5, LastRides
  <2>7. \A i \in cur .. cur + 1 - 1 : IsShift(Along(state, tms)[i]) BY <1>1, <1>3
  <2>8. buffer.pool + 2 <= PoolSize BY <1>5, <1>6
  <2>9. o \in AddBits(c1, Copier(8 - 1, cur, 1)) /\ 1 \in 1 .. 7 BY <1>6, <2>4
  <2> QED BY ONLY <1>3, <2>2, <2>6, <2>7, <2>8, <2>9, BitsArrive
<1> HIDE DEF cmd, copier
<1> QED BY ONLY <1>1, <1>2, <1>4, <1>5, <1>6, IType, IExact, PerformExact

LEMMA TmsExact ==
    ASSUME IType, IExact, NEW n, NEW next_pc, TmsMove(n, next_pc), pc = "tms"
    PROVE  IExact'
<1> DEFINE cmd == Command("tms", <<>>, SubSeq(tms, cur + 1, cur + n), 0)
           outcomes == mpsse_buffer_append(buffer, chip, tdo, <<cmd>>, 3, <<>>, 0)
<1>1. /\ Perform(outcomes, cur + n, next_pc) /\ n \in Nat /\ n > 0 /\ cur + n <= Len(tms) /\ next_pc \in {"next", "tms"}
      /\ \A i \in cur .. cur + n - 1 : ~IsShift(Along(state, tms)[i])
  BY DEF TmsMove, Here
<1>2. pc \in Scanning /\ next_pc \in Scanning BY <1>1 DEF Scanning, ShiftParts
<1>3. cur \in Nat /\ tms \in Seq({0, 1}) /\ state \in JtagStates /\ Len(tms) \in Nat BY DEF IType
<1>4. buffer.pool \in Nat /\ cur + n \in Nat BY <1>1, <1>3, Counts DEF IType
<1>5. ASSUME failures = 0 PROVE buffer.pool <= 2 * (cur + n) + Extra(next_pc)
  <2>1. Moving BY <1>2, <1>5 DEF IExact
  <2>2. Extra(pc) = 0 /\ Extra(next_pc) = 0 BY <1>1 DEF Extra
  <2>3. buffer.pool <= 2 * cur BY <1>3, <2>1, <2>2, PoolNow
  <2> QED BY <1>1, <1>3, <1>4, <2>2, <2>3
<1>6. ASSUME failures = 0, NEW o \in outcomes
      PROVE  Arrives(o, state, tms, cur + n, buffer.pool)
  <2>1. Moving BY <1>2, <1>6 DEF IExact
  <2>2. PICK e : InScan(buffer, chip, tdo, e, state, tms, cur) BY <2>1 DEF Moving
  <2>3. PICK c1 : c1 = cmd OBVIOUS
  <2>4. c1 = Command("tms", <<>>, SubSeq(tms, cur + 1, cur + n), 0) BY <2>3
  <2>5. o \in mpsse_buffer_append(buffer, chip, tdo, <<c1>>, 3, <<>>, 0) BY <1>6, <2>3
  <2> QED BY ONLY <1>1, <1>3, <2>2, <2>4, <2>5, TmsArrives
<1> HIDE DEF cmd, outcomes
<1> QED BY ONLY <1>1, <1>2, <1>4, <1>5, <1>6, IType, IExact, PerformExact

LEMMA NextRunExact ==
    ASSUME ShortRuns, PoolFits, IType, IPlace, IExact, NextRun
    PROVE  IExact'
<1>1. pc = "next" /\ cur < Len(tms) /\ UNCHANGED <<chip, state, tdo, tms, cur, failures>> /\ RunMove BY NextRunMoves
<1> SUFFICES ASSUME failures = 0
             PROVE  /\ result' = "ok" /\ (pc' = "idle" => Ready') /\ (pc' \in Scanning => Moving')
                    /\ (pc' = "done" => Complete')
  BY <1>1 DEF IExact
<1>2. result = "ok" /\ Moving BY <1>1 DEF IExact, Scanning
<1>3. cur \in Nat /\ Len(tms) \in Nat /\ buffer.pool \in Nat /\ buffer \in Buffers BY Counts DEF IType
<1>4. buffer.pool <= 2 * cur
  <2>1. Extra(pc) = 0 BY <1>1 DEF Extra
  <2> QED BY <1>2, <1>3, <2>1 DEF Moving
<1>5. buffer.pool < PoolSize
  <2>1. cur + 1 \in Nat /\ cur + 1 <= Len(tms) /\ tms \in ScanVectors BY <1>1, <1>3 DEF IPlace
  <2>2. 2 * (cur + 1) <= PoolSize BY ONLY PoolFits, <2>1, PoolEnough
  <2> QED BY <1>3, <1>4, <2>2, Sizes
<1>6. PICK e : InScan(buffer, chip, tdo, e, state, tms, cur) BY <1>2 DEF Moving
<1>7. e \in Chips /\ Rides(e, state, tms, cur) /\ Soon(buffer, chip, tdo, e, FilledTo(Along(state, tms), Len(tms), cur))
  BY <1>6 DEF InScan
<1>8. ASSUME NEW o \in pool_alloc(buffer, chip, tdo)
      PROVE  /\ o.err = "ok" /\ o.b.pool = buffer.pool + 1 /\ o.c = chip /\ o.t = tdo
             /\ InScan(o.b, chip, tdo, e, state, tms, cur)
  <2>1. /\ o.err = "ok" /\ o.b.pool = buffer.pool + 1
        /\ Soon(o.b, o.c, o.t, e, FilledTo(Along(state, tms), Len(tms), cur))
    BY ONLY <1>5, <1>7, <1>8, AllocSoon
  <2>2. o.c = chip /\ o.t = tdo BY <1>8, OutcomeFields DEF pool_alloc
  <2> QED BY <1>7, <2>1, <2>2 DEF InScan
<1>9. /\ UNCHANGED result /\ pc' \in {"tms", "leading"}
      /\ \/ UNCHANGED buffer
         \/ /\ pc' = "leading" /\ InnerBytes(seg') > 0
            /\ \E o \in pool_alloc(buffer, chip, tdo) : o.err = "ok" /\ buffer' = o.b
  BY <1>1, <1>8 DEF RunMove
<1>10. Extra(pc)' \in {0, 1} BY DEF Extra
<1>11. CASE UNCHANGED buffer
  <2>1. buffer'.pool <= 2 * cur' + Extra(pc)' BY <1>1, <1>3, <1>4, <1>10, <1>11
  <2>2. Moving' BY <1>1, <1>6, <1>11, <2>1 DEF Moving
  <2> QED BY <1>2, <1>9, <2>2
<1>12. CASE /\ pc' = "leading" /\ InnerBytes(seg') > 0
            /\ \E o \in pool_alloc(buffer, chip, tdo) : o.err = "ok" /\ buffer' = o.b
  <2>1. PICK o \in pool_alloc(buffer, chip, tdo) : buffer' = o.b BY <1>12
  <2>2. Extra(pc)' = 1 BY <1>12 DEF Extra
  <2>3. buffer'.pool <= 2 * cur' + Extra(pc)' BY <1>1, <1>3, <1>4, <1>8, <2>1, <2>2
  <2>4. InScan(buffer', chip', tdo', e, state', tms', cur') BY <1>1, <1>8, <2>1
  <2>5. Moving' BY <2>3, <2>4 DEF Moving
  <2> QED BY <1>2, <1>9, <2>5
<1> QED BY <1>9, <1>11, <1>12

\* The final flush leaves nothing behind.
LEMMA FinishLands ==
    ASSUME IType, IPlace, IExact, Finish, failures' = 0
    PROVE  /\ failures = 0 /\ result = "ok" /\ pc = "next" /\ pc' = "done" /\ UNCHANGED <<tms, result>>
           /\ Settled(buffer', chip') /\ Rides(chip', state, tms, Len(tms)) /\ state' = Along(state, tms)[Len(tms)]
           /\ tdo' = FilledTo(Along(state, tms), Len(tms), Len(tms))
           /\ \E o \in mpsse_buffer_flush(buffer, chip, tdo) : chip' = o.c /\ o.err = "ok"
<1>1. pc = "next" /\ cur >= Len(tms) BY DEF Finish
<1>2. PICK o \in mpsse_buffer_flush(buffer, chip, tdo) :
        /\ chip' = o.c /\ tdo' = o.t
        /\ \/ o.err # "ok" /\ buffer' = o.b /\ Fail(o)
           \/ /\ o.err = "ok" /\ buffer' = pool_reset(o.b) /\ state' = StateAt(Len(tms)) /\ pc' = "done"
              /\ UNCHANGED <<tms, seg, cur, result, failures>>
  BY DEF Finish
<1>3. failures = 0 /\ o.err # "usb" BY <1>2, NotFailed DEF Fail
<1>4. result = "ok" /\ Moving BY <1>1, <1>3 DEF IExact, Scanning
<1>5. PICK e : InScan(buffer, chip, tdo, e, state, tms, cur) BY <1>4 DEF Moving
<1>6. cur = Len(tms) /\ Len(tms) \in Nat /\ tms \in Seq({0, 1}) /\ state \in JtagStates
  BY <1>1 DEF IPlace, At, IType
<1>7. e \in Chips /\ Rides(e, state, tms, Len(tms)) /\ Soon(buffer, chip, tdo, e, FilledTo(Along(state, tms), Len(tms), Len(tms)))
  BY <1>5, <1>6 DEF InScan
<1>8. /\ Leaves(o, e, FilledTo(Along(state, tms), Len(tms), Len(tms)), buffer.pool)
      /\ o.err = "ok" => /\ o.b.tx = <<>> /\ o.b.tx_num = 0 /\ o.b.rx_num = 0 /\ o.b.observers = <<>>
                         /\ o.t = FilledTo(Along(state, tms), Len(tms), Len(tms)) /\ o.c.queue = <<>> /\ Twin(e, o.c)
  BY ONLY <1>2, <1>7, FlushSoon
<1>9. o.err = "ok" /\ o.b \in Buffers /\ o.c \in Chips BY <1>3, <1>8 DEF Leaves, OutcomeOk
<1>10. /\ buffer' = pool_reset(o.b) /\ state' = StateAt(Len(tms)) /\ pc' = "done"
       /\ UNCHANGED <<tms, result>>
  BY <1>2, <1>9
<1>11. state' = Along(state, tms)[Len(tms)]
  <2>1. StateAt(Len(tms)) = Here[Len(tms)] BY <1>6, StateIs
  <2> QED BY <1>10, <2>1 DEF Here
<1>12. Rides(o.c, state, tms, Len(tms))
  <2>1. Twin(e, o.c) BY <1>8, <1>9
  <2> QED BY ONLY <1>7, <2>1 DEF Rides, Tracks, Twin
<1>13. Settled(buffer', chip')
  <2>1. o.c.expects = 0 BY <1>12 DEF Rides
  <2>2. /\ pool_reset(o.b).tx = o.b.tx /\ pool_reset(o.b).tx_num = o.b.tx_num /\ pool_reset(o.b).rx_num = o.b.rx_num
        /\ pool_reset(o.b).observers = o.b.observers /\ pool_reset(o.b).pool = 0
    BY <1>9 DEF pool_reset, Buffers
  <2> QED BY <1>2, <1>8, <1>9, <1>10, <2>1, <2>2 DEF Settled
<1> QED BY <1>1, <1>2, <1>3, <1>4, <1>8, <1>9, <1>10, <1>11, <1>12, <1>13

LEMMA FinishExact ==
    ASSUME IType, IPlace, IExact, Finish
    PROVE  IExact'
<1> SUFFICES ASSUME failures' = 0
             PROVE  /\ result' = "ok" /\ (pc' = "idle" => Ready') /\ (pc' \in Scanning => Moving')
                    /\ (pc' = "done" => Complete')
  BY DEF IExact
<1>1. /\ result = "ok" /\ pc' = "done" /\ UNCHANGED <<tms, result>>
      /\ Settled(buffer', chip') /\ Rides(chip', state, tms, Len(tms)) /\ state' = Along(state, tms)[Len(tms)]
      /\ tdo' = FilledTo(Along(state, tms), Len(tms), Len(tms))
  BY FinishLands
<1>2. Complete' BY <1>1 DEF Complete, IType
<1>3. pc' # "idle" /\ pc' \notin Scanning BY <1>1 DEF Scanning, ShiftParts
<1> QED BY <1>1, <1>2, <1>3

\* When nothing is under way, nothing will come.
LEMMA SettledSoon ==
    ASSUME NEW b \in Buffers, NEW c \in Chips, Settled(b, c), NEW t, IsVector(t)
    PROVE  Soon(b, c, t, c, t)
<1>1. Executed(c, b.tx) = {c} BY NothingExecuted DEF Settled
<1>2. Len(c.queue) = b.rx_num /\ b.observers = <<>> /\ c.queue = <<>>
  <2>1. Len(<<>>) = 0 OBVIOUS
  <2> QED BY <2>1 DEF Settled
<1>3. InRange(b) BY <1>2 DEF InRange, AllFit
<1>4. RunObservers(<<>>, <<>>, t) = [i \in DOMAIN t |-> t[i]] BY DEF RunObservers
<1>5. RunObservers(b.observers, c.queue, t) = t BY <1>2, <1>4 DEF IsVector
<1>6. Waits(b, c, t, c, t) BY <1>1, <1>2, <1>3, <1>5 DEF Waits
<1>7. Twin(c, c) BY DEF Twin
<1> QED BY <1>6, <1>7 DEF Soon

\* A chip when a scan begins.
Begun(c, s, d) ==
    /\ d \in Chips /\ d.agreed = (c.tap = s) /\ d.began = c.tap /\ d.tap = c.tap /\ d.pin = c.pin /\ d.clocks = c.clocks
    /\ d.expects = c.expects /\ d.queue = c.queue /\ d.ordered = c.ordered /\ d.shifted = c.shifted

LEMMA BeginFields ==
    ASSUME NEW c \in Chips, NEW s
    PROVE  Begun(c, s, [c EXCEPT !.agreed = (c.tap = s), !.began = c.tap])
<1>1. PICK a : a = (c.tap = s) /\ a \in BOOLEAN OBVIOUS
<1>2. PICK x : x = [c EXCEPT !.agreed = a] OBVIOUS
<1>3. x \in Chips BY <1>1, <1>2, ChipAgrees
<1>4. /\ x.agreed = a /\ x.tap = c.tap /\ x.pin = c.pin /\ x.clocks = c.clocks
      /\ x.expects = c.expects /\ x.queue = c.queue /\ x.ordered = c.ordered /\ x.shifted = c.shifted
  BY <1>2 DEF Chips
<1>5. PICK d : d = [x EXCEPT !.began = c.tap] OBVIOUS
<1>6. d \in Chips BY <1>3, <1>5 DEF Chips
<1>7. /\ d.agreed = x.agreed /\ d.began = c.tap /\ d.tap = x.tap /\ d.pin = x.pin /\ d.clocks = x.clocks
      /\ d.expects = x.expects /\ d.queue = x.queue /\ d.ordered = x.ordered /\ d.shifted = x.shifted
  BY <1>3, <1>5 DEF Chips
<1>8. d = [c EXCEPT !.agreed = (c.tap = s), !.began = c.tap] BY <1>1, <1>2, <1>5, Zenon
<1>9. Begun(c, s, d) BY <1>1, <1>4, <1>6, <1>7, Zenon DEF Begun
<1> QED BY <1>8, <1>9, Zenon

LEMMA BeginExact ==
    ASSUME IType, IPlace, IExact, mpsse_adapter_scan
    PROVE  IExact'
<1>1. PICK v \in ScanVectors, fresh \in BOOLEAN :
        /\ fresh => buffer.observers # <<>>
        /\ tms' = v /\ tdo' = [i \in 0 .. Len(v) - 1 |-> Junk]
        /\ buffer' = IF fresh THEN [buffer EXCEPT !.observers = [k \in DOMAIN @ |-> [@[k] EXCEPT !.num = 0]]] ELSE buffer
  BY DEF mpsse_adapter_scan
<1>2. /\ pc = "idle" /\ pc' = "next" /\ UNCHANGED <<state, seg, cur, result, failures>>
      /\ chip' = [chip EXCEPT !.agreed = (chip.tap = state), !.began = chip.tap]
  BY DEF mpsse_adapter_scan
<1> SUFFICES ASSUME failures = 0
             PROVE  /\ result' = "ok" /\ (pc' = "idle" => Ready') /\ (pc' \in Scanning => Moving')
                    /\ (pc' = "done" => Complete')
  BY <1>2 DEF IExact
<1>3. result = "ok" /\ Ready BY <1>2 DEF IExact
<1>4. cur = 0 BY <1>2 DEF IPlace, At
<1>5. buffer' = buffer /\ buffer.pool = 0 BY <1>1, <1>3 DEF Ready, Settled
<1>6. chip.tap \in JtagStates /\ (chip.tap = state) \in BOOLEAN BY DEF IType, Chips
<1>7. /\ chip' \in Chips /\ chip'.agreed = (chip.tap = state) /\ chip'.began = chip.tap /\ chip'.tap = chip.tap
      /\ chip'.pin = chip.pin /\ chip'.clocks = chip.clocks /\ chip'.expects = chip.expects
      /\ chip'.queue = chip.queue /\ chip'.ordered = chip.ordered /\ chip'.shifted = chip.shifted
  <2>1. chip \in Chips BY DEF IType
  <2>2. Begun(chip, state, chip') BY <1>2, <2>1, BeginFields, Zenon
  <2> QED BY <2>2, Zenon DEF Begun
<1>8. Settled(buffer', chip') BY <1>3, <1>5, <1>7 DEF Ready, Settled
<1>9. v \in Seq({0, 1}) /\ Len(v) \in Nat /\ state \in JtagStates BY <1>1, ScanAssumption DEF IType
<1>10. IsVector(tdo') BY <1>1, <1>9 DEF IsVector
<1>11. Soon(buffer', chip', tdo', chip', tdo')
  <2>1. buffer' \in Buffers BY <1>5 DEF IType
  <2> QED BY ONLY <1>7, <1>8, <1>10, <2>1, SettledSoon
<1>12. tdo' = FilledTo(Along(state, v), Len(v), 0)
  <2>1. \A i \in 0 .. Len(v) - 1 : ~(i < 0) BY <1>9
  <2> QED BY <1>1, <2>1, Zenon DEF FilledTo
<1>13. Rides(chip', state, v, 0)
  <2>1. chip'.clocks = 0 /\ chip'.ordered /\ chip'.shifted = {} /\ chip'.expects = 0 BY <1>3, <1>7 DEF Ready, Settled
  <2>2. 0 \in 0 .. Len(v) BY <1>9
  <2>3. Along(chip.tap, v)[0] = chip.tap /\ Along(state, v)[0] = state BY <1>6, <1>9, AlongSteps
  <2>4. InShift(Along(chip.tap, v), 0) = {} BY DEF InShift
  <2>5. Tracks(chip', v) BY <1>7, <2>1, <2>2, <2>3, <2>4 DEF Tracks
  <2>6. IsShift(state) => chip'.pin = 0 BY <1>3, <1>7 DEF Ready
  <2> QED BY <1>7, <2>1, <2>3, <2>5, <2>6 DEF Rides
<1>14. InScan(buffer', chip', tdo', chip', state', tms', cur')
  BY <1>1, <1>2, <1>4, <1>7, <1>11, <1>12, <1>13 DEF InScan
<1>15. buffer'.pool <= 2 * cur' + Extra(pc)'
  <2>1. Extra(pc)' \in {0, 1} BY DEF Extra
  <2> QED BY <1>2, <1>4, <1>5, <2>1
<1>16. Moving' BY <1>14, <1>15 DEF Moving
<1> QED BY <1>2, <1>3, <1>16

LEMMA RecountFields ==
    ASSUME NEW c \in Chips
    PROVE  /\ Recount(c).clocks = 0 /\ Recount(c).ordered /\ Recount(c).shifted = {}
           /\ Recount(c).queue = c.queue /\ Recount(c).expects = c.expects /\ Recount(c).pin = c.pin
           /\ Recount(c).tap = c.tap
<1>1. PICK d : d = [c EXCEPT !.clocks = 0, !.agreed = FALSE] OBVIOUS
<1>2. /\ d.clocks = 0 /\ d.queue = c.queue /\ d.expects = c.expects /\ d.pin = c.pin /\ d.tap = c.tap
      /\ d = [tap |-> d.tap, pin |-> d.pin, clocks |-> d.clocks, expects |-> d.expects, queue |-> d.queue,
              agreed |-> d.agreed, began |-> d.began, ordered |-> d.ordered, shifted |-> d.shifted]
  BY <1>1 DEF Chips
<1>3. Recount(c) = [d EXCEPT !.began = c.tap, !.ordered = TRUE, !.shifted = {}] BY <1>1 DEF Recount, Chips
<1> QED BY <1>2, <1>3

LEMMA ReturnExact ==
    ASSUME IType, IExact, Return
    PROVE  IExact'
<1>1. /\ pc = "done" /\ chip' = Recount(chip) /\ tdo' = <<>> /\ pc' = "idle" /\ result' = "ok"
      /\ UNCHANGED <<buffer, state, failures>>
  BY DEF Return
<1> SUFFICES ASSUME failures = 0 PROVE Ready'
  BY <1>1 DEF IExact, Scanning, ShiftParts
<1>2. Complete BY <1>1 DEF IExact
<1>3. PICK s \in JtagStates : Rides(chip, s, tms, Len(tms)) /\ state = Along(s, tms)[Len(tms)] BY <1>2 DEF Complete
<1>4. IsShift(state) => chip.pin = 0 BY <1>3 DEF Rides
<1>5. /\ chip'.clocks = 0 /\ chip'.ordered /\ chip'.shifted = {}
      /\ chip'.queue = chip.queue /\ chip'.expects = chip.expects /\ chip'.pin = chip.pin
  BY <1>1, RecountFields DEF IType
<1>6. Settled(buffer', chip') BY <1>1, <1>2, <1>5 DEF Complete, Settled
<1> QED BY <1>1, <1>4, <1>5, <1>6 DEF Ready

LEMMA FlushSettles ==
    ASSUME NEW b, NEW c, NEW t, NEW e, NEW view, Soon(b, c, t, e, view), b.pool = 0, e.expects = 0,
           NEW o \in mpsse_buffer_flush(b, c, t), o.err # "usb"
    PROVE  o.err = "ok" /\ Settled(o.b, o.c) /\ o.c.pin = e.pin /\ o.c.tap = e.tap /\ o.c \in Chips
<1>1. /\ Leaves(o, e, view, b.pool)
      /\ o.err = "ok" => /\ o.b.tx = <<>> /\ o.b.tx_num = 0 /\ o.b.rx_num = 0 /\ o.b.observers = <<>>
                         /\ o.t = view /\ o.c.queue = <<>> /\ Twin(e, o.c)
  BY FlushSoon
<1>2. o.err = "ok" /\ o.b.pool = 0 /\ o.c \in Chips BY <1>1 DEF Leaves, OutcomeOk
<1> QED BY <1>1, <1>2 DEF Settled, Twin

\* settck between two scans: nothing is left behind, and the TAP is not moved.
LEMMA FrequencyLands ==
    ASSUME IType, IExact, mpsse_adapter_set_frequency, failures' = 0
    PROVE  /\ result = "ok" /\ Ready /\ Ready' /\ chip'.tap = chip.tap
           /\ pc = "idle" /\ UNCHANGED <<state, tdo, tms, pc, result>>
<1> DEFINE clock == Command("clock", <<>>, <<>>, 0)
<1>1. PICK o \in Then(mpsse_buffer_append(buffer, chip, tdo, <<clock>>, 4, <<>>, 0),
                       LAMBDA a : mpsse_buffer_flush(a.b, a.c, a.t)) :
        /\ buffer' = o.b /\ chip' = Recount(o.c)
        /\ failures' = IF o.err = "usb" THEN failures + 1 ELSE failures
  BY DEF mpsse_adapter_set_frequency
<1>2. PICK a \in mpsse_buffer_append(buffer, chip, tdo, <<clock>>, 4, <<>>, 0) :
        \/ a.err # "ok" /\ o = a
        \/ a.err = "ok" /\ o \in mpsse_buffer_flush(a.b, a.c, a.t)
  BY <1>1 DEF Then
<1>3. pc = "idle" /\ UNCHANGED <<state, tdo, tms, pc, result>> BY DEF mpsse_adapter_set_frequency
<1>4. failures = 0 /\ o.err # "usb" BY <1>1, NotFailed
<1>5. result = "ok" /\ Ready BY <1>3, <1>4 DEF IExact
<1>6. buffer \in Buffers /\ chip \in Chips BY DEF IType
<1>7. clock \in Commands /\ clock.kind = "clock"
  <2>1. "clock" \in Kinds /\ "clock" \notin {"tms", "last", "bits", "data"} /\ <<>> \in Seq(Int) /\ <<>> \in Seq({0, 1}) /\ 0 \in Nat
    BY DEF Kinds
  <2>2. clock \in Commands BY <2>1, CommandType
  <2>3. clock.kind = "clock" BY DEF Command
  <2> QED BY <2>2, <2>3
<1>8. PICK cmd \in Commands : cmd = clock /\ cmd.kind = "clock" BY <1>7
<1> HIDE DEF clock
<1>9. buffer.pool = 0 /\ chip.expects = 0 BY <1>5 DEF Ready, Settled
<1>10. Execute(chip, cmd) = chip /\ Answer(chip, cmd) = <<>>
  <2>1. chip.expects = Due(cmd) BY <1>8, <1>9 DEF Due
  <2>2. /\ Execute(chip, cmd) = [chip EXCEPT !.expects = Execute(chip, cmd).expects]
        /\ Execute(chip, cmd).expects = chip.expects /\ Answer(chip, cmd) = <<>>
    BY <1>6, <1>8, <2>1, ExecuteOthers
  <2>3. [chip EXCEPT !.expects = chip.expects] = chip BY <1>6 DEF Chips
  <2> QED BY <2>2, <2>3
<1>11. Soon(buffer, chip, tdo, chip, tdo)
  <2>1. tdo = <<>> /\ Settled(buffer, chip) BY <1>5 DEF Ready
  <2>2. IsVector(<<>>) BY DEF IsVector
  <2> QED BY ONLY <1>6, <2>1, <2>2, SettledSoon
<1>12. Settled(o.b, o.c) /\ o.c.pin = chip.pin /\ o.c.tap = chip.tap /\ o.c \in Chips
  <2>1. CASE 4 <= max_tx_buffer_bytes
    <3>1. a \in mpsse_buffer_append(buffer, chip, tdo, <<cmd>>, 4, <<>>, 0) /\ 4 \in Nat BY <1>2, <1>8
    <3>2. Leaves(a, Execute(chip, cmd), tdo, buffer.pool) BY ONLY <1>6, <1>8, <1>10, <1>11, <2>1, <3>1, AppendSilent
    <3>3. a.err = "ok" /\ o \in mpsse_buffer_flush(a.b, a.c, a.t) BY <1>2, <1>4, <3>2 DEF Leaves
    <3>4. a.b.pool = 0 /\ Soon(a.b, a.c, a.t, chip, tdo) BY <1>9, <1>10, <3>2, <3>3 DEF Leaves
    <3> QED BY ONLY <1>4, <1>9, <3>3, <3>4, FlushSettles
  <2>2. CASE ~(4 <= max_tx_buffer_bytes)
    <3>1. PICK q \in Room(buffer, chip, tdo, 4, 0) : AppendEnd(q, a, <<clock>>, 4, <<>>, 0) BY <1>2, AppendCases
    <3>2. MustFlush(buffer, 4, 0) BY <1>6, <2>2, Counts, Sizes DEF MustFlush
    <3>3. q \in mpsse_buffer_flush(buffer, chip, tdo) BY <3>1, <3>2 DEF Room
    <3>4. q.err # "usb"
      <4>1. CASE q.err # "ok" BY <1>2, <1>4, <3>1, <4>1 DEF AppendEnd
      <4> QED BY <4>1
    <3>5. q.err = "ok" /\ Settled(q.b, q.c) /\ q.c.pin = chip.pin /\ q.c.tap = chip.tap /\ q.c \in Chips
      BY ONLY <1>9, <1>11, <3>3, <3>4, FlushSettles
    <3>6. q.b.tx_num + 4 > max_tx_buffer_bytes BY <2>2, <3>5, Sizes DEF Settled
    <3>7. a = Outcome("full", q.b, q.c, q.t) BY <3>1, <3>5, <3>6 DEF AppendEnd
    <3>8. a.err = "full" /\ a.b = q.b /\ a.c = q.c BY <3>7, OutcomeFields
    <3>9. o = a BY <1>2, <3>8
    <3> QED BY <3>5, <3>8, <3>9
  <2> QED BY <2>1, <2>2
<1>13. /\ chip'.clocks = 0 /\ chip'.ordered /\ chip'.shifted = {}
       /\ chip'.queue = o.c.queue /\ chip'.expects = o.c.expects /\ chip'.pin = o.c.pin /\ chip'.tap = o.c.tap
  BY <1>1, <1>12, RecountFields
<1>14. Settled(buffer', chip') BY <1>1, <1>12, <1>13 DEF Settled
<1>15. Ready' BY <1>3, <1>5, <1>12, <1>13, <1>14 DEF Ready
<1> QED BY <1>3, <1>5, <1>12, <1>13, <1>15

LEMMA FrequencyExact ==
    ASSUME IType, IExact, mpsse_adapter_set_frequency
    PROVE  IExact'
BY FrequencyLands DEF IExact, Scanning, ShiftParts

LEMMA ReopenedFields ==
    ASSUME NEW c \in Chips
    PROVE  LET d == Reopened(c)
           IN d.clocks = 0 /\ d.ordered /\ d.shifted = {} /\ d.queue = <<>> /\ d.expects = 0 /\ d.tap = c.tap
<1>1. PICK d : d = [c EXCEPT !.pin = 1, !.expects = 0, !.queue = <<>>] OBVIOUS
<1>2. d \in Chips /\ d.queue = <<>> /\ d.expects = 0 /\ d.tap = c.tap
  <2>1. PICK c1 \in Chips : c1 = [c EXCEPT !.pin = 1] BY DEF Chips
  <2>2. PICK c2 \in Chips : c2 = [c1 EXCEPT !.expects = 0] BY 0 \in Int, ChipExpects
  <2>3. PICK c3 \in Chips : c3 = [c2 EXCEPT !.queue = <<>>] BY <<>> \in Seq(Octets), ChipPurged
  <2>4. d = c3 BY <1>1, <2>1, <2>2, <2>3
  <2>5. c3.queue = <<>> /\ c3.expects = 0 BY <2>2, <2>3 DEF Chips
  <2>6. c1.tap = c.tap /\ c2.tap = c1.tap /\ c3.tap = c2.tap BY <2>1, <2>2, <2>3 DEF Chips
  <2> QED BY <2>4, <2>5, <2>6
<1>3. Reopened(c) = Recount(d) BY <1>1 DEF Reopened
<1> QED BY <1>2, <1>3, RecountFields

LEMMA ReopenExact ==
    ASSUME NEW c \in Chips, Reopen(c)
    PROVE  IExact'
<1>1. /\ chip' = Reopened(c) /\ buffer' = EmptyBuffer /\ state' = "TEST_LOGIC_RESET" /\ tdo' = <<>>
      /\ pc' = "idle" /\ result' = "ok"
  BY DEF Reopen
<1>2. chip'.clocks = 0 /\ chip'.ordered /\ chip'.shifted = {} /\ chip'.queue = <<>> /\ chip'.expects = 0
  BY <1>1, ReopenedFields
<1>3. Settled(buffer', chip') BY <1>1, <1>2 DEF Settled, EmptyBuffer
<1>4. ~IsShift(state') BY <1>1 DEF IsShift
<1>5. Ready' BY <1>1, <1>2, <1>3, <1>4 DEF Ready
<1> QED BY <1>1, <1>5 DEF IExact, Scanning, ShiftParts

LEMMA ExactInit == ASSUME Init PROVE IExact
<1>1. PICK tap \in TargetStates :
        chip = [tap |-> tap, pin |-> 1, clocks |-> 0, expects |-> 0, queue |-> <<>>,
                agreed |-> FALSE, began |-> tap, ordered |-> TRUE, shifted |-> {}]
  BY DEF Init
<1>2. buffer = EmptyBuffer /\ state = "TEST_LOGIC_RESET" /\ tdo = <<>> /\ pc = "idle" /\ result = "ok" BY DEF Init
<1>3. chip.clocks = 0 /\ chip.ordered /\ chip.shifted = {} /\ chip.queue = <<>> /\ chip.expects = 0 BY <1>1
<1>4. Settled(buffer, chip) BY <1>2, <1>3 DEF Settled, EmptyBuffer
<1>5. ~IsShift(state) BY <1>2 DEF IsShift
<1>6. Ready BY <1>2, <1>3, <1>4, <1>5 DEF Ready
<1> QED BY <1>2, <1>6 DEF IExact, Scanning, ShiftParts

LEMMA ScanStepExact ==
    ASSUME ShortRuns, PoolFits, IType, IPlace, IExact, ScanStep
    PROVE  IExact'
<1>1. CASE NextRun BY <1>1, NextRunExact
<1>2. CASE append_tms_shift
  <2>1. PICK n, next_pc : TmsMove(n, next_pc) BY <1>2, TmsMoves
  <2>2. pc = "tms" BY <1>2 DEF append_tms_shift
  <2> QED BY <2>1, <2>2, TmsExact
<1>3. CASE Leading
  <2>1. (\E n : BitsMove(n, "whole")) \/ SkipMove("whole") BY <1>3, LeadingMoves
  <2>2. pc = "leading" /\ "whole" \in Scanning /\ pc \in Scanning BY <1>3 DEF Leading, Scanning, ShiftParts
  <2>3. Extra(pc) <= Extra("whole") BY <2>2 DEF Extra
  <2> QED BY <2>1, <2>2, <2>3, BitsExact, SkipExact DEF SkipMove
<1>4. CASE Whole
  <2>1. (\E m : ChunkMove(m)) \/ (SkipMove("trailing") /\ InnerBytes(seg) = 0) BY <1>4, WholeMoves
  <2>2. pc = "whole" /\ "trailing" \in Scanning /\ pc \in Scanning BY <1>4, WholeIs DEF Scanning, ShiftParts
  <2>3. InnerBytes(seg) = 0 => Extra(pc) <= Extra("trailing") BY DEF Extra
  <2> QED BY <2>1, <2>2, <2>3, ChunkExact, SkipExact DEF SkipMove
<1>5. CASE Trailing
  <2>1. (\E n : BitsMove(n, "last")) \/ SkipMove("last") BY <1>5, TrailingMoves
  <2>2. pc = "trailing" /\ "last" \in Scanning /\ pc \in Scanning BY <1>5 DEF Trailing, Scanning, ShiftParts
  <2>3. Extra(pc) <= Extra("last") BY <2>2 DEF Extra
  <2> QED BY <2>1, <2>2, <2>3, BitsExact, SkipExact DEF SkipMove
<1>6. CASE LastBit
  <2>1. PICK bit : LastMove(bit) BY <1>6, LastMoves
  <2>2. pc = "last" BY <1>6 DEF LastBit
  <2> QED BY <2>1, <2>2, LastExact
<1>7. CASE Finish BY <1>7, FinishExact
<1> QED BY <1>1, <1>2, <1>3, <1>4, <1>5, <1>6, <1>7 DEF ScanStep

LEMMA ExactStep ==
    ASSUME ShortRuns, PoolFits, IType, IPlace, IExact, [Next]_vars
    PROVE  IExact'
<1>1. CASE mpsse_adapter_scan BY <1>1, BeginExact
<1>2. CASE mpsse_adapter_set_frequency BY <1>2, FrequencyExact
<1>3. CASE ScanStep BY <1>3, ScanStepExact
<1>4. CASE Return BY <1>4, ReturnExact
<1>5. CASE mpsse_adapter_close
  <2>1. PICK o \in mpsse_buffer_flush(buffer, chip, tdo) : Reopen(o.c) BY <1>5 DEF mpsse_adapter_close
  <2>2. OutcomeOk(o) BY FlushType DEF IType
  <2> QED BY <2>1, <2>2, ReopenExact DEF OutcomeOk
<1>6. CASE Killed
  <2>1. PICK c \in Chips : Reopen(c)
    <3>1. chip \in Chips /\ buffer.tx \in Seq(Commands) BY DEF IType, Buffers
    <3>2. ASSUME NEW k \in 1 .. Len(buffer.tx), NEW sent \in Executed(chip, SubSeq(buffer.tx, 1, k))
          PROVE  sent \in Chips
      <4>1. SubSeq(buffer.tx, 1, k) \in Seq(Commands) BY <3>1
      <4> QED BY <3>1, <4>1, ExecutedType
    <3> QED BY <1>6, <3>1, <3>2 DEF Killed
  <2> QED BY <2>1, ReopenExact
<1>7. CASE UNCHANGED vars
  <2>1. UNCHANGED <<buffer, chip, state, tdo, tms, seg, cur, pc, result, failures>> BY <1>7 DEF vars
  <2>2. Ready' = Ready /\ Moving' = Moving /\ Complete' = Complete BY <2>1 DEF Ready, Moving, Complete, Extra
  <2> QED BY <2>1, <2>2 DEF IExact
<1> QED BY <1>1, <1>2, <1>3, <1>4, <1>5, <1>6, <1>7 DEF Next

-----------------------------------------------------------------------------
(* The theorems. *)

\* What the invariants say of every state.
LEMMA Exact ==
    ASSUME ShortRuns, PoolFits
    PROVE  Spec => [](IType /\ IPlace /\ IExact)
<1>1. Init => IType /\ IPlace /\ IExact BY TypeInit, PlaceInit, ExactInit
<1>2. IType /\ IPlace /\ IExact /\ [Next]_vars => (IType /\ IPlace /\ IExact)' BY TypeStep, PlaceStep, ExactStep
<1> QED BY <1>1, <1>2, PTL DEF Spec

\* While no transfer fails no scan returns -1: the flush before an append makes room, the
\* pool has room for every copier, and the chip answers what the buffer waits for.
THEOREM ScanNeverFailsAlone ==
    ASSUME ShortRuns, PoolFits
    PROVE  Spec => []NoSpuriousFailure
<1>1. IType /\ IPlace /\ IExact => NoSpuriousFailure BY DEF IExact, NoSpuriousFailure
<1> QED BY <1>1, Exact, PTL

\* Wherever the buffer is flushed, also between the header of a chunk and its data, the
\* answers that the buffer waits for are those its commands will have.
THEOREM AnswersNeverDrift ==
    ASSUME ShortRuns, PoolFits
    PROVE  Spec => []AnswersAccounted
<1>1. ASSUME IType, IExact PROVE AnswersAccounted
  <2> SUFFICES ASSUME failures = 0, NEW sent \in Executed(chip, buffer.tx)
               PROVE  Len(sent.queue) = buffer.rx_num
    BY DEF AnswersAccounted
  <2>1. CASE Settled(buffer, chip)
    <3>1. Executed(chip, <<>>) = {chip} BY <1>1, NothingExecuted DEF IType
    <3>2. sent = chip /\ chip.queue = <<>> /\ buffer.rx_num = 0 BY <2>1, <3>1 DEF Settled
    <3>3. Len(<<>>) = 0 OBVIOUS
    <3> QED BY <3>2, <3>3
  <2>2. CASE pc \in Scanning
    <3>1. PICK e : InScan(buffer, chip, tdo, e, state, tms, cur) BY <1>1, <2>2 DEF IExact, Moving
    <3>2. PICK d : Waits(buffer, chip, tdo, d, FilledTo(Along(state, tms), Len(tms), cur)) BY <3>1 DEF InScan, Soon
    <3> QED BY <3>2 DEF Waits
  <2> QED BY <1>1, <2>1, <2>2 DEF IType, IExact, Scanning, ShiftParts, Ready, Complete
<1>2. IType /\ IPlace /\ IExact => AnswersAccounted BY <1>1
<1> QED BY <1>2, Exact, PTL

\* Whatever the sizes of the buffers, a scan that returns 0, no transfer having failed, has
\* clocked each bit once, in order and with its own TDI, has left no answer behind, and
\* has put every sampled bit in its own place of the TDO vector.
THEOREM ScanIsExact ==
    ASSUME ShortRuns, PoolFits
    PROVE  Spec => []ScanCorrect
<1>1. ASSUME IType, IExact PROVE ScanCorrect
  <2> SUFFICES ASSUME pc = "done", failures = 0
               PROVE  chip.clocks = Len(tms) /\ chip.ordered /\ chip.queue = <<>> /\ SuccessReturnsTdo
    BY DEF ScanCorrect, Returned
  <2>1. Complete BY <1>1 DEF IExact
  <2>2. PICK s \in JtagStates : /\ Rides(chip, s, tms, Len(tms))
                                /\ tdo = FilledTo(Along(s, tms), Len(tms), Len(tms))
    BY <2>1 DEF Complete
  <2>3. /\ chip.clocks = Len(tms) /\ chip.ordered /\ chip.agreed = (chip.began = s)
        /\ chip.shifted = InShift(Along(chip.began, tms), Len(tms))
    BY <2>2 DEF Rides, Tracks
  <2>4. ASSUME chip.agreed, NEW i \in DOMAIN tdo
        PROVE  tdo[i] = IF i \in chip.shifted THEN i ELSE Junk
    <3>1. chip.began = s BY <2>3, <2>4
    <3>2. Len(tms) \in Nat BY <1>1 DEF IType
    <3>3. i \in 0 .. Len(tms) - 1 BY <2>2, <2>4 DEF FilledTo
    <3>4. tdo[i] = IF i < Len(tms) /\ IsShift(Along(s, tms)[i]) THEN i ELSE Junk BY <2>2, <3>3 DEF FilledTo
    <3>5. i < Len(tms) BY <3>2, <3>3
    <3>6. i \in chip.shifted <=> IsShift(Along(s, tms)[i]) BY <2>3, <3>1, <3>3 DEF InShift
    <3> QED BY <3>4, <3>5, <3>6
  <2>5. SuccessReturnsTdo BY <2>4 DEF SuccessReturnsTdo
  <2>6. chip.queue = <<>> BY <2>1 DEF Complete, Settled
  <2> QED BY <2>3, <2>5, <2>6
<1>2. IType /\ IPlace /\ IExact => ScanCorrect BY <1>1
<1> QED BY <1>2, Exact, PTL

\* The adapter opens with TEST_LOGIC_RESET for a state, whatever the TAP's is; its idea is
\* the TAP's own after the first scan that clocks five ones or starts in agreement, as
\* long as no transfer has failed.
THEOREM TapIsTracked ==
    ASSUME ShortRuns, PoolFits
    PROVE  Spec => []TapTracked
<1>1. ASSUME IType, IExact PROVE TapTracked
  <2> SUFFICES ASSUME pc = "done", failures = 0
               PROVE  chip.expects = 0 /\ ((chip.agreed \/ HoldsReset(tms)) => chip.tap = state)
    BY DEF TapTracked, Returned
  <2>1. Complete BY <1>1 DEF IExact
  <2>2. PICK s \in JtagStates : Rides(chip, s, tms, Len(tms)) /\ state = Along(s, tms)[Len(tms)]
    BY <2>1 DEF Complete
  <2>3. /\ chip.expects = 0 /\ chip.agreed = (chip.began = s)
        /\ chip.tap = Along(chip.began, tms)[Len(tms)]
    BY <2>2 DEF Rides, Tracks
  <2>4. chip.began \in JtagStates /\ tms \in Seq({0, 1}) BY <1>1 DEF IType, Chips
  <2>5. CASE chip.agreed BY <2>2, <2>3, <2>5
  <2>6. CASE HoldsReset(tms)
    <3>1. jtag_walk(jtag_next_state, chip.began, tms) = jtag_walk(jtag_next_state, s, tms)
      BY ONLY <2>2, <2>4, <2>6, ResetJoins
    <3> QED BY <2>2, <2>3, <3>1 DEF Along, jtag_walk
  <2> QED BY <2>3, <2>5, <2>6
<1>2. IType /\ IPlace /\ IExact => TapTracked BY <1>1
<1> QED BY <1>2, Exact, PTL

-----------------------------------------------------------------------------
(* A scan that is cut short.  Wherever in the buffer's commands the chip is stopped, its *)
(* TAP is where a part of the vector has brought it.                                      *)

On(d, v, a) == d.began = a /\ d.clocks \in 0 .. Len(v) /\ d.tap = Along(a, v)[d.clocks]
Way(b, c, v, a) == \A k \in 0 .. Len(b.tx) : \A sent \in Executed(c, SubSeq(b.tx, 1, k)) : On(sent, v, a)

LEMMA BeganKept ==
    ASSUME NEW c \in Chips, NEW cmd \in Commands
    PROVE  Execute(c, cmd).began = c.began
<1>1. CASE cmd.kind \in {"bytes", "clock"} \/ c.expects # Due(cmd)
  <2>1. PICK x : x = Execute(c, cmd).expects OBVIOUS
  <2>2. Execute(c, cmd) = [c EXCEPT !.expects = x] BY <1>1, <2>1, ExecuteOthers
  <2> QED BY <2>2 DEF Chips
<1>2. CASE cmd.kind \in {"tms", "last", "bits", "data"} /\ c.expects = Due(cmd) BY <1>2, ExecuteClocks
<1>3. cmd.kind \in {"tms", "last", "bits", "bytes", "data", "clock"} BY DEF Commands, Kinds
<1> QED BY <1>1, <1>2, <1>3

LEMMA WaySame == ASSUME NEW b, NEW c, NEW v, NEW a, Way(b, c, v, a), NEW p, p.tx = b.tx PROVE Way(p, c, v, a)
BY DEF Way

LEMMA WayRest ==
    ASSUME NEW b, b.tx = <<>>, NEW c \in Chips, NEW v, NEW a, On(c, v, a)
    PROVE  Way(b, c, v, a)
<1>1. Executed(c, <<>>) = {c} BY NothingExecuted
<1>2. \A k \in 0 .. Len(<<>>) : SubSeq(<<>>, 1, k) = <<>> OBVIOUS
<1> QED BY <1>1, <1>2 DEF Way

\* The chip when all of the buffer has been sent, and before any of it has been.
LEMMA WayEnd ==
    ASSUME NEW b \in Buffers, NEW c \in Chips, NEW v, NEW a, Way(b, c, v, a)
    PROVE  (\A sent \in Executed(c, b.tx) : On(sent, v, a)) /\ On(c, v, a)
<1>1. PICK tx \in Seq(Commands) : tx = b.tx BY DEF Buffers
<1>2. SubSeq(tx, 1, Len(tx)) = tx /\ Len(tx) \in 0 .. Len(tx) BY <1>1
<1>3. SubSeq(tx, 1, 0) = <<>> /\ 0 \in 0 .. Len(tx) BY <1>1
<1>4. Executed(c, <<>>) = {c} BY NothingExecuted
<1>5. \A k \in 0 .. Len(tx) : \A sent \in Executed(c, SubSeq(tx, 1, k)) : On(sent, v, a) BY <1>1 DEF Way
<1>6. \A sent \in Executed(c, tx) : On(sent, v, a) BY <1>2, <1>5
<1>7. On(c, v, a) BY <1>3, <1>4, <1>5
<1> QED BY <1>1, <1>6, <1>7

LEMMA TakeOn ==
    ASSUME NEW d \in Chips, NEW v, NEW a, On(d, v, a), NEW k
    PROVE  On(Take(d, k), v, a)
<1>1. PICK q : q = SubSeq(d.queue, k + 1, Len(d.queue)) OBVIOUS
<1>2. Take(d, k) = [d EXCEPT !.queue = q] BY <1>1 DEF Take
<1>3. Take(d, k).began = d.began /\ Take(d, k).clocks = d.clocks /\ Take(d, k).tap = d.tap BY <1>2 DEF Chips
<1> QED BY <1>3 DEF On

\* A flush that succeeds.
LEMMA FlushOk ==
    ASSUME NEW b \in Buffers, NEW c \in Chips, NEW t, NEW o \in mpsse_buffer_flush(b, c, t), o.err = "ok"
    PROVE  /\ o.b \in Buffers /\ o.c \in Chips /\ o.b.tx = <<>>
           /\ \E sent \in Executed(c, b.tx) : sent \in Chips /\ (o.c = sent \/ o.c = Take(sent, b.rx_num))
<1>1. PICK sent \in Executed(c, b.tx) : o \in ReadAnswers(b, sent, t) BY FlushCases, OutcomeFields
<1>2. b.tx \in Seq(Commands) BY DEF Buffers
<1>3. sent \in Chips BY <1>1, <1>2, ExecutedType
<1>4. ASSUME NEW err, NEW x \in Late(b, sent, t, err) PROVE x.err = err BY <1>4, OutcomeFields DEF Late
<1>5. o.b.tx = <<>> /\ (o.c = sent \/ o.c = Take(sent, b.rx_num))
  <2>1. Cleared(b).tx = <<>> /\ Answered(Cleared(b)).tx = <<>>
    <3>1. Cleared(b) \in Buffers /\ Cleared(b).tx = <<>> BY ClearType DEF Cleared, Buffers
    <3> QED BY <3>1 DEF Answered, Buffers
  <2>2. \/ o = Outcome("ok", Cleared(b), sent, t)
        \/ \E u : o = Outcome("ok", Answered(Cleared(b)), Take(sent, b.rx_num), u)
    BY <1>1, <1>4 DEF ReadAnswers
  <2> QED BY <2>1, <2>2, OutcomeFields
<1>6. o.b \in Buffers /\ o.c \in Chips BY FlushType DEF OutcomeOk
<1> QED BY <1>1, <1>3, <1>5, <1>6

LEMMA FlushWay ==
    ASSUME NEW b \in Buffers, NEW c \in Chips, NEW t, NEW v, NEW a, Way(b, c, v, a),
           NEW o \in mpsse_buffer_flush(b, c, t), o.err = "ok"
    PROVE  Way(o.b, o.c, v, a)
<1>1. PICK sent \in Executed(c, b.tx) : sent \in Chips /\ (o.c = sent \/ o.c = Take(sent, b.rx_num)) BY FlushOk
<1>2. On(sent, v, a) BY <1>1, WayEnd
<1>3. On(o.c, v, a) BY <1>1, <1>2, TakeOn
<1>4. o.c \in Chips /\ o.b.tx = <<>> BY FlushOk
<1> QED BY <1>3, <1>4, WayRest

LEMMA SoonOn ==
    ASSUME NEW b, NEW c, NEW t, NEW e \in Chips, NEW view, Soon(b, c, t, e, view), NEW v, NEW a, Way(b, c, v, a)
    PROVE  e.began = a /\ b \in Buffers /\ c \in Chips
<1>1. PICK d : Twin(e, d) /\ Waits(b, c, t, d, view) BY DEF Soon
<1>2. b \in Buffers /\ c \in Chips /\ Executed(c, b.tx) = {d} BY <1>1 DEF Waits
<1>3. On(d, v, a) BY <1>2, WayEnd
<1> QED BY <1>1, <1>2, <1>3 DEF On, Twin

LEMMA WriteWay ==
    ASSUME NEW b, NEW c, NEW t, NEW e \in Chips, NEW view, Soon(b, c, t, e, view), NEW v, NEW a, Way(b, c, v, a),
           NEW cmd \in Commands, On(Execute(e, cmd), v, a), NEW p, p.tx = b.tx \o <<cmd>>
    PROVE  Way(p, c, v, a)
<1>1. PICK d : Twin(e, d) /\ Waits(b, c, t, d, view) BY DEF Soon
<1>2. b \in Buffers /\ c \in Chips /\ d \in Chips /\ Executed(c, b.tx) = {d} BY <1>1 DEF Waits
<1>3. PICK tx \in Seq(Commands) : tx = b.tx BY <1>2 DEF Buffers
<1>4. Executed(c, tx \o <<cmd>>) = {Execute(d, cmd)} BY <1>2, <1>3, ExecutedMore
<1>5. Twin(Execute(e, cmd), Execute(d, cmd)) BY <1>1, <1>2, TwinStep
<1>6. On(Execute(d, cmd), v, a) BY <1>5 DEF On, Twin
<1>7. Len(tx \o <<cmd>>) = Len(tx) + 1 /\ Len(tx) \in Nat BY <1>3
<1>8. ASSUME NEW k \in 0 .. Len(tx) + 1, NEW sent \in Executed(c, SubSeq(tx \o <<cmd>>, 1, k)) PROVE On(sent, v, a)
  <2>1. CASE k \in 0 .. Len(tx)
    <3>1. SubSeq(tx \o <<cmd>>, 1, k) = SubSeq(tx, 1, k) BY <1>3, <2>1
    <3> QED BY <1>3, <1>8, <2>1, <3>1 DEF Way
  <2>2. CASE k = Len(tx) + 1
    <3>1. SubSeq(tx \o <<cmd>>, 1, k) = tx \o <<cmd>> BY <1>3, <1>7, <2>2
    <3> QED BY <1>4, <1>6, <1>8, <3>1
  <2> QED BY <1>7, <2>1, <2>2
<1> QED BY <1>3, <1>7, <1>8 DEF Way

\* An append that succeeds, after q.
Appended(q, o, cmd) == q.err = "ok" /\ q.b \in Buffers /\ q.c \in Chips /\ o.c = q.c /\ o.b.tx = q.b.tx \o <<cmd>>

LEMMA AppendOk ==
    ASSUME NEW b \in Buffers, NEW c \in Chips, NEW t, NEW cmd \in Commands, NEW size \in Nat, NEW observers, NEW M \in Nat,
           NEW o \in mpsse_buffer_append(b, c, t, <<cmd>>, size, observers, M), o.err = "ok"
    PROVE  \E q \in Room(b, c, t, size, M) : Appended(q, o, cmd)
<1>1. PICK q \in Room(b, c, t, size, M) : AppendEnd(q, o, <<cmd>>, size, observers, M) BY AppendCases, Zenon
<1>2. q.err = "ok" BY <1>1 DEF AppendEnd
<1>3. q.b \in Buffers /\ q.c \in Chips BY RoomType DEF OutcomeOk
<1>4. ~(q.b.tx_num + size > max_tx_buffer_bytes) /\ ~(q.b.rx_num + M > max_rx_buffer_bytes)
  BY <1>1, <1>2, OutcomeFields DEF AppendEnd
<1>5. PICK w : w = Written(q.b, <<cmd>>, size) OBVIOUS
<1>6. w \in Buffers /\ w.tx = q.b.tx \o <<cmd>>
  <2>1. <<cmd>> \in Seq(Commands) OBVIOUS
  <2>2. q.b.tx_num + size <= max_tx_buffer_bytes BY <1>3, <1>4, Counts, Sizes
  <2> QED BY <1>3, <1>5, <2>1, <2>2, WrittenType
<1>7. o.c = q.c /\ o.b.tx = w.tx
  <2>1. CASE M = 0
    <3>1. o = Outcome("ok", w, q.c, q.t) BY <1>1, <1>2, <1>4, <1>5, <2>1 DEF AppendEnd
    <3> QED BY <3>1, OutcomeFields
  <2>2. CASE M # 0
    <3>1. PICK p \in pool_alloc(w, q.c, q.t) : \/ p.err # "ok" /\ o = p
                                               \/ o = Outcome("ok", Noted(p.b, observers, M), p.c, p.t)
      BY <1>1, <1>2, <1>4, <1>5, <2>2 DEF AppendEnd
    <3>2. o = Outcome("ok", Noted(p.b, observers, M), p.c, p.t) BY <3>1
    <3>3. OutcomeOk(p) /\ p.c = q.c /\ p.b.tx = w.tx BY ONLY <1>3, <1>6, p \in pool_alloc(w, q.c, q.t), PoolType
    <3>4. Noted(p.b, observers, M).tx = p.b.tx BY <3>3 DEF Noted, Buffers, OutcomeOk
    <3> QED BY <3>2, <3>3, <3>4, OutcomeFields
  <2> QED BY <2>1, <2>2
<1>8. Appended(q, o, cmd) BY <1>2, <1>3, <1>6, <1>7 DEF Appended
<1> QED BY <1>1, <1>8

LEMMA AppendWay ==
    ASSUME NEW b, NEW c, NEW t, NEW e \in Chips, NEW view, Soon(b, c, t, e, view), NEW v, NEW a, Way(b, c, v, a),
           NEW cmd \in Commands, On(Execute(e, cmd), v, a), NEW size \in Nat, size <= max_tx_buffer_bytes,
           NEW observers, NEW M \in Nat, M <= max_rx_buffer_bytes,
           NEW o \in mpsse_buffer_append(b, c, t, <<cmd>>, size, observers, M), o.err = "ok"
    PROVE  Way(o.b, o.c, v, a)
<1>1. b \in Buffers /\ c \in Chips BY SoonOn
<1>2. PICK q \in Room(b, c, t, size, M) : Appended(q, o, cmd)
  BY ONLY <1>1, cmd \in Commands, size \in Nat, M \in Nat, o.err = "ok",
          o \in mpsse_buffer_append(b, c, t, <<cmd>>, size, observers, M), AppendOk
<1>3. Soon(q.b, q.c, q.t, e, view)
  <2>1. Leaves(q, e, view, b.pool)
    BY ONLY size \in Nat, size <= max_tx_buffer_bytes, M \in Nat, M <= max_rx_buffer_bytes,
            q \in Room(b, c, t, size, M), Soon(b, c, t, e, view), RoomSoon
  <2> QED BY <1>2, <2>1 DEF Leaves, Appended
<1>4. Way(q.b, q.c, v, a)
  <2>1. CASE q \in mpsse_buffer_flush(b, c, t) BY <1>1, <1>2, <2>1, FlushWay DEF Appended
  <2>2. CASE q = Outcome("ok", b, c, t) BY <2>2, OutcomeFields
  <2> QED BY <1>2, <2>1, <2>2 DEF Room
<1>5. o.c = q.c /\ o.b.tx = q.b.tx \o <<cmd>> BY <1>2 DEF Appended
<1>6. Way(o.b, q.c, v, a)
  BY ONLY e \in Chips, cmd \in Commands, On(Execute(e, cmd), v, a), <1>3, <1>4, <1>5, WriteWay
<1> QED BY <1>5, <1>6

LEMMA ReadbackWay ==
    ASSUME NEW b, NEW c, NEW t, NEW e \in Chips, NEW view, Soon(b, c, t, e, view), NEW v, NEW a, Way(b, c, v, a),
           NEW cmd \in Commands, On(Execute(e, cmd), v, a), NEW size \in Nat, size <= max_tx_buffer_bytes,
           NEW ob, NEW M \in Nat, M <= max_rx_buffer_bytes,
           NEW o \in mpsse_buffer_add_write_with_readback(b, c, t, <<cmd>>, size, ob, M), o.err = "ok"
    PROVE  Way(o.b, o.c, v, a)
<1>1. PICK q \in mpsse_buffer_ensure_can_append(b, c, t, size, M) :
        \/ q.err # "ok" /\ o = q
        \/ q.err = "ok" /\ o \in mpsse_buffer_append(q.b, q.c, q.t, <<cmd>>, size, <<ob>>, M)
  BY ReadbackCases
<1>2. q.err = "ok" /\ o \in mpsse_buffer_append(q.b, q.c, q.t, <<cmd>>, size, <<ob>>, M) BY <1>1
<1>3. b \in Buffers /\ c \in Chips BY SoonOn
<1>4. Soon(q.b, q.c, q.t, e, view) /\ Way(q.b, q.c, v, a)
  <2>1. CASE q \in mpsse_buffer_flush(b, c, t)
    <3>1. Leaves(q, e, view, b.pool) BY <2>1, FlushSoon
    <3> QED BY <1>2, <1>3, <2>1, <3>1, FlushWay DEF Leaves
  <2>2. CASE q = Outcome("ok", b, c, t) BY <2>2, OutcomeFields
  <2> QED BY <1>1, <2>1, <2>2 DEF mpsse_buffer_ensure_can_append
<1>5. PICK obs : obs = <<ob>> OBVIOUS
<1>6. o \in mpsse_buffer_append(q.b, q.c, q.t, <<cmd>>, size, obs, M) BY <1>2, <1>5
<1> QED BY ONLY e \in Chips, cmd \in Commands, On(Execute(e, cmd), v, a), size \in Nat, size <= max_tx_buffer_bytes,
           M \in Nat, M <= max_rx_buffer_bytes, o.err = "ok", <1>4, <1>6, AppendWay

LEMMA BitsWay ==
    ASSUME IType, NEW e \in Chips, NEW view, Soon(buffer, chip, tdo, e, view), NEW v, NEW a, Way(buffer, chip, v, a),
           buffer.pool < PoolSize, NEW cmd \in Commands, On(Execute(e, cmd), v, a), NEW ob,
           NEW o \in AddBits(cmd, ob), o.err = "ok"
    PROVE  Way(o.b, o.c, v, a)
<1>1. PICK q \in pool_alloc(buffer, chip, tdo) :
        \/ q.err # "ok" /\ o = q
        \/ q.err = "ok" /\ o \in mpsse_buffer_add_write_with_readback(q.b, q.c, q.t, <<cmd>>, 3, ob, 1)
  BY AddBitsCases
<1>2. q.err = "ok" /\ Soon(q.b, q.c, q.t, e, view) BY <1>1, AllocSoon
<1>3. Way(q.b, q.c, v, a)
  <2>1. q.c = chip /\ q.b.tx = buffer.tx BY <1>1, PoolType DEF IType
  <2> QED BY <2>1, WaySame
<1>4. o \in mpsse_buffer_add_write_with_readback(q.b, q.c, q.t, <<cmd>>, 3, ob, 1) BY <1>1, <1>2
<1>5. 3 \in Nat /\ 3 <= max_tx_buffer_bytes /\ 1 \in Nat /\ 1 <= max_rx_buffer_bytes BY Lengths
<1> QED BY ONLY e \in Chips, cmd \in Commands, On(Execute(e, cmd), v, a), o.err = "ok", <1>2, <1>3, <1>4, <1>5, ReadbackWay

\* A chip that has clocked some more of the vector.
LEMMA RidesAreOn ==
    ASSUME NEW e \in Chips, NEW cmd \in Commands, NEW s, NEW v, NEW k, Rides(Execute(e, cmd), s, v, k)
    PROVE  On(Execute(e, cmd), v, e.began)
<1>1. Execute(e, cmd).began = e.began BY BeganKept
<1>2. Tracks(Execute(e, cmd), v) BY DEF Rides
<1> QED BY <1>1, <1>2 DEF Tracks, On

LEMMA ChunkWay ==
    ASSUME NEW s \in JtagStates, NEW v \in Seq({0, 1}), cur \in Nat, NEW e, InScan(buffer, chip, tdo, e, s, v, cur),
           NEW a, Way(buffer, chip, v, a),
           NEW m \in Nat, m > 0, m <= chip_buffer_size, cur + 8 * m <= Len(v),
           \A i \in cur .. cur + 8 * m : IsShift(Along(s, v)[i]), ChunkSize = m, Bulk,
           ChunkData = Command("data", Positions(cur, 8 * m), <<>>, m), NEW o \in Chunk, o.err = "ok"
    PROVE  Way(o.b, o.c, v, a)
<1>1. PICK view : view = FilledTo(Along(s, v), Len(v), cur) OBVIOUS
<1>2. e \in Chips /\ Rides(e, s, v, cur) /\ Soon(buffer, chip, tdo, e, view) BY <1>1 DEF InScan
<1>3. PICK head, f : head = Header /\ f = Execute(e, head) OBVIOUS
<1>4. /\ head \in Commands /\ f \in Chips /\ Answer(e, head) = <<>> /\ Tracks(f, v) /\ ChunkData \in Commands
      /\ Rides(Execute(f, ChunkData), s, v, cur + 8 * m)
  BY <1>2, <1>3, ChunkRides
<1>5. e.began = a BY <1>2, SoonOn
<1>6. On(f, v, a) /\ f.began = a
  <2>1. f.began = a BY <1>2, <1>3, <1>4, <1>5, BeganKept
  <2> QED BY <1>4, <2>1 DEF On, Tracks
<1>7. PICK q \in mpsse_buffer_append(buffer, chip, tdo, <<head>>, 3, <<>>, 0) :
             \/ q.err # "ok" /\ o = q
             \/ q.err = "ok" /\ o \in AddChunk(q)
  BY <1>3, ChunkCases
<1>8. 3 \in Nat /\ 3 <= max_tx_buffer_bytes /\ 0 \in Nat /\ 0 <= max_rx_buffer_bytes BY Lengths, Sizes
<1>9. q.err = "ok" /\ o \in AddChunk(q) BY <1>7
<1>10. Soon(q.b, q.c, q.t, f, view)
  <2>1. Leaves(q, Execute(e, head), view, buffer.pool)
    BY ONLY q \in mpsse_buffer_append(buffer, chip, tdo, <<head>>, 3, <<>>, 0), <1>2, <1>4, <1>8, AppendSilent
  <2> QED BY <1>3, <1>9, <2>1 DEF Leaves
<1>11. Way(q.b, q.c, v, a)
  <2>1. On(Execute(e, head), v, a) BY <1>3, <1>6
  <2>2. PICK obs : obs = <<>> OBVIOUS
  <2>3. q \in mpsse_buffer_append(buffer, chip, tdo, <<head>>, 3, obs, 0) BY <1>7, <2>2
  <2> QED BY ONLY <1>2, <1>4, <1>8, <1>9, <2>1, <2>3, Way(buffer, chip, v, a), AppendWay
<1>12. PICK data, ob : data = ChunkData /\ ob = ChunkCopier OBVIOUS
<1>13. o \in mpsse_buffer_add_write_with_readback(q.b, q.c, q.t, <<data>>, m, ob, m)
  <2>1. ChunkSize # 0 OBVIOUS
  <2> QED BY <1>9, <1>12, <2>1 DEF AddChunk
<1>14. data \in Commands /\ On(Execute(f, data), v, a)
  <2>1. On(Execute(f, ChunkData), v, f.began) BY <1>4, RidesAreOn
  <2> QED BY <1>4, <1>6, <1>12, <2>1
<1>15. m <= max_tx_buffer_bytes /\ m <= max_rx_buffer_bytes BY Lengths
<1> QED BY ONLY m \in Nat, o.err = "ok", <1>4, <1>10, <1>11, <1>13, <1>14, <1>15, ReadbackWay

IWay == failures = 0 /\ pc \in Scanning => Way(buffer, chip, tms, chip.began)

\* A step of a scan goes on, from where it began.
GoesOn == failures' = 0 => /\ failures = 0 /\ pc \in Scanning /\ pc' \in Scanning /\ UNCHANGED <<state, tms>>
                           /\ Way(buffer', chip', tms, chip.began)

LEMMA PerformGoesOn ==
    ASSUME IType, IExact', pc \in Scanning, NEW outcomes, NEW next, NEW next_pc \in Scanning, Perform(outcomes, next, next_pc),
           failures = 0 => \A o \in outcomes : o.err = "ok" => Way(o.b, o.c, tms, chip.began)
    PROVE  GoesOn
<1>1. PICK o \in outcomes :
        /\ buffer' = o.b /\ chip' = o.c /\ tdo' = o.t
        /\ \/ o.err # "ok" /\ Fail(o)
           \/ o.err = "ok" /\ cur' = next /\ pc' = next_pc /\ UNCHANGED <<state, tms, seg, result, failures>>
  BY DEF Perform
<1> SUFFICES ASSUME failures' = 0
             PROVE  /\ failures = 0 /\ pc' \in Scanning /\ UNCHANGED <<state, tms>>
                    /\ Way(buffer', chip', tms, chip.began)
  BY DEF GoesOn
<1>2. o.err = "ok"
  <2>1. result' = "ok" BY DEF IExact
  <2> QED BY <1>1, <2>1 DEF Fail
<1> QED BY <1>1, <1>2

\* What is under way when a scan goes on.
LEMMA UnderWay ==
    ASSUME IType, IExact, IWay, failures = 0, pc \in Scanning
    PROVE  /\ Way(buffer, chip, tms, chip.began) /\ tms \in Seq({0, 1}) /\ cur \in Nat /\ state \in JtagStates
           /\ \E e : /\ InScan(buffer, chip, tdo, e, state, tms, cur) /\ e \in Chips /\ Rides(e, state, tms, cur)
                     /\ Soon(buffer, chip, tdo, e, FilledTo(Along(state, tms), Len(tms), cur)) /\ e.began = chip.began
<1>1. Way(buffer, chip, tms, chip.began) /\ Moving BY DEF IWay, IExact
<1>2. PICK e : InScan(buffer, chip, tdo, e, state, tms, cur) BY <1>1 DEF Moving
<1>3. /\ e \in Chips /\ Rides(e, state, tms, cur)
      /\ Soon(buffer, chip, tdo, e, FilledTo(Along(state, tms), Len(tms), cur))
  BY <1>2 DEF InScan
<1>4. e.began = chip.began BY <1>1, <1>3, SoonOn
<1> QED BY <1>1, <1>2, <1>3, <1>4 DEF IType

LEMMA BitsGoOn ==
    ASSUME PoolFits, IType, IPlace, IExact, IWay, IExact', NEW n, NEW next_pc \in Scanning, BitsMove(n, next_pc), pc \in Scanning
    PROVE  GoesOn
<1> DEFINE cmd == Command("bits", Positions(cur, n), <<>>, 0)
           copier == Copier(8 - n, cur, n)
<1>1. /\ Perform(AddBits(cmd, copier), cur + n, next_pc) /\ n \in 1 .. 7 /\ cur + n < Len(tms)
      /\ \A i \in cur .. cur + n : IsShift(Along(state, tms)[i])
  BY DEF BitsMove, Here
<1>2. ASSUME failures = 0, NEW o \in AddBits(cmd, copier), o.err = "ok"
      PROVE  Way(o.b, o.c, tms, chip.began)
  <2>1. Way(buffer, chip, tms, chip.began) /\ tms \in Seq({0, 1}) /\ cur \in Nat /\ state \in JtagStates BY <1>2, UnderWay
  <2>2. PICK e : /\ e \in Chips /\ Rides(e, state, tms, cur) /\ e.began = chip.began
                 /\ Soon(buffer, chip, tdo, e, FilledTo(Along(state, tms), Len(tms), cur))
    BY <1>2, UnderWay
  <2>3. n \in Nat /\ n > 0 /\ cur + n <= Len(tms) /\ 0 \in Nat /\ Len(tms) \in Nat BY <1>1, <2>1
  <2>4. IsShift(Along(state, tms)[cur]) BY <1>1, <2>1, <2>3
  <2>5. Tracks(e, tms) /\ e.clocks = cur /\ e.expects = 0 /\ e.agreed = (e.began = state) /\ e.pin = 0
    BY <2>2, <2>4 DEF Rides
  <2>6. PICK c1 : c1 = cmd OBVIOUS
  <2>7. c1 = Command("bits", Positions(cur, n), <<>>, 0) BY <2>6
  <2>8. c1 \in Commands /\ Rides(Execute(e, c1), state, tms, cur + n)
    BY ONLY <1>1, <2>1, <2>2, <2>3, <2>5, <2>7, BitsRide
  <2>9. On(Execute(e, c1), tms, chip.began)
    <3>1. On(Execute(e, c1), tms, e.began) BY <2>2, <2>8, RidesAreOn
    <3> QED BY <2>2, <3>1
  <2>10. buffer.pool < PoolSize
    <3>1. Moving BY <1>2 DEF IExact
    <3>2. buffer.pool \in Nat /\ buffer.pool <= 2 * cur + Extra(pc) /\ Extra(pc) \in {0, 1} BY <3>1, PoolNow
    <3>3. cur + 1 \in Nat /\ cur + 1 <= Len(tms) /\ tms \in ScanVectors BY <1>1, <2>1, <2>3 DEF IPlace, Scanning, ShiftParts
    <3>4. 2 * (cur + 1) <= PoolSize BY ONLY PoolFits, <3>3, PoolEnough
    <3> QED BY <2>1, <3>2, <3>4, Sizes
  <2>11. o \in AddBits(c1, copier) /\ o.err = "ok" BY <1>2, <2>6
  <2> HIDE DEF copier
  <2> QED BY ONLY IType, <2>1, <2>2, <2>8, <2>9, <2>10, <2>11, BitsWay
<1> HIDE DEF cmd, copier
<1> QED BY ONLY IType, IExact', pc \in Scanning, next_pc \in Scanning, <1>1, <1>2, PerformGoesOn

LEMMA LastGoesOn ==
    ASSUME PoolFits, IType, IPlace, IExact, IWay, IExact', NEW bit, LastMove(bit), pc = "last"
    PROVE  GoesOn
<1> DEFINE cmd == Command("last", <<cur>>, <<bit>>, 0)
           copier == Copier(8 - 1, cur, 1)
<1>1. /\ Perform(AddBits(cmd, copier), cur + 1, "next") /\ bit \in {0, 1} /\ bit = tms[cur + 1] /\ cur + 1 <= Len(tms)
  BY DEF LastMove
<1>2. pc \in Scanning /\ "next" \in Scanning BY DEF Scanning, ShiftParts
<1>3. ASSUME failures = 0, NEW o \in AddBits(cmd, copier), o.err = "ok"
      PROVE  Way(o.b, o.c, tms, chip.began)
  <2>1. Way(buffer, chip, tms, chip.began) /\ tms \in Seq({0, 1}) /\ cur \in Nat /\ state \in JtagStates
    BY <1>2, <1>3, UnderWay
  <2>2. PICK e : /\ e \in Chips /\ Rides(e, state, tms, cur) /\ e.began = chip.began
                 /\ Soon(buffer, chip, tdo, e, FilledTo(Along(state, tms), Len(tms), cur))
    BY <1>2, <1>3, UnderWay
  <2>3. PICK c1 : c1 = cmd OBVIOUS
  <2>4. c1 = Command("last", <<cur>>, <<bit>>, 0) BY <2>3
  <2>5. c1 \in Commands /\ Rides(Execute(e, c1), state, tms, cur + 1)
    BY ONLY <1>1, <2>1, <2>2, <2>4, LastRides
  <2>6. On(Execute(e, c1), tms, chip.began)
    <3>1. On(Execute(e, c1), tms, e.began) BY <2>2, <2>5, RidesAreOn
    <3> QED BY <2>2, <3>1
  <2>7. buffer.pool < PoolSize
    <3>1. Moving BY <1>2, <1>3 DEF IExact
    <3>2. buffer.pool \in Nat /\ buffer.pool <= 2 * cur + Extra(pc) /\ Extra(pc) \in {0, 1} BY <3>1, PoolNow
    <3>3. cur + 1 \in Nat /\ cur + 1 <= Len(tms) /\ tms \in ScanVectors BY <1>1, <2>1 DEF IPlace
    <3>4. 2 * (cur + 1) <= PoolSize BY ONLY PoolFits, <3>3, PoolEnough
    <3> QED BY <2>1, <3>2, <3>4, Sizes
  <2>8. o \in AddBits(c1, copier) /\ o.err = "ok" BY <1>3, <2>3
  <2> HIDE DEF copier
  <2> QED BY ONLY IType, <2>1, <2>2, <2>5, <2>6, <2>7, <2>8, BitsWay
<1> HIDE DEF cmd, copier
<1> QED BY ONLY IType, IExact', <1>1, <1>2, <1>3, PerformGoesOn

LEMMA TmsGoesOn ==
    ASSUME IType, IExact, IWay, IExact', NEW n, NEW next_pc, TmsMove(n, next_pc), pc = "tms"
    PROVE  GoesOn
<1> DEFINE cmd == Command("tms", <<>>, SubSeq(tms, cur + 1, cur + n), 0)
           outcomes == mpsse_buffer_append(buffer, chip, tdo, <<cmd>>, 3, <<>>, 0)
<1>1. Perform(outcomes, cur + n, next_pc) /\ n \in Nat /\ n > 0 /\ cur + n <= Len(tms) /\ next_pc \in {"next", "tms"}
  BY DEF TmsMove
<1>2. pc \in Scanning /\ next_pc \in Scanning BY <1>1 DEF Scanning, ShiftParts
<1>3. ASSUME failures = 0, NEW o \in outcomes, o.err = "ok"
      PROVE  Way(o.b, o.c, tms, chip.began)
  <2>1. Way(buffer, chip, tms, chip.began) /\ tms \in Seq({0, 1}) /\ cur \in Nat /\ state \in JtagStates
    BY <1>2, <1>3, UnderWay
  <2>2. PICK e : /\ e \in Chips /\ Rides(e, state, tms, cur) /\ e.began = chip.began
                 /\ Soon(buffer, chip, tdo, e, FilledTo(Along(state, tms), Len(tms), cur))
    BY <1>2, <1>3, UnderWay
  <2>3. PICK c1 : c1 = cmd OBVIOUS
  <2>4. c1 = Command("tms", <<>>, SubSeq(tms, cur + 1, cur + n), 0) BY <2>3
  <2>5. c1 \in Commands /\ Rides(Execute(e, c1), state, tms, cur + n)
    BY ONLY <1>1, <2>1, <2>2, <2>4, TmsRides
  <2>6. On(Execute(e, c1), tms, chip.began)
    <3>1. On(Execute(e, c1), tms, e.began) BY <2>2, <2>5, RidesAreOn
    <3> QED BY <2>2, <3>1
  <2>7. PICK obs : obs = <<>> OBVIOUS
  <2>8. o \in mpsse_buffer_append(buffer, chip, tdo, <<c1>>, 3, obs, 0) /\ o.err = "ok" BY <1>3, <2>3, <2>7
  <2>9. 3 \in Nat /\ 3 <= max_tx_buffer_bytes /\ 0 \in Nat /\ 0 <= max_rx_buffer_bytes BY Lengths, Sizes
  <2> QED BY ONLY <2>1, <2>2, <2>5, <2>6, <2>8, <2>9, AppendWay
<1> HIDE DEF cmd, outcomes
<1> QED BY ONLY IType, IExact', <1>1, <1>2, <1>3, PerformGoesOn

LEMMA ChunkGoesOn ==
    ASSUME IType, IExact, IWay, IExact', NEW m, ChunkMove(m), pc = "whole"
    PROVE  GoesOn
<1>1. Perform(Chunk, cur + 8 * m, "trailing") BY DEF ChunkMove
<1>2. /\ m \in Nat /\ m > 0 /\ m <= chip_buffer_size /\ cur + 8 * m < Len(tms)
      /\ ChunkSize = m /\ Bulk /\ ChunkData = Command("data", Positions(cur, 8 * m), <<>>, m)
  BY DEF ChunkMove
<1>3. \A i \in cur .. cur + 8 * m : IsShift(Along(state, tms)[i]) BY DEF ChunkMove, Here
<1>4. pc \in Scanning /\ "trailing" \in Scanning BY DEF Scanning, ShiftParts
<1>5. ASSUME failures = 0, NEW o \in Chunk, o.err = "ok"
      PROVE  Way(o.b, o.c, tms, chip.began)
  <2>1. Way(buffer, chip, tms, chip.began) /\ tms \in Seq({0, 1}) /\ cur \in Nat /\ state \in JtagStates
    BY <1>4, <1>5, UnderWay
  <2>2. PICK e : InScan(buffer, chip, tdo, e, state, tms, cur) BY <1>4, <1>5, UnderWay
  <2>3. cur + 8 * m <= Len(tms) BY <1>2, <2>1
  <2> QED BY ONLY <1>2, <1>3, <1>5, <2>1, <2>2, <2>3, ChunkWay
<1> QED BY ONLY IType, IExact', <1>1, <1>4, <1>5, PerformGoesOn

LEMMA SkipGoesOn ==
    ASSUME IWay, pc \in Scanning, NEW next_pc \in Scanning, Skip(next_pc)
    PROVE  GoesOn
BY DEF Skip, GoesOn, IWay

LEMMA NextRunGoesOn ==
    ASSUME ShortRuns, IType, IPlace, IWay, IExact', NextRun
    PROVE  GoesOn
<1>1. pc = "next" /\ UNCHANGED <<chip, state, tdo, tms, cur, failures>> /\ RunMove BY NextRunMoves
<1> SUFFICES ASSUME failures = 0 PROVE pc' \in Scanning /\ Way(buffer', chip', tms, chip.began)
  BY <1>1 DEF GoesOn, Scanning
<1>2. Way(buffer, chip, tms, chip.began) BY <1>1 DEF IWay, Scanning
<1>3. result' = "ok" BY <1>1 DEF IExact
<1>4. pc' \in {"tms", "leading"} /\ buffer'.tx = buffer.tx
  <2>1. \A o \in pool_alloc(buffer, chip, tdo) : o.b.tx = buffer.tx BY PoolType DEF IType
  <2> QED BY <1>1, <1>3, <2>1 DEF RunMove
<1>5. Way(buffer', chip', tms, chip.began) BY <1>1, <1>2, <1>4, WaySame
<1> QED BY <1>4, <1>5 DEF Scanning, ShiftParts

\* Every step of a scan but the last.
LEMMA ScanGoesOn ==
    ASSUME ShortRuns, PoolFits, IType, IPlace, IExact, IWay, IExact', ScanStep, ~Finish
    PROVE  GoesOn
<1>1. CASE NextRun BY <1>1, NextRunGoesOn
<1>2. CASE append_tms_shift
  <2>1. PICK n, next_pc : TmsMove(n, next_pc) BY <1>2, TmsMoves
  <2>2. pc = "tms" BY <1>2 DEF append_tms_shift
  <2> QED BY <2>1, <2>2, TmsGoesOn
<1>3. CASE Leading
  <2>1. (\E n : BitsMove(n, "whole")) \/ SkipMove("whole") BY <1>3, LeadingMoves
  <2>2. pc \in Scanning /\ "whole" \in Scanning BY <1>3 DEF Leading, Scanning, ShiftParts
  <2> QED BY <2>1, <2>2, BitsGoOn, SkipGoesOn DEF SkipMove
<1>4. CASE Whole
  <2>1. (\E m : ChunkMove(m)) \/ SkipMove("trailing") BY <1>4, WholeMoves
  <2>2. pc = "whole" /\ pc \in Scanning /\ "trailing" \in Scanning BY <1>4, WholeIs DEF Scanning, ShiftParts
  <2> QED BY <2>1, <2>2, ChunkGoesOn, SkipGoesOn DEF SkipMove
<1>5. CASE Trailing
  <2>1. (\E n : BitsMove(n, "last")) \/ SkipMove("last") BY <1>5, TrailingMoves
  <2>2. pc \in Scanning /\ "last" \in Scanning BY <1>5 DEF Trailing, Scanning, ShiftParts
  <2> QED BY <2>1, <2>2, BitsGoOn, SkipGoesOn DEF SkipMove
<1>6. CASE LastBit
  <2>1. PICK bit : LastMove(bit) BY <1>6, LastMoves
  <2>2. pc = "last" BY <1>6 DEF LastBit
  <2> QED BY <2>1, <2>2, LastGoesOn
<1> QED BY <1>1, <1>2, <1>3, <1>4, <1>5, <1>6 DEF ScanStep

\* A scan begins where the TAP is.
LEMMA BeginWay ==
    ASSUME IType, IExact, mpsse_adapter_scan, failures = 0
    PROVE  /\ pc = "idle" /\ pc' = "next" /\ tms' \in ScanVectors /\ chip'.began = chip.tap /\ UNCHANGED state
           /\ Way(buffer', chip', tms', chip'.began)
<1>1. PICK v \in ScanVectors, fresh \in BOOLEAN :
        /\ fresh => buffer.observers # <<>>
        /\ tms' = v
        /\ buffer' = IF fresh THEN [buffer EXCEPT !.observers = [k \in DOMAIN @ |-> [@[k] EXCEPT !.num = 0]]] ELSE buffer
  BY DEF mpsse_adapter_scan
<1>2. /\ pc = "idle" /\ pc' = "next" /\ UNCHANGED state
      /\ chip' = [chip EXCEPT !.agreed = (chip.tap = state), !.began = chip.tap]
  BY DEF mpsse_adapter_scan
<1>3. Ready BY <1>2 DEF IExact
<1>4. buffer'.tx = <<>> BY <1>1, <1>3 DEF Ready, Settled
<1>5. chip' \in Chips /\ chip'.began = chip.tap /\ chip'.tap = chip.tap /\ chip'.clocks = chip.clocks
  <2>1. chip \in Chips BY DEF IType
  <2>2. Begun(chip, state, chip') BY <1>2, <2>1, BeginFields, Zenon
  <2> QED BY <2>2, Zenon DEF Begun
<1>6. v \in Seq({0, 1}) /\ Len(v) \in Nat /\ chip.tap \in JtagStates BY <1>1, ScanAssumption DEF IType, Chips
<1>7. On(chip', v, chip.tap)
  <2>1. chip'.clocks = 0 /\ 0 \in 0 .. Len(v) BY <1>3, <1>5, <1>6 DEF Ready
  <2>2. Along(chip.tap, v)[0] = chip.tap BY <1>6, AlongSteps
  <2> QED BY <1>5, <2>1, <2>2 DEF On
<1>8. Way(buffer', chip', v, chip.tap) BY ONLY <1>4, <1>5, <1>7, WayRest
<1> QED BY <1>1, <1>2, <1>5, <1>8

\* A scan that goes on has begun where it had begun before.
LEMMA GoesOnBegan ==
    ASSUME IType', GoesOn, failures' = 0
    PROVE  chip'.began = chip.began
<1>1. Way(buffer', chip', tms, chip.began) BY DEF GoesOn
<1>2. buffer' \in Buffers /\ chip' \in Chips BY DEF IType
<1>3. On(chip', tms, chip.began) BY ONLY <1>1, <1>2, WayEnd
<1> QED BY <1>3 DEF On

LEMMA WayStep ==
    ASSUME ShortRuns, PoolFits, IType, IPlace, IExact, IWay, [Next]_vars, IType', IExact'
    PROVE  IWay'
<1> SUFFICES ASSUME failures' = 0, pc' \in Scanning PROVE Way(buffer', chip', tms', chip'.began)
  BY DEF IWay
<1>1. CASE mpsse_adapter_scan
  <2>1. failures = 0 BY <1>1 DEF mpsse_adapter_scan
  <2> QED BY <1>1, <2>1, BeginWay
<1>2. CASE ScanStep /\ ~Finish
  <2>1. GoesOn BY <1>2, ScanGoesOn
  <2>2. chip'.began = chip.began BY <2>1, GoesOnBegan
  <2> QED BY <2>1, <2>2 DEF GoesOn
<1>3. CASE Finish
  <2>1. pc' = "done" BY <1>3, FinishLands
  <2> QED BY <2>1 DEF Scanning, ShiftParts
<1>4. CASE mpsse_adapter_set_frequency \/ Return \/ mpsse_adapter_close \/ Killed
  <2>1. pc' = "idle" BY <1>4 DEF mpsse_adapter_set_frequency, Return, mpsse_adapter_close, Killed, Reopen
  <2> QED BY <2>1 DEF Scanning, ShiftParts
<1>5. CASE UNCHANGED vars
  <2>1. UNCHANGED <<buffer, chip, tms, pc, failures>> BY <1>5 DEF vars
  <2> QED BY <2>1 DEF IWay
<1> QED BY <1>1, <1>2, <1>3, <1>4, <1>5 DEF Next

-----------------------------------------------------------------------------
(* A scan seen from its caller. *)

LEMMA SameTables == Abstract!JtagStates = JtagStates /\ Abstract!jtag_next_state = jtag_next_state
<1>1. Abstract!JtagStates = JtagStates BY DEF Abstract!JtagStates, JtagStates
<1> QED BY <1>1, Zenon DEF Abstract!jtag_next_state, jtag_next_state

LEMMA SameWalk ==
    ASSUME NEW s, NEW v
    PROVE  Abstract!jtag_walk(Abstract!jtag_next_state, s, v) = jtag_walk(jtag_next_state, s, v)
<1>1. \A table : Abstract!jtag_path(table, s, v) = jtag_path(table, s, v)
  BY Zenon DEF Abstract!jtag_path, jtag_path, Abstract!jtag_step, jtag_step
<1> QED BY <1>1, SameTables, Zenon DEF Abstract!jtag_walk, jtag_walk

\* What JtagScan says of a walk and of the TDO vector, in the terms used above.
LEMMA SamePart ==
    ASSUME NEW s \in JtagStates, NEW v \in Seq({0, 1})
    PROVE  /\ \A k \in 0 .. Len(v) : Abstract!jtag_walk(Abstract!jtag_next_state, s, SubSeq(v, 1, k)) = Along(s, v)[k]
           /\ Abstract!jtag_walk(Abstract!jtag_next_state, s, v) = Along(s, v)[Len(v)]
<1>1. ASSUME NEW k \in 0 .. Len(v)
      PROVE  Abstract!jtag_walk(Abstract!jtag_next_state, s, SubSeq(v, 1, k)) = Along(s, v)[k]
  <2>1. jtag_walk(jtag_next_state, s, SubSeq(v, 1, k)) = jtag_path(jtag_next_state, s, v)[k] BY WalkAlong
  <2> QED BY <2>1, SameWalk DEF Along
<1>2. jtag_walk(jtag_next_state, s, v) = Along(s, v)[Len(v)] BY DEF jtag_walk, Along
<1>3. Abstract!jtag_walk(Abstract!jtag_next_state, s, v) = jtag_walk(jtag_next_state, s, v) BY SameWalk
<1> QED BY <1>1, <1>2, <1>3

LEMMA SameExact ==
    ASSUME NEW s \in JtagStates, NEW v \in Seq({0, 1})
    PROVE  Abstract!Exact(s, v) = FilledTo(Along(s, v), Len(v), Len(v))
<1>1. Len(v) \in Nat OBVIOUS
<1>2. ASSUME NEW i \in 0 .. Len(v) - 1
      PROVE  /\ i < Len(v)
             /\ Abstract!jtag_walk(Abstract!jtag_next_state, s, SubSeq(v, 1, i)) = Along(s, v)[i]
  <2>1. i \in 0 .. Len(v) /\ i < Len(v) BY <1>1
  <2> QED BY <2>1, SamePart
<1>3. \A x : Abstract!Shifts(x) <=> IsShift(x) BY DEF Abstract!Shifts, IsShift
<1>4. Abstract!Exact(s, v) = [i \in 0 .. Len(v) - 1 |->
          IF Abstract!Shifts(Abstract!jtag_walk(Abstract!jtag_next_state, s, SubSeq(v, 1, i))) THEN i ELSE Junk]
  BY DEF Abstract!Exact
<1> QED BY <1>2, <1>3, <1>4, Zenon DEF FilledTo

LEMMA BeginMaps ==
    ASSUME IType, IExact, mpsse_adapter_scan, failures = 0
    PROVE  Abstract!Start
<1>1. pc = "idle" /\ pc' = "next" /\ tms' \in ScanVectors /\ chip'.began = chip.tap /\ UNCHANGED state BY BeginWay
<1> QED BY <1>1 DEF Abstract!Start

LEMMA GoesOnMaps ==
    ASSUME IType', GoesOn, failures' = 0
    PROVE  UNCHANGED Abstract!vars
<1>1. chip'.began = chip.began BY GoesOnBegan
<1>2. pc \in Scanning /\ pc' \in Scanning /\ UNCHANGED <<state, tms>> BY DEF GoesOn
<1>3. pc \notin {"idle", "done"} /\ pc' \notin {"idle", "done"} BY <1>2 DEF Scanning, ShiftParts
<1> QED BY <1>1, <1>2, <1>3 DEF Abstract!vars

LEMMA FinishMaps ==
    ASSUME IType, IPlace, IExact, IWay, Finish, failures' = 0
    PROVE  Abstract!Complete
<1>1. /\ failures = 0 /\ pc = "next" /\ pc' = "done" /\ UNCHANGED tms
      /\ Rides(chip', state, tms, Len(tms)) /\ state' = Along(state, tms)[Len(tms)]
      /\ tdo' = FilledTo(Along(state, tms), Len(tms), Len(tms))
  BY FinishLands
<1>2. PICK o \in mpsse_buffer_flush(buffer, chip, tdo) : chip' = o.c /\ o.err = "ok" BY FinishLands
<1>3. buffer \in Buffers /\ chip \in Chips /\ chip.began \in JtagStates /\ state \in JtagStates /\ tms \in Seq({0, 1})
  BY DEF IType, Chips
<1>4. Way(buffer, chip, tms, chip.began) BY <1>1 DEF IWay, Scanning
<1>5. chip'.began = chip.began
  <2>1. Way(o.b, o.c, tms, chip.began) BY ONLY <1>2, <1>3, <1>4, FlushWay
  <2>2. o.b \in Buffers /\ o.c \in Chips BY <1>3, FlushType DEF OutcomeOk
  <2>3. On(o.c, tms, chip.began) BY ONLY <2>1, <2>2, WayEnd
  <2> QED BY <1>2, <2>3 DEF On
<1>6. chip'.tap = Along(chip.began, tms)[Len(tms)]
  <2>1. chip'.clocks = Len(tms) /\ chip'.tap = Along(chip'.began, tms)[chip'.clocks] BY <1>1 DEF Rides, Tracks
  <2> QED BY <1>5, <2>1
<1>7. chip'.tap = Abstract!jtag_walk(Abstract!jtag_next_state, chip.began, tms) BY <1>3, <1>6, SamePart
<1>8. state' = Abstract!jtag_walk(Abstract!jtag_next_state, state, tms) BY <1>1, <1>3, SamePart
<1>9. chip.began = state => tdo' = Abstract!Exact(chip.began, tms) BY <1>1, <1>3, SameExact
<1> QED BY <1>1, <1>7, <1>8, <1>9 DEF Abstract!Complete

LEMMA ReturnMaps ==
    ASSUME IType, Return
    PROVE  Abstract!Return
<1>1. pc = "done" /\ pc' = "idle" /\ tms' = <<>> /\ chip' = Recount(chip) /\ UNCHANGED state BY DEF Return
<1>2. chip'.tap = chip.tap BY <1>1, RecountFields DEF IType
<1> QED BY <1>1, <1>2 DEF Abstract!Return

\* A new process finds the TAP where the one before has left it.
LEMMA ReopenMaps ==
    ASSUME IType, NEW c \in Chips, Reopen(c), pc \in {"idle", "done"} => c.tap = chip.tap,
           pc \notin {"idle", "done"} => On(c, tms, chip.began)
    PROVE  Abstract!Restart
<1>1. pc' = "idle" /\ tms' = <<>> /\ state' = "TEST_LOGIC_RESET" /\ chip'.tap = c.tap BY ReopenedFields DEF Reopen
<1>2. CASE pc \in {"idle", "done"} BY <1>1, <1>2 DEF Abstract!Restart
<1>3. CASE pc \notin {"idle", "done"}
  <2>1. chip.began \in JtagStates /\ tms \in Seq({0, 1}) BY DEF IType, Chips
  <2>2. c.clocks \in 0 .. Len(tms) /\ c.tap = Along(chip.began, tms)[c.clocks] BY <1>3 DEF On
  <2>3. c.tap = Abstract!jtag_walk(Abstract!jtag_next_state, chip.began, SubSeq(tms, 1, c.clocks)) BY <2>1, <2>2, SamePart
  <2>4. \E k \in 0 .. Len(tms) : chip'.tap = Abstract!jtag_walk(Abstract!jtag_next_state, chip.began, SubSeq(tms, 1, k))
    BY <1>1, <2>2, <2>3
  <2> QED BY <1>1, <1>3, <2>4 DEF Abstract!Restart
<1> QED BY <1>2, <1>3

LEMMA CloseMaps ==
    ASSUME IType, IExact, mpsse_adapter_close, failures = 0
    PROVE  Abstract!Restart
<1>1. PICK o \in mpsse_buffer_flush(buffer, chip, tdo) : Reopen(o.c) BY DEF mpsse_adapter_close
<1>2. pc = "idle" BY DEF mpsse_adapter_close
<1>3. buffer \in Buffers /\ chip \in Chips BY DEF IType
<1>4. Settled(buffer, chip) BY <1>2 DEF IExact, Ready
<1>5. o.c = chip
  <2>1. buffer.tx = <<>> /\ buffer.tx_num = 0 /\ buffer.rx_num = 0 BY <1>4 DEF Settled
  <2>2. Executed(chip, buffer.tx) = {chip} BY <1>3, <2>1, NothingExecuted
  <2>3. o \in ReadAnswers(buffer, chip, tdo) BY <2>1, <2>2 DEF mpsse_buffer_flush
  <2> QED BY <2>1, <2>3, OutcomeFields DEF ReadAnswers
<1> QED BY <1>1, <1>2, <1>3, <1>5, ReopenMaps

LEMMA KilledMaps ==
    ASSUME IType, IWay, Killed, failures = 0
    PROVE  Abstract!Restart
<1>1. buffer \in Buffers /\ chip \in Chips /\ buffer.tx \in Seq(Commands) BY DEF IType, Buffers
<1>2. pc \notin {"idle", "done"} => pc \in Scanning BY DEF IType, Scanning, ShiftParts
<1>3. pc \notin {"idle", "done"} => Way(buffer, chip, tms, chip.began) BY <1>2 DEF IWay
<1>4. CASE Reopen(chip)
  <2>1. pc \notin {"idle", "done"} => On(chip, tms, chip.began) BY <1>1, <1>3, WayEnd
  <2> QED BY <1>1, <1>4, <2>1, ReopenMaps
<1>5. CASE pc = "next" /\ \E k \in 1 .. Len(buffer.tx) : \E sent \in Executed(chip, SubSeq(buffer.tx, 1, k)) : Reopen(sent)
  <2>1. PICK k \in 1 .. Len(buffer.tx) : \E sent \in Executed(chip, SubSeq(buffer.tx, 1, k)) : Reopen(sent) BY <1>5
  <2>2. PICK sent \in Executed(chip, SubSeq(buffer.tx, 1, k)) : Reopen(sent) BY <2>1
  <2>3. k \in 0 .. Len(buffer.tx) /\ SubSeq(buffer.tx, 1, k) \in Seq(Commands) BY <1>1
  <2>4. sent \in Chips BY <1>1, <2>2, <2>3, ExecutedType
  <2>5. On(sent, tms, chip.began) BY <1>3, <1>5, <2>2, <2>3 DEF Way
  <2> QED BY <1>5, <2>2, <2>4, <2>5, ReopenMaps
<1> QED BY <1>4, <1>5 DEF Killed

LEMMA FrequencyMaps ==
    ASSUME IType, IExact, mpsse_adapter_set_frequency, failures' = 0
    PROVE  UNCHANGED Abstract!vars
BY FrequencyLands DEF Abstract!vars

LEMMA AbstractInit == ASSUME Init PROVE Abstract!Init
<1>1. pc = "idle" /\ tms = <<>> /\ state = "TEST_LOGIC_RESET" /\ chip.tap \in TargetStates BY DEF Init
<1> QED BY <1>1 DEF Abstract!Init

LEMMA AbstractStep ==
    ASSUME ShortRuns, PoolFits, IType, IPlace, IExact, IWay, [Next]_vars, IType', IExact', failures = 0, failures' = 0
    PROVE  [Abstract!Next]_(Abstract!vars)
<1>1. CASE mpsse_adapter_scan BY <1>1, BeginMaps DEF Abstract!Next
<1>2. CASE mpsse_adapter_set_frequency BY <1>2, FrequencyMaps
<1>3. CASE ScanStep /\ ~Finish
  <2>1. GoesOn BY <1>3, ScanGoesOn
  <2> QED BY <2>1, GoesOnMaps
<1>4. CASE Finish BY <1>4, FinishMaps DEF Abstract!Next
<1>5. CASE Return BY <1>5, ReturnMaps DEF Abstract!Next
<1>6. CASE mpsse_adapter_close BY <1>6, CloseMaps DEF Abstract!Next
<1>7. CASE Killed BY <1>7, KilledMaps DEF Abstract!Next
<1>8. CASE UNCHANGED vars
  <2>1. UNCHANGED <<chip, state, tdo, tms, pc>> BY <1>8 DEF vars
  <2> QED BY <2>1 DEF Abstract!vars
<1> QED BY <1>1, <1>2, <1>3, <1>4, <1>5, <1>6, <1>7, <1>8 DEF Next

\* As long as no transfer fails, mpsse_adapter_scan is, seen from its caller, one step that
\* clocks the whole vector through the TAP and returns the bits sampled in a Shift state;
\* set_frequency between two scans moves nothing, and a process that is killed, in the
\* middle of the final flush or elsewhere, leaves the TAP where a part of the vector has
\* brought it.  This is the safety part of ImplementsScan, for every buffer size.
THEOREM ScanImplementsAbstract ==
    ASSUME ShortRuns, PoolFits
    PROVE  Spec /\ [](failures = 0) => Abstract!Init /\ [][Abstract!Next]_(Abstract!vars)
<1> DEFINE Inv == IType /\ IPlace /\ IExact /\ IWay
<1>1. Init => Inv
  <2>1. Init => IWay BY DEF Init, IWay, Scanning, ShiftParts
  <2> QED BY <2>1, TypeInit, PlaceInit, ExactInit
<1>2. Inv /\ [Next]_vars => Inv' BY TypeStep, PlaceStep, ExactStep, WayStep
<1>3. Init => Abstract!Init BY AbstractInit
<1>4. Inv /\ Inv' /\ (failures = 0) /\ (failures = 0)' /\ [Next]_vars => [Abstract!Next]_(Abstract!vars) BY AbstractStep
<1> HIDE DEF Inv
<1> QED BY <1>1, <1>2, <1>3, <1>4, PTL DEF Spec

-----------------------------------------------------------------------------
(* Transfers that fail.  What a failed scan has left in the buffer goes out with the       *)
(* commands of the next one; whatever that does to the TAP, the bits of the scan follow.   *)

\* The chip will be one of L when all of the buffer has been sent.
Lies(b, c, L) == b \in Buffers /\ c \in Chips /\ Executed(c, b.tx) \subseteq L

\* L does not depend on the answers that have been read.
Unread(L) == L \subseteq Chips /\ \A d \in L, k \in Nat : Take(d, k) \in L

LEMMA FlushLies ==
    ASSUME NEW L, Unread(L), NEW b, NEW c, NEW t, Lies(b, c, L), NEW o \in mpsse_buffer_flush(b, c, t), o.err = "ok"
    PROVE  Lies(o.b, o.c, L)
<1>1. b \in Buffers /\ c \in Chips /\ Executed(c, b.tx) \subseteq L BY DEF Lies
<1>2. PICK sent \in Executed(c, b.tx) : sent \in Chips /\ (o.c = sent \/ o.c = Take(sent, b.rx_num)) BY <1>1, FlushOk
<1>3. o.b \in Buffers /\ o.c \in Chips /\ o.b.tx = <<>> BY <1>1, FlushOk
<1>4. o.c \in L BY <1>1, <1>2, Counts DEF Unread
<1>5. Executed(o.c, o.b.tx) = {o.c} BY <1>3, NothingExecuted
<1> QED BY <1>3, <1>4, <1>5 DEF Lies

LEMMA AppendLies ==
    ASSUME NEW L, Unread(L), NEW b, NEW c, NEW t, Lies(b, c, L), NEW cmd \in Commands, NEW N,
           \A d \in L : Execute(d, cmd) \in N, NEW size \in Nat, NEW observers \in Seq(Observers), NEW M \in Nat,
           NEW o \in mpsse_buffer_append(b, c, t, <<cmd>>, size, observers, M), o.err = "ok"
    PROVE  Lies(o.b, o.c, N)
<1>1. b \in Buffers /\ c \in Chips BY DEF Lies
<1>2. PICK q \in Room(b, c, t, size, M) : Appended(q, o, cmd) BY ONLY <1>1, cmd \in Commands, size \in Nat, M \in Nat, o.err = "ok",
          o \in mpsse_buffer_append(b, c, t, <<cmd>>, size, observers, M), AppendOk
<1>3. Lies(q.b, q.c, L)
  <2>1. CASE q \in mpsse_buffer_flush(b, c, t) BY <1>2, <2>1, FlushLies DEF Appended
  <2>2. CASE q = Outcome("ok", b, c, t) BY <2>2, OutcomeFields
  <2> QED BY <1>2, <2>1, <2>2 DEF Room
<1>4. PICK tx \in Seq(Commands) : tx = q.b.tx BY <1>3 DEF Lies, Buffers
<1>5. q.c \in Chips /\ Executed(q.c, tx) \subseteq L BY <1>3, <1>4 DEF Lies
<1>6. PICK d : Executed(q.c, tx) = {d}
  <2>1. \E at : Run(q.c, tx, Len(tx), at) /\ Executed(q.c, tx) = {at[Len(tx)]} BY <1>5, ExecutedIsRun
  <2> QED BY <2>1
<1>7. Executed(q.c, tx \o <<cmd>>) = {Execute(d, cmd)} BY ONLY cmd \in Commands, <1>4, <1>5, <1>6, ExecutedMore
<1>8. Execute(d, cmd) \in N BY <1>5, <1>6
<1>9. o.c = q.c /\ o.b.tx = tx \o <<cmd>> BY <1>2, <1>4 DEF Appended
<1>10. o.b \in Buffers
  <2>1. <<cmd>> \in Seq(Commands) OBVIOUS
  <2>2. OutcomeOk(o) BY <1>1, <2>1, AppendType
  <2> QED BY <2>2 DEF OutcomeOk
<1> QED BY <1>5, <1>7, <1>8, <1>9, <1>10 DEF Lies

LEMMA ReadbackLies ==
    ASSUME NEW L, Unread(L), NEW b, NEW c, NEW t, Lies(b, c, L), NEW cmd \in Commands, NEW N,
           \A d \in L : Execute(d, cmd) \in N, NEW size \in Nat, NEW ob \in Observers, NEW M \in Nat,
           NEW o \in mpsse_buffer_add_write_with_readback(b, c, t, <<cmd>>, size, ob, M), o.err = "ok"
    PROVE  Lies(o.b, o.c, N)
<1>1. PICK q \in mpsse_buffer_ensure_can_append(b, c, t, size, M) :
        \/ q.err # "ok" /\ o = q
        \/ q.err = "ok" /\ o \in mpsse_buffer_append(q.b, q.c, q.t, <<cmd>>, size, <<ob>>, M)
  BY ReadbackCases
<1>2. q.err = "ok" /\ o \in mpsse_buffer_append(q.b, q.c, q.t, <<cmd>>, size, <<ob>>, M) BY <1>1
<1>3. Lies(q.b, q.c, L)
  <2>1. CASE q \in mpsse_buffer_flush(b, c, t) BY <1>2, <2>1, FlushLies
  <2>2. CASE q = Outcome("ok", b, c, t) BY <2>2, OutcomeFields
  <2> QED BY <1>1, <2>1, <2>2 DEF mpsse_buffer_ensure_can_append
<1>4. PICK obs : obs = <<ob>> /\ obs \in Seq(Observers)
  <2>1. <<ob>> \in Seq(Observers) OBVIOUS
  <2> QED BY <2>1
<1>5. o \in mpsse_buffer_append(q.b, q.c, q.t, <<cmd>>, size, obs, M) BY <1>2, <1>4
<1> QED BY ONLY Unread(L), cmd \in Commands, \A d \in L : Execute(d, cmd) \in N, size \in Nat, M \in Nat, o.err = "ok",
           <1>3, <1>4, <1>5, AppendLies

LEMMA BitsLie ==
    ASSUME IType, NEW L, Unread(L), Lies(buffer, chip, L), NEW cmd \in Commands, NEW N,
           \A d \in L : Execute(d, cmd) \in N, NEW ob \in Observers, NEW o \in AddBits(cmd, ob), o.err = "ok"
    PROVE  Lies(o.b, o.c, N)
<1>1. PICK q \in pool_alloc(buffer, chip, tdo) :
        \/ q.err # "ok" /\ o = q
        \/ q.err = "ok" /\ o \in mpsse_buffer_add_write_with_readback(q.b, q.c, q.t, <<cmd>>, 3, ob, 1)
  BY AddBitsCases
<1>2. o \in mpsse_buffer_add_write_with_readback(q.b, q.c, q.t, <<cmd>>, 3, ob, 1) BY <1>1
<1>3. Lies(q.b, q.c, L)
  <2>1. OutcomeOk(q) /\ q.c = chip /\ q.b.tx = buffer.tx BY <1>1, PoolType DEF IType
  <2> QED BY <2>1 DEF Lies, OutcomeOk
<1>4. 3 \in Nat /\ 1 \in Nat OBVIOUS
<1> QED BY ONLY Unread(L), cmd \in Commands, \A d \in L : Execute(d, cmd) \in N, ob \in Observers, o.err = "ok",
           <1>2, <1>3, <1>4, ReadbackLies

\* The bits of v behind the first j, and a chip that has clocked v up to bit k, but for
\* some zeros at its beginning: a run that begins in a Shift state, as the adapter sees
\* it, is clocked with TMS where a failed scan has left it.
Behead(v, j) == SubSeq(v, j + 1, Len(v))
Led(d, v, k) ==
    \E j \in 0 .. k, s \in JtagStates : /\ \A i \in 1 .. j : v[i] = 0
                                        /\ d.tap = Along(s, Behead(v, j))[k - j]
                                        /\ j < k => d.pin = v[k]

\* The chips that have been led to bit k, or were derailed on the way.
LedTo(v, k) == {d \in Chips : k = 0 \/ d.expects = -1 \/ (d.expects = 0 /\ Led(d, v, k))}
Headed(v, k, m) == {d \in Chips : d.expects = -1 \/ (d.expects = m /\ Led(d, v, k))}

LEMMA BeheadFollows ==
    ASSUME NEW v \in Seq({0, 1}), NEW j \in 0 .. Len(v)
    PROVE  /\ Behead(v, j) \in Seq({0, 1}) /\ Len(Behead(v, j)) = Len(v) - j
           /\ \A i \in 1 .. Len(v) - j : Behead(v, j)[i] = v[j + i]
<1>1. PICK n \in Nat : n = Len(v) - j BY Len(v) \in Nat
<1>2. j + n <= Len(v) /\ j + n = Len(v) /\ j \in Nat BY <1>1, Len(v) \in Nat
<1>3. Follows(SubSeq(v, j + 1, j + n), v, j) /\ Len(SubSeq(v, j + 1, j + n)) = n BY <1>2, SubSeqFollows
<1>4. SubSeq(v, j + 1, j + n) = Behead(v, j) BY <1>2 DEF Behead
<1>5. Follows(Behead(v, j), v, j) /\ Len(Behead(v, j)) = n BY <1>3, <1>4, Zenon
<1> QED BY <1>1, <1>5 DEF Follows

LEMMA LedAtOnce ==
    ASSUME NEW v \in Seq({0, 1}), NEW k \in 0 .. Len(v), NEW d \in Chips, \A i \in 1 .. k : v[i] = 0
    PROVE  Led(d, v, k)
<1>1. Behead(v, k) \in Seq({0, 1}) BY BeheadFollows
<1>2. d.tap \in JtagStates BY DEF Chips
<1>3. Along(d.tap, Behead(v, k))[0] = d.tap BY <1>1, <1>2, AlongSteps
<1>4. k \in 0 .. k /\ k - k = 0 /\ ~(k < k) OBVIOUS
<1> QED BY <1>2, <1>3, <1>4 DEF Led

\* A command whose levels are the bits of v.
LEMMA LedByLevels ==
    ASSUME NEW v \in Seq({0, 1}), NEW k \in Nat, NEW d \in Chips, Led(d, v, k),
           NEW cmd \in Commands, cmd.kind \in {"tms", "last", "bits", "data"}, d.expects = Due(cmd),
           Follows(Levels(d, cmd), v, k)
    PROVE  Execute(d, cmd).expects = 0 /\ Led(Execute(d, cmd), v, k + Clocked(cmd))
<1>1. PICK e, w, n : e = Execute(d, cmd) /\ w = Levels(d, cmd) /\ n = Clocked(cmd) OBVIOUS
<1>2. w \in Seq({0, 1}) /\ Len(w) = n /\ n \in Nat \ {0} BY <1>1, LevelsType
<1>3. e.expects = 0 /\ e.pin = w[n] /\ e.tap = Along(d.tap, w)[n] BY <1>1, ExecuteClocks DEF Along
<1>4. k + n <= Len(v) /\ Len(v) \in Nat /\ \A i \in 1 .. n : w[i] = v[k + i] BY <1>1, <1>2 DEF Follows
<1>5. PICK j \in 0 .. k, s \in JtagStates : /\ \A i \in 1 .. j : v[i] = 0
                                            /\ d.tap = Along(s, Behead(v, j))[k - j]
  BY DEF Led
<1>6. PICK r \in Seq({0, 1}) : r = Behead(v, j) /\ Len(r) = Len(v) - j /\ \A i \in 1 .. Len(v) - j : r[i] = v[j + i]
  <2>1. j \in 0 .. Len(v) BY <1>2, <1>4
  <2> QED BY <2>1, BeheadFollows
<1>7. PICK c \in Nat : c = k - j OBVIOUS
<1>8. c + Len(w) <= Len(r) /\ \A i \in 1 .. Len(w) : w[i] = r[c + i]
  <2>1. c + n <= Len(v) - j /\ j \in Nat BY <1>2, <1>4, <1>7
  <2>2. ASSUME NEW i \in 1 .. n PROVE w[i] = r[c + i]
    <3>1. c + i \in 1 .. Len(v) - j /\ j + (c + i) = k + i BY <1>2, <1>4, <1>7, <2>1
    <3> QED BY <1>4, <1>6, <3>1
  <2> QED BY <1>2, <1>6, <2>1, <2>2
<1>9. Along(Along(s, r)[c], w)[n] = Along(s, r)[c + n]
  <2>1. w \in Seq({0, 1}) BY <1>2
  <2>2. c + Len(w) <= Len(r) BY <1>8
  <2>3. \A i \in 1 .. Len(w) : w[i] = r[c + i] BY <1>8
  <2>4. \A i \in 0 .. Len(w) :
          jtag_path(jtag_next_state, jtag_path(jtag_next_state, s, r)[c], w)[i] = jtag_path(jtag_next_state, s, r)[c + i]
    BY ONLY s \in JtagStates, r \in Seq({0, 1}), c \in Nat, <2>1, <2>2, <2>3, PathJoin
  <2>5. n \in 0 .. Len(w) BY ONLY <1>2
  <2> QED BY ONLY <2>4, <2>5 DEF Along
<1>10. e.tap = Along(s, Behead(v, j))[(k + n) - j]
  <2>1. c + n = (k + n) - j BY <1>2, <1>7
  <2> QED BY <1>3, <1>5, <1>6, <1>7, <1>9, <2>1
<1>11. e.pin = v[k + n] BY <1>2, <1>3, <1>4
<1>12. j \in 0 .. k + n BY <1>2
<1>13. Led(e, v, k + n) BY <1>5, <1>10, <1>11, <1>12 DEF Led
<1> QED BY <1>1, <1>3, <1>13

\* A chip that expects something else, or nothing any more, is derailed.
LEMMA Derails ==
    ASSUME NEW d \in Chips, NEW cmd \in Commands, d.expects # Due(cmd) \/ d.expects = -1
    PROVE  Execute(d, cmd).expects = -1
<1>1. Due(cmd) \in Nat BY DEF Due, Commands
<1>2. d.expects # Due(cmd) BY <1>1
<1> QED BY <1>2, ExecuteOthers

\* A command with TMS where it is, in a run of the adapter's in a Shift state.
LEMMA LedByPin ==
    ASSUME NEW t \in JtagStates, NEW v \in Seq({0, 1}), NEW k \in Nat, NEW d \in Chips, Led(d, v, k),
           NEW n \in Nat, n > 0, k + n <= Len(v), \A i \in k .. k + n : IsShift(Along(t, v)[i]),
           NEW cmd \in Commands, cmd.kind \in {"bits", "data"}, d.expects = Due(cmd), Clocked(cmd) = n,
           Levels(d, cmd) = [i \in 1 .. n |-> d.pin]
    PROVE  Execute(d, cmd).expects = 0 /\ Led(Execute(d, cmd), v, k + n)
<1>1. PICK j \in 0 .. k, s \in JtagStates : /\ \A i \in 1 .. j : v[i] = 0
                                            /\ d.tap = Along(s, Behead(v, j))[k - j]
                                            /\ j < k => d.pin = v[k]
  BY DEF Led
<1>2. cmd.kind \in {"tms", "last", "bits", "data"} /\ Len(v) \in Nat OBVIOUS
<1>3. ASSUME NEW i \in 1 .. k + n, i >= k PROVE v[i] = 0
  <2>1. i \in k .. k + n /\ i \in 1 .. Len(v) BY <1>2, <1>3
  <2>2. IsShift(Along(t, v)[i]) BY <2>1
  <2> QED BY <2>1, <2>2, AlongSteps
<1>4. CASE j < k
  <2>1. d.pin = 0
    <3>1. k \in 1 .. k + n /\ k >= k BY <1>4
    <3> QED BY <1>1, <1>3, <1>4, <3>1
  <2>2. Follows([i \in 1 .. n |-> d.pin], v, k)
    BY ONLY t \in JtagStates, v \in Seq({0, 1}), k \in Nat, n \in Nat, k + n <= Len(v), <2>1,
            \A i \in k .. k + n : IsShift(Along(t, v)[i]), LowFollows
  <2>3. Follows(Levels(d, cmd), v, k) BY <2>2
  <2>4. Execute(d, cmd).expects = 0 /\ Led(Execute(d, cmd), v, k + Clocked(cmd))
    BY ONLY v \in Seq({0, 1}), k \in Nat, d \in Chips, Led(d, v, k), cmd \in Commands, d.expects = Due(cmd), <1>2, <2>3, LedByLevels
  <2> QED BY <2>4
<1>5. CASE ~(j < k)
  <2>1. j = k BY <1>5
  <2>2. \A i \in 1 .. k + n : v[i] = 0
    <3>1. ASSUME NEW i \in 1 .. k + n PROVE v[i] = 0
      <4>1. CASE i >= k BY <1>3, <4>1
      <4>2. CASE ~(i >= k)
        <5>1. i \in 1 .. j BY <2>1, <4>2
        <5> QED BY <1>1, <5>1
      <4> QED BY <4>1, <4>2
    <3> QED BY <3>1
  <2>3. k + n \in 0 .. Len(v) /\ Execute(d, cmd) \in Chips BY <1>2, ExecuteType
  <2>4. Led(Execute(d, cmd), v, k + n) BY ONLY v \in Seq({0, 1}), <2>2, <2>3, LedAtOnce
  <2>5. Execute(d, cmd).expects = 0 BY <1>2, ExecuteClocks
  <2> QED BY <2>4, <2>5
<1> QED BY <1>4, <1>5

\* What a chip is led by does not depend on its answers, or on the data it expects.
LEMMA LedSame ==
    ASSUME NEW d, NEW v, NEW k, Led(d, v, k), NEW e, e.tap = d.tap, e.pin = d.pin
    PROVE  Led(e, v, k)
BY DEF Led

LEMMA LedUnread ==
    ASSUME NEW v, NEW k, NEW m
    PROVE  Unread(LedTo(v, k)) /\ Unread(Headed(v, k, m))
<1>1. ASSUME NEW d \in Chips, NEW i \in Nat
      PROVE  /\ Take(d, i) \in Chips /\ Take(d, i).tap = d.tap /\ Take(d, i).pin = d.pin /\ Take(d, i).expects = d.expects
             /\ Led(d, v, k) => Led(Take(d, i), v, k)
  <2>1. PICK q : q = SubSeq(d.queue, i + 1, Len(d.queue)) OBVIOUS
  <2>2. Take(d, i) = [d EXCEPT !.queue = q] BY <2>1 DEF Take
  <2>3. Take(d, i).tap = d.tap /\ Take(d, i).pin = d.pin /\ Take(d, i).expects = d.expects BY <2>2 DEF Chips
  <2> QED BY <2>3, TakeType, LedSame
<1>2. Unread(LedTo(v, k)) BY <1>1 DEF Unread, LedTo
<1>3. Unread(Headed(v, k, m)) BY <1>1 DEF Unread, Headed
<1> QED BY <1>2, <1>3

LEMMA LedStart ==
    ASSUME NEW v \in Seq({0, 1}), NEW k \in 0 .. Len(v), NEW d \in LedTo(v, k), d.expects # -1
    PROVE  d \in Chips /\ Led(d, v, k)
<1>1. d \in Chips /\ (k = 0 \/ Led(d, v, k)) BY DEF LedTo
<1>2. k = 0 => \A i \in 1 .. k : v[i] = 0 OBVIOUS
<1> QED BY <1>1, <1>2, LedAtOnce

\* The commands of a scan, wherever the chip was led to.
LEMMA LedTms ==
    ASSUME NEW v \in Seq({0, 1}), NEW k \in Nat, NEW n \in Nat, n > 0, k + n <= Len(v),
           NEW cmd \in Commands, cmd.kind \in {"tms", "last"}, Clocked(cmd) = n, cmd.tms # <<>>, Follows(cmd.tms, v, k)
    PROVE  \A d \in LedTo(v, k) : Execute(d, cmd) \in LedTo(v, k + n)
<1> SUFFICES ASSUME NEW d \in LedTo(v, k) PROVE Execute(d, cmd) \in LedTo(v, k + n)
  OBVIOUS
<1>1. d \in Chips BY DEF LedTo
<1>2. Execute(d, cmd) \in Chips BY <1>1, ExecuteType
<1>3. Due(cmd) = 0 BY DEF Due
<1>4. CASE d.expects # 0
  <2>1. Execute(d, cmd).expects = -1 BY <1>1, <1>3, <1>4, Derails
  <2> QED BY <1>2, <2>1 DEF LedTo
<1>5. CASE d.expects = 0
  <2>1. k \in 0 .. Len(v) /\ d.expects # -1 BY <1>5, Len(v) \in Nat
  <2>2. Led(d, v, k) BY <2>1, LedStart
  <2>3. Follows(Levels(d, cmd), v, k) BY DEF Levels
  <2>4. cmd.kind \in {"tms", "last", "bits", "data"} /\ d.expects = Due(cmd) BY <1>3, <1>5
  <2>5. Execute(d, cmd).expects = 0 /\ Led(Execute(d, cmd), v, k + Clocked(cmd))
    BY ONLY v \in Seq({0, 1}), k \in Nat, cmd \in Commands, <1>1, <2>2, <2>3, <2>4, LedByLevels
  <2> QED BY <1>2, <2>5 DEF LedTo
<1> QED BY <1>4, <1>5

LEMMA LedBits ==
    ASSUME NEW t \in JtagStates, NEW v \in Seq({0, 1}), NEW k \in Nat, NEW n \in Nat, n > 0, k + n <= Len(v),
           \A i \in k .. k + n : IsShift(Along(t, v)[i]),
           NEW cmd \in Commands, cmd.kind \in {"bits", "data"}, Clocked(cmd) = n, cmd.tms = <<>>, NEW L,
           \A d \in L : d \in Chips /\ (d.expects = Due(cmd) => Led(d, v, k))
    PROVE  \A d \in L : Execute(d, cmd) \in LedTo(v, k + n)
<1> SUFFICES ASSUME NEW d \in L PROVE Execute(d, cmd) \in LedTo(v, k + n)
  OBVIOUS
<1>1. d \in Chips BY DEF LedTo
<1>2. Execute(d, cmd) \in Chips BY <1>1, ExecuteType
<1>3. CASE d.expects # Due(cmd)
  <2>1. Execute(d, cmd).expects = -1 BY <1>1, <1>3, Derails
  <2> QED BY <1>2, <2>1 DEF LedTo
<1>4. CASE d.expects = Due(cmd)
  <2>1. Led(d, v, k) BY <1>4
  <2>2. Levels(d, cmd) = [i \in 1 .. n |-> d.pin] BY DEF Levels
  <2>3. Execute(d, cmd).expects = 0 /\ Led(Execute(d, cmd), v, k + n)
    BY ONLY t \in JtagStates, v \in Seq({0, 1}), k \in Nat, n \in Nat, n > 0, k + n <= Len(v),
            \A i \in k .. k + n : IsShift(Along(t, v)[i]), cmd \in Commands, cmd.kind \in {"bits", "data"}, Clocked(cmd) = n,
            <1>1, <1>4, <2>1, <2>2, LedByPin
  <2> QED BY <1>2, <2>3 DEF LedTo
<1> QED BY <1>3, <1>4

LEMMA LedHeader ==
    ASSUME NEW v \in Seq({0, 1}), NEW k \in 0 .. Len(v), NEW m \in Nat, m > 0,
           NEW cmd \in Commands, cmd.kind = "bytes", cmd.octets = m
    PROVE  \A d \in LedTo(v, k) : Execute(d, cmd) \in Headed(v, k, m)
<1> SUFFICES ASSUME NEW d \in LedTo(v, k) PROVE Execute(d, cmd) \in Headed(v, k, m)
  OBVIOUS
<1>1. d \in Chips BY DEF LedTo
<1>2. PICK e : e = Execute(d, cmd) OBVIOUS
<1>3. e \in Chips BY <1>1, <1>2, ExecuteType
<1>4. Due(cmd) = 0 BY DEF Due
<1>5. CASE d.expects # 0
  <2>1. e.expects = -1 BY <1>1, <1>2, <1>4, <1>5, Derails
  <2> QED BY <1>2, <1>3, <2>1 DEF Headed
<1>6. CASE d.expects = 0
  <2>1. Led(d, v, k) BY <1>6, LedStart
  <2>2. e = [d EXCEPT !.expects = e.expects] /\ e.expects = m
    <3>1. /\ e = [d EXCEPT !.expects = e.expects]
          /\ e.expects = IF d.expects # Due(cmd) THEN -1
                         ELSE IF cmd.kind = "clock" THEN d.expects ELSE IF cmd.octets = 0 THEN -1 ELSE cmd.octets
      BY <1>1, <1>2, ExecuteOthers
    <3> QED BY <1>4, <1>6, <3>1
  <2>3. e.tap = d.tap /\ e.pin = d.pin BY <1>1, <2>2 DEF Chips
  <2>4. Led(e, v, k) BY <2>1, <2>3, LedSame
  <2> QED BY <1>2, <1>3, <2>2, <2>4 DEF Headed
<1> QED BY <1>5, <1>6

\* One chunk, its header and its data.
LEMMA ChunkLies ==
    ASSUME IType, NEW t \in JtagStates, NEW v \in Seq({0, 1}), Lies(buffer, chip, LedTo(v, cur)),
           NEW m \in Nat, m > 0, cur + 8 * m <= Len(v), \A i \in cur .. cur + 8 * m : IsShift(Along(t, v)[i]),
           ChunkSize = m, Bulk, ChunkData = Command("data", Positions(cur, 8 * m), <<>>, m),
           ChunkCopier = Copier(0, cur, 8 * m), NEW o \in Chunk, o.err = "ok"
    PROVE  Lies(o.b, o.c, LedTo(v, cur + 8 * m))
<1>1. PICK n \in Nat, k \in Nat : n = 8 * m /\ n > 0 /\ k = cur /\ k + n <= Len(v) BY DEF IType
<1>2. PICK head : head = Header OBVIOUS
<1>3. head.kind = "bytes" /\ head.octets = m
  <2>1. head = Command("bytes", <<>>, <<>>, m) BY <1>2, Zenon DEF Header
  <2> QED BY ONLY <2>1, CommandFields
<1>4. head \in Commands
  <2>1. "bytes" \in Kinds /\ "bytes" \notin {"tms", "last", "bits", "data"} /\ <<>> \in Seq(Int) /\ <<>> \in Seq({0, 1}) BY DEF Kinds
  <2>2. Command("bytes", <<>>, <<>>, m) \in Commands BY ONLY m \in Nat, <2>1, CommandType
  <2> QED BY <1>2, <2>2, Zenon DEF Header
<1>5. PICK data : data = Command("data", Positions(k, n), <<>>, m) /\ data = ChunkData BY <1>1
<1>6. /\ data \in Commands /\ data.kind \in {"bits", "data"} /\ data.tms = <<>> /\ Clocked(data) = n /\ Due(data) = m
  <2>1. data.kind = "data" /\ data.tdi = Positions(k, n) /\ data.tms = <<>> /\ data.octets = m BY ONLY <1>5, CommandFields
  <2>2. Positions(k, n) \in Seq(Int) /\ Len(Positions(k, n)) = n
    <3>1. k \in Int OBVIOUS
    <3> QED BY <3>1, PositionsType
  <2>3. "data" \in Kinds /\ "data" # "tms" /\ <<>> \in Seq({0, 1}) /\ Len(Positions(k, n)) > 0 BY <1>1, <2>2 DEF Kinds
  <2>4. Command("data", Positions(k, n), <<>>, m) \in Commands BY ONLY m \in Nat, <2>2, <2>3, CommandType
  <2> QED BY <1>5, <2>1, <2>2, <2>4 DEF Clocked, Due
<1>7. PICK q \in mpsse_buffer_append(buffer, chip, tdo, <<head>>, 3, <<>>, 0) :
             \/ q.err # "ok" /\ o = q
             \/ q.err = "ok" /\ o \in AddChunk(q)
  BY <1>2, ChunkCases
<1>8. q.err = "ok" /\ o \in AddChunk(q) BY <1>7
<1>9. PICK H : H = Headed(v, k, m) OBVIOUS
<1>10. Unread(LedTo(v, k)) /\ Unread(H) BY <1>9, LedUnread
<1>11. \A d \in LedTo(v, k) : Execute(d, head) \in H
  <2>1. k \in 0 .. Len(v) BY <1>1
  <2>2. \A d \in LedTo(v, k) : Execute(d, head) \in Headed(v, k, m)
    BY ONLY v \in Seq({0, 1}), m \in Nat, m > 0, <1>3, <1>4, <2>1, LedHeader
  <2> QED BY <1>9, <2>2
<1>12. Lies(q.b, q.c, H)
  <2>1. PICK obs \in Seq(Observers) : obs = <<>>
    <3>1. <<>> \in Seq(Observers) OBVIOUS
    <3> QED BY <3>1, Zenon
  <2>2. q \in mpsse_buffer_append(buffer, chip, tdo, <<head>>, 3, obs, 0) BY <1>7, <2>1
  <2>3. Lies(buffer, chip, LedTo(v, k)) /\ 3 \in Nat /\ 0 \in Nat BY <1>1
  <2> QED BY ONLY obs \in Seq(Observers), <1>4, <1>8, <1>10, <1>11, <2>2, <2>3, AppendLies
<1>13. PICK N : N = LedTo(v, k + n) OBVIOUS
<1>14. \A d \in H : Execute(d, data) \in N
  <2>1. \A d \in H : d \in Chips /\ (d.expects = Due(data) => Led(d, v, k)) BY <1>6, <1>9 DEF Headed
  <2>2. \A i \in k .. k + n : IsShift(Along(t, v)[i]) BY <1>1
  <2>3. \A d \in H : Execute(d, data) \in LedTo(v, k + n)
    BY ONLY t \in JtagStates, v \in Seq({0, 1}), k \in Nat, n \in Nat, <1>1, <1>6, <2>1, <2>2, LedBits
  <2> QED BY <1>13, <2>3
<1>15. PICK ob \in Observers : ob = ChunkCopier
  <2>1. 0 \in Int /\ k \in Int /\ n \in Int OBVIOUS
  <2>2. Copier(0, k, n) \in Observers BY ONLY <2>1, CopierType
  <2> QED BY <1>1, <2>2
<1>16. o \in mpsse_buffer_add_write_with_readback(q.b, q.c, q.t, <<data>>, m, ob, m)
  <2>1. ChunkSize # 0 OBVIOUS
  <2> QED BY <1>5, <1>8, <1>15, <2>1 DEF AddChunk
<1>17. Lies(o.b, o.c, N)
  BY ONLY m \in Nat, ob \in Observers, o.err = "ok", <1>6, <1>10, <1>12, <1>14, <1>16, ReadbackLies
<1> QED BY <1>1, <1>13, <1>17

IHeard == pc \in Scanning => Lies(buffer, chip, LedTo(tms, cur))

LEMMA PerformHeard ==
    ASSUME NEW outcomes, NEW next, NEW next_pc, Perform(outcomes, next, next_pc),
           \A o \in outcomes : o.err = "ok" => Lies(o.b, o.c, LedTo(tms, next))
    PROVE  IHeard' /\ (pc' = "done" => result' # "ok" \/ next_pc = "done")
<1>1. PICK o \in outcomes :
        /\ buffer' = o.b /\ chip' = o.c /\ tdo' = o.t
        /\ \/ o.err # "ok" /\ Fail(o)
           \/ o.err = "ok" /\ cur' = next /\ pc' = next_pc /\ UNCHANGED <<state, tms, seg, result, failures>>
  BY DEF Perform
<1>2. CASE o.err # "ok"
  <2>1. pc' = "done" /\ result' # "ok" BY <1>1, <1>2 DEF Fail
  <2> QED BY <2>1 DEF IHeard, Scanning, ShiftParts
<1>3. CASE o.err = "ok" BY <1>1, <1>3 DEF IHeard
<1> QED BY <1>2, <1>3

\* A scan in which transfers may have failed goes on, or fails.
Passes == IHeard' /\ (pc' = "done" => result' # "ok")

LEMMA BitsPass ==
    ASSUME IType, IHeard, NEW n, NEW next_pc \in Scanning, BitsMove(n, next_pc), pc \in Scanning
    PROVE  Passes
<1> DEFINE cmd == Command("bits", Positions(cur, n), <<>>, 0)
           copier == Copier(8 - n, cur, n)
<1>1. /\ Perform(AddBits(cmd, copier), cur + n, next_pc) /\ n \in 1 .. 7 /\ cur + n < Len(tms)
      /\ \A i \in cur .. cur + n : IsShift(Along(state, tms)[i])
  BY DEF BitsMove, Here
<1>2. state \in JtagStates /\ tms \in Seq({0, 1}) /\ cur \in Nat /\ Len(tms) \in Nat BY DEF IType
<1>3. n \in Nat /\ n > 0 /\ cur + n <= Len(tms) /\ cur \in 0 .. Len(tms) BY <1>1, <1>2
<1>4. PICK c1 : c1 = Command("bits", Positions(cur, n), <<>>, 0) OBVIOUS
<1>5. c1 \in Commands /\ c1.kind \in {"bits", "data"} /\ c1.tms = <<>> /\ Clocked(c1) = n /\ Due(c1) = 0
  <2>1. c1.kind = "bits" /\ c1.tdi = Positions(cur, n) /\ c1.tms = <<>> /\ c1.octets = 0 BY ONLY <1>4, CommandFields
  <2>2. Positions(cur, n) \in Seq(Int) /\ Len(Positions(cur, n)) = n
    <3>1. cur \in Int BY <1>2
    <3> QED BY <1>3, <3>1, PositionsType
  <2>3. "bits" \in Kinds /\ "bits" # "tms" /\ <<>> \in Seq({0, 1}) /\ Len(Positions(cur, n)) > 0 /\ 0 \in Nat BY <1>3, <2>2 DEF Kinds
  <2>4. Command("bits", Positions(cur, n), <<>>, 0) \in Commands BY ONLY <2>2, <2>3, CommandType
  <2> QED BY <1>4, <2>1, <2>2, <2>4 DEF Clocked, Due
<1>6. PICK L, N : L = LedTo(tms, cur) /\ N = LedTo(tms, cur + n) OBVIOUS
<1>7. \A d \in L : Execute(d, c1) \in N
  <2>1. \A d \in L : d \in Chips /\ (d.expects = Due(c1) => Led(d, tms, cur))
    <3>1. ASSUME NEW d \in L, d.expects = Due(c1) PROVE Led(d, tms, cur)
      <4>1. d \in LedTo(tms, cur) /\ d.expects # -1 BY <1>5, <1>6, <3>1
      <4> QED BY ONLY <1>2, <1>3, <4>1, LedStart
    <3> QED BY <1>6, <3>1 DEF LedTo
  <2>2. \A d \in L : Execute(d, c1) \in LedTo(tms, cur + n) BY ONLY <1>1, <1>2, <1>3, <1>5, <2>1, LedBits
  <2> QED BY <1>6, <2>2
<1>8. PICK ob \in Observers : ob = copier
  <2>1. 8 - n \in Int /\ cur \in Int /\ n \in Int BY <1>2, <1>3
  <2> QED BY <2>1, CopierType
<1>9. Lies(buffer, chip, L) /\ Unread(L) BY <1>6, LedUnread DEF IHeard
<1>10. ASSUME NEW o \in AddBits(cmd, copier), o.err = "ok" PROVE Lies(o.b, o.c, LedTo(tms, cur + n))
  <2>1. o \in AddBits(c1, ob) /\ o.err = "ok" BY <1>4, <1>8, <1>10
  <2>2. Lies(o.b, o.c, N) BY ONLY IType, ob \in Observers, <1>5, <1>7, <1>9, <2>1, BitsLie
  <2> QED BY <1>6, <2>2
<1> HIDE DEF cmd, copier
<1>11. IHeard' /\ (pc' = "done" => result' # "ok" \/ next_pc = "done") BY ONLY <1>1, <1>10, PerformHeard
<1> QED BY <1>11 DEF Passes, Scanning, ShiftParts

LEMMA LastPasses ==
    ASSUME IType, IHeard, NEW bit, LastMove(bit), pc = "last"
    PROVE  Passes
<1> DEFINE cmd == Command("last", <<cur>>, <<bit>>, 0)
           copier == Copier(8 - 1, cur, 1)
<1>1. Perform(AddBits(cmd, copier), cur + 1, "next") /\ bit \in {0, 1} /\ bit = tms[cur + 1] /\ cur + 1 <= Len(tms)
  BY DEF LastMove
<1>2. tms \in Seq({0, 1}) /\ cur \in Nat /\ Len(tms) \in Nat BY DEF IType
<1>3. 1 \in Nat /\ 1 > 0 OBVIOUS
<1>4. PICK c1 : c1 = Command("last", <<cur>>, <<bit>>, 0) OBVIOUS
<1>5. /\ c1 \in Commands /\ c1.kind \in {"tms", "last"} /\ c1.tms # <<>> /\ Clocked(c1) = 1 /\ Follows(c1.tms, tms, cur)
  <2>1. c1.kind = "last" /\ c1.tdi = <<cur>> /\ c1.tms = <<bit>> /\ c1.octets = 0 BY ONLY <1>4, CommandFields
  <2>2. <<cur>> \in Seq(Int) /\ Len(<<cur>>) = 1 /\ <<bit>> \in Seq({0, 1}) /\ Len(<<bit>>) = 1 /\ <<bit>> # <<>> BY <1>1, <1>2
  <2>3. "last" \in Kinds /\ "last" # "tms" /\ 0 \in Nat /\ Len(<<cur>>) > 0 /\ Len(<<bit>>) = Len(<<cur>>) BY <2>2 DEF Kinds
  <2>4. Command("last", <<cur>>, <<bit>>, 0) \in Commands BY ONLY <2>2, <2>3, CommandType
  <2>5. Follows(<<bit>>, tms, cur)
    <3>1. \A i \in 1 .. 1 : <<bit>>[i] = tms[cur + i] BY <1>1
    <3> QED BY <1>1, <2>2, <3>1 DEF Follows
  <2> QED BY <1>4, <2>1, <2>2, <2>4, <2>5 DEF Clocked
<1>6. PICK L, N : L = LedTo(tms, cur) /\ N = LedTo(tms, cur + 1) OBVIOUS
<1>7. \A d \in L : Execute(d, c1) \in N
  <2>1. \A d \in LedTo(tms, cur) : Execute(d, c1) \in LedTo(tms, cur + 1) BY ONLY <1>1, <1>2, <1>3, <1>5, LedTms
  <2> QED BY <1>6, <2>1
<1>8. PICK ob \in Observers : ob = copier
  <2>1. 8 - 1 \in Int /\ cur \in Int /\ 1 \in Int BY <1>2
  <2> QED BY <2>1, CopierType
<1>9. Lies(buffer, chip, L) /\ Unread(L) BY <1>6, LedUnread DEF IHeard, Scanning, ShiftParts
<1>10. ASSUME NEW o \in AddBits(cmd, copier), o.err = "ok" PROVE Lies(o.b, o.c, LedTo(tms, cur + 1))
  <2>1. o \in AddBits(c1, ob) /\ o.err = "ok" BY <1>4, <1>8, <1>10
  <2>2. Lies(o.b, o.c, N) BY ONLY IType, ob \in Observers, <1>5, <1>7, <1>9, <2>1, BitsLie
  <2> QED BY <1>6, <2>2
<1> HIDE DEF cmd, copier
<1>11. IHeard' /\ (pc' = "done" => result' # "ok" \/ "next" = "done") BY ONLY <1>1, <1>10, PerformHeard
<1> QED BY <1>11 DEF Passes

LEMMA TmsPasses ==
    ASSUME IType, IHeard, NEW n, NEW next_pc, TmsMove(n, next_pc), pc = "tms"
    PROVE  Passes
<1> DEFINE cmd == Command("tms", <<>>, SubSeq(tms, cur + 1, cur + n), 0)
           outcomes == mpsse_buffer_append(buffer, chip, tdo, <<cmd>>, 3, <<>>, 0)
<1>1. Perform(outcomes, cur + n, next_pc) /\ n \in Nat /\ n > 0 /\ cur + n <= Len(tms) /\ next_pc \in {"next", "tms"}
  BY DEF TmsMove
<1>2. tms \in Seq({0, 1}) /\ cur \in Nat BY DEF IType
<1>3. PICK bits : bits = SubSeq(tms, cur + 1, cur + n) OBVIOUS
<1>4. Follows(bits, tms, cur) /\ Len(bits) = n /\ bits \in Seq({0, 1})
  <2>1. Follows(SubSeq(tms, cur + 1, cur + n), tms, cur) /\ Len(SubSeq(tms, cur + 1, cur + n)) = n
    BY ONLY <1>1, <1>2, SubSeqFollows
  <2>2. Follows(bits, tms, cur) /\ Len(bits) = n BY <1>3, <2>1, Zenon
  <2> QED BY <2>2 DEF Follows
<1>5. PICK c1 : c1 = Command("tms", <<>>, bits, 0) OBVIOUS
<1>6. /\ c1 \in Commands /\ c1.kind \in {"tms", "last"} /\ c1.tms # <<>> /\ Clocked(c1) = n /\ Follows(c1.tms, tms, cur)
  <2>1. c1.kind = "tms" /\ c1.tms = bits BY ONLY <1>5, CommandFields
  <2>2. bits # <<>> BY <1>1, <1>4
  <2>3. <<>> \in Seq(Int) /\ "tms" \in Kinds /\ 0 \in Nat BY DEF Kinds
  <2>4. Command("tms", <<>>, bits, 0) \in Commands BY ONLY <1>4, <2>2, <2>3, CommandType
  <2> QED BY <1>4, <1>5, <2>1, <2>2, <2>4 DEF Clocked
<1>7. PICK L, N : L = LedTo(tms, cur) /\ N = LedTo(tms, cur + n) OBVIOUS
<1>8. \A d \in L : Execute(d, c1) \in N
  <2>1. \A d \in LedTo(tms, cur) : Execute(d, c1) \in LedTo(tms, cur + n) BY ONLY <1>1, <1>2, <1>6, LedTms
  <2> QED BY <1>7, <2>1
<1>9. Lies(buffer, chip, L) /\ Unread(L) BY <1>7, LedUnread DEF IHeard, Scanning, ShiftParts
<1>10. ASSUME NEW o \in outcomes, o.err = "ok" PROVE Lies(o.b, o.c, LedTo(tms, cur + n))
  <2>1. PICK obs \in Seq(Observers) : obs = <<>>
    <3>1. <<>> \in Seq(Observers) OBVIOUS
    <3> QED BY <3>1, Zenon
  <2>2. o \in mpsse_buffer_append(buffer, chip, tdo, <<c1>>, 3, obs, 0) BY <1>3, <1>5, <1>10, <2>1
  <2>3. 3 \in Nat /\ 0 \in Nat OBVIOUS
  <2>4. Lies(o.b, o.c, N) BY ONLY obs \in Seq(Observers), <1>6, <1>8, <1>9, <1>10, <2>2, <2>3, AppendLies
  <2> QED BY <1>7, <2>4
<1> HIDE DEF cmd, outcomes
<1>11. IHeard' /\ (pc' = "done" => result' # "ok" \/ next_pc = "done") BY ONLY <1>1, <1>10, PerformHeard
<1> QED BY <1>1, <1>11 DEF Passes

LEMMA ChunkPasses ==
    ASSUME IType, IHeard, NEW m, ChunkMove(m), pc = "whole"
    PROVE  Passes
<1>1. Perform(Chunk, cur + 8 * m, "trailing") BY DEF ChunkMove
<1>2. /\ m \in Nat /\ m > 0 /\ cur + 8 * m < Len(tms) /\ ChunkSize = m /\ Bulk
      /\ ChunkData = Command("data", Positions(cur, 8 * m), <<>>, m) /\ ChunkCopier = Copier(0, cur, 8 * m)
  BY DEF ChunkMove
<1>3. \A i \in cur .. cur + 8 * m : IsShift(Along(state, tms)[i]) BY DEF ChunkMove, Here
<1>4. state \in JtagStates /\ tms \in Seq({0, 1}) /\ cur \in Nat /\ Len(tms) \in Nat BY DEF IType
<1>5. Lies(buffer, chip, LedTo(tms, cur)) BY DEF IHeard, Scanning, ShiftParts
<1>6. cur + 8 * m <= Len(tms) BY <1>2, <1>4
<1>7. ASSUME NEW o \in Chunk, o.err = "ok" PROVE Lies(o.b, o.c, LedTo(tms, cur + 8 * m))
  BY ONLY IType, <1>2, <1>3, <1>4, <1>5, <1>6, <1>7, ChunkLies
<1>8. IHeard' /\ (pc' = "done" => result' # "ok" \/ "trailing" = "done") BY ONLY <1>1, <1>7, PerformHeard
<1> QED BY <1>8 DEF Passes

LEMMA SkipPasses ==
    ASSUME IHeard, pc \in Scanning, NEW next_pc \in Scanning, Skip(next_pc)
    PROVE  Passes
<1>1. Lies(buffer, chip, LedTo(tms, cur)) BY DEF IHeard
<1>2. UNCHANGED <<buffer, chip, tms, cur>> /\ pc' # "done" BY DEF Skip, Scanning, ShiftParts
<1> QED BY <1>1, <1>2 DEF IHeard, Passes

LEMMA NextRunPasses ==
    ASSUME ShortRuns, IType, IPlace, IHeard, NextRun
    PROVE  Passes
<1>1. pc = "next" /\ UNCHANGED <<chip, tms, cur>> /\ RunMove BY NextRunMoves
<1>2. Lies(buffer, chip, LedTo(tms, cur)) BY <1>1 DEF IHeard, Scanning
<1>3. \A o \in pool_alloc(buffer, chip, tdo) : o.b \in Buffers /\ o.b.tx = buffer.tx
  BY PoolType DEF IType, OutcomeOk
<1>4. pc' = "done" => result' # "ok" BY <1>1 DEF RunMove
<1>5. pc' \in {"tms", "leading", "done"} BY <1>1 DEF RunMove
<1>6. pc' # "done" => buffer' \in Buffers /\ buffer'.tx = buffer.tx BY <1>1, <1>3 DEF RunMove, IType
<1>7. ASSUME pc' \in Scanning PROVE Lies(buffer', chip', LedTo(tms', cur'))
  <2>1. pc' # "done" BY <1>7 DEF Scanning, ShiftParts
  <2> QED BY <1>1, <1>2, <1>6, <2>1 DEF Lies
<1> QED BY <1>4, <1>7 DEF IHeard, Passes

LEMMA ScanPasses ==
    ASSUME ShortRuns, IType, IPlace, IHeard, ScanStep, ~Finish
    PROVE  Passes
<1>1. CASE NextRun BY <1>1, NextRunPasses
<1>2. CASE append_tms_shift
  <2>1. PICK n, next_pc : TmsMove(n, next_pc) BY <1>2, TmsMoves
  <2>2. pc = "tms" BY <1>2 DEF append_tms_shift
  <2> QED BY <2>1, <2>2, TmsPasses
<1>3. CASE Leading
  <2>1. (\E n : BitsMove(n, "whole")) \/ SkipMove("whole") BY <1>3, LeadingMoves
  <2>2. pc \in Scanning /\ "whole" \in Scanning BY <1>3 DEF Leading, Scanning, ShiftParts
  <2> QED BY <2>1, <2>2, BitsPass, SkipPasses DEF SkipMove
<1>4. CASE Whole
  <2>1. (\E m : ChunkMove(m)) \/ SkipMove("trailing") BY <1>4, WholeMoves
  <2>2. pc = "whole" /\ pc \in Scanning /\ "trailing" \in Scanning BY <1>4, WholeIs DEF Scanning, ShiftParts
  <2> QED BY <2>1, <2>2, ChunkPasses, SkipPasses DEF SkipMove
<1>5. CASE Trailing
  <2>1. (\E n : BitsMove(n, "last")) \/ SkipMove("last") BY <1>5, TrailingMoves
  <2>2. pc \in Scanning /\ "last" \in Scanning BY <1>5 DEF Trailing, Scanning, ShiftParts
  <2> QED BY <2>1, <2>2, BitsPass, SkipPasses DEF SkipMove
<1>6. CASE LastBit
  <2>1. PICK bit : LastMove(bit) BY <1>6, LastMoves
  <2>2. pc = "last" BY <1>6 DEF LastBit
  <2> QED BY <2>1, <2>2, LastPasses
<1> QED BY <1>1, <1>2, <1>3, <1>4, <1>5, <1>6 DEF ScanStep

\* A chip that has been led along the whole of a vector with five ones is where the
\* adapter's walk along it ends, wherever both have begun.
LEMMA LedHome ==
    ASSUME NEW t \in JtagStates, NEW v \in Seq({0, 1}), HoldsReset(v), NEW d, Led(d, v, Len(v))
    PROVE  d.tap = Along(t, v)[Len(v)]
<1>1. PICK len \in Nat : len = Len(v) OBVIOUS
<1>2. PICK j \in 0 .. len, s \in JtagStates : (\A i \in 1 .. j : v[i] = 0) /\ d.tap = Along(s, Behead(v, j))[len - j]
  BY <1>1 DEF Led
<1>3. PICK w \in Seq({0, 1}) : w = Behead(v, j) /\ Len(w) = len - j /\ \A i \in 1 .. len - j : w[i] = v[j + i]
  BY <1>1, <1>2, BeheadFollows
<1>4. HoldsReset(w)
  <2>1. PICK i \in 1 .. len : i + 4 <= len /\ \A l \in i .. i + 4 : v[l] = 1 BY <1>1 DEF HoldsReset
  <2>2. j < i
    <3>1. v[i] = 1 BY <2>1
    <3>2. i \notin 1 .. j BY <1>2, <3>1
    <3> QED BY <3>2
  <2>3. PICK h \in 1 .. len - j : h = i - j BY <2>1, <2>2
  <2>4. h + 4 <= Len(w) /\ h \in 1 .. Len(w) BY <1>3, <2>1, <2>3
  <2>5. ASSUME NEW l \in h .. h + 4 PROVE w[l] = 1
    <3>1. l \in 1 .. len - j /\ j + l \in i .. i + 4 BY <1>3, <2>3, <2>4
    <3> QED BY <1>3, <2>1, <3>1
  <2> QED BY <2>4, <2>5 DEF HoldsReset
<1>5. PICK a \in JtagStates : a = Along(t, v)[j] BY <1>1, <1>2, AlongSteps
<1>6. Along(a, w)[len - j] = Along(t, v)[len]
  <2>1. j \in Nat /\ j + Len(w) <= Len(v) /\ len - j \in 0 .. Len(w) /\ j + (len - j) = len BY <1>1, <1>2, <1>3
  <2>2. \A k \in 1 .. Len(w) : w[k] = v[j + k] BY <1>3
  <2>3. Along(Along(t, v)[j], w)[len - j] = Along(t, v)[j + (len - j)]
    BY ONLY t \in JtagStates, v \in Seq({0, 1}), w \in Seq({0, 1}), <2>1, <2>2, PathJoin DEF Along
  <2> QED BY <1>5, <2>1, <2>3
<1>7. Along(s, w)[len - j] = Along(a, w)[len - j]
  <2>1. jtag_walk(jtag_next_state, s, w) = jtag_walk(jtag_next_state, a, w) BY <1>4, ResetJoins
  <2> QED BY <1>3, <2>1 DEF Along, jtag_walk
<1> QED BY <1>1, <1>2, <1>3, <1>6, <1>7

LEMMA FinishRecovers ==
    ASSUME IType, IPlace, IHeard, Finish
    PROVE  pc' = "done" /\ ResetRecovers'
<1>1. pc = "next" /\ cur >= Len(tms) BY DEF Finish
<1>2. PICK o \in mpsse_buffer_flush(buffer, chip, tdo) :
        /\ chip' = o.c /\ tdo' = o.t
        /\ \/ o.err # "ok" /\ buffer' = o.b /\ Fail(o)
           \/ /\ o.err = "ok" /\ buffer' = pool_reset(o.b) /\ state' = StateAt(Len(tms)) /\ pc' = "done"
              /\ UNCHANGED <<tms, seg, cur, result, failures>>
  BY DEF Finish
<1>3. pc' = "done" BY <1>2 DEF Fail
<1>4. CASE o.err # "ok"
  <2>1. result' # "ok" BY <1>2, <1>4 DEF Fail
  <2> QED BY <1>3, <2>1 DEF ResetRecovers, Returned
<1>5. CASE o.err = "ok"
  <2> SUFFICES ASSUME HoldsReset(tms'), chip'.expects = 0 PROVE chip'.tap = state'
    BY <1>3 DEF ResetRecovers
  <2>1. tms' = tms /\ state' = StateAt(Len(tms)) /\ HoldsReset(tms) BY <1>2, <1>5
  <2>2. cur = Len(tms) /\ Len(tms) \in Nat /\ tms \in Seq({0, 1}) /\ state \in JtagStates BY <1>1 DEF IPlace, At, IType
  <2>3. Lies(buffer, chip, LedTo(tms, Len(tms))) BY <1>1, <2>2 DEF IHeard, Scanning
  <2>4. Lies(o.b, o.c, LedTo(tms, Len(tms)))
    <3>1. PICK L : L = LedTo(tms, Len(tms)) OBVIOUS
    <3>2. Unread(L) /\ Lies(buffer, chip, L) BY <2>3, <3>1, LedUnread
    <3>3. Lies(o.b, o.c, L) BY <1>2, <1>5, <3>2, FlushLies
    <3> QED BY <3>1, <3>3
  <2>5. chip' \in LedTo(tms, Len(tms))
    <3>1. o.b.tx = <<>> /\ o.c \in Chips BY <1>5, FlushOk DEF IType
    <3>2. Executed(o.c, o.b.tx) = {o.c} BY <3>1, NothingExecuted
    <3> QED BY <1>2, <2>4, <3>2 DEF Lies
  <2>6. Led(chip', tms, Len(tms))
    <3>1. PICK i \in 1 .. Len(tms) : TRUE BY <2>1 DEF HoldsReset
    <3>2. Len(tms) # 0 BY <2>2, <3>1
    <3> QED BY <2>5, <3>2 DEF LedTo
  <2>7. chip'.tap = Along(state, tms)[Len(tms)] BY ONLY <2>1, <2>2, <2>6, LedHome
  <2>8. StateAt(Len(tms)) = Here[Len(tms)] BY <2>2, StateIs
  <2> QED BY <2>1, <2>7, <2>8 DEF Here
<1> QED BY <1>3, <1>4, <1>5

\* A scan begins, whatever a failed one has left.
LEMMA BeginHeard ==
    ASSUME IType, IType', IPlace, mpsse_adapter_scan
    PROVE  pc' = "next" /\ IHeard'
<1>1. pc = "idle" /\ pc' = "next" /\ cur' = cur BY DEF mpsse_adapter_scan
<1>2. cur' = 0 BY <1>1 DEF IPlace, At
<1>3. buffer' \in Buffers /\ chip' \in Chips BY DEF IType
<1>4. buffer'.tx \in Seq(Commands) BY <1>3 DEF Buffers
<1>5. Executed(chip', buffer'.tx) \subseteq Chips BY <1>3, <1>4, ExecutedType
<1>6. LedTo(tms', cur') = Chips BY <1>2 DEF LedTo
<1> QED BY <1>1, <1>3, <1>5, <1>6 DEF IHeard, Lies

LEMMA RecoverStep ==
    ASSUME ShortRuns, IType, IType', IPlace, IHeard, ResetRecovers, [Next]_vars
    PROVE  IHeard' /\ ResetRecovers'
<1>1. CASE mpsse_adapter_scan
  <2>1. pc' = "next" /\ IHeard' BY <1>1, BeginHeard
  <2> QED BY <2>1 DEF ResetRecovers, Returned
<1>2. CASE ScanStep /\ ~Finish
  <2>1. Passes BY <1>2, ScanPasses
  <2> QED BY <2>1 DEF Passes, ResetRecovers, Returned
<1>3. CASE Finish
  <2>1. pc' = "done" /\ ResetRecovers' BY <1>3, FinishRecovers
  <2> QED BY <2>1 DEF IHeard, Scanning, ShiftParts
<1>4. CASE mpsse_adapter_set_frequency \/ Return \/ mpsse_adapter_close \/ Killed
  <2>1. pc' = "idle" BY <1>4 DEF mpsse_adapter_set_frequency, Return, mpsse_adapter_close, Killed, Reopen
  <2> QED BY <2>1 DEF IHeard, Scanning, ShiftParts, ResetRecovers, Returned
<1>5. CASE UNCHANGED vars
  <2>1. UNCHANGED <<buffer, chip, state, tms, cur, pc, result>> BY <1>5 DEF vars
  <2>2. IHeard' BY <2>1 DEF IHeard
  <2>3. ResetRecovers' BY <2>1 DEF ResetRecovers, Returned
  <2> QED BY <2>2, <2>3
<1> QED BY <1>1, <1>2, <1>3, <1>4, <1>5 DEF Next

\* Whatever transfers have failed and whatever they have left in the buffer, the next scan
\* that clocks TMS high five times and returns 0 brings the adapter and the TAP together,
\* unless the chip was derailed (mpsse_buffer_flush, mpsse_adapter_scan).
THEOREM ResetAlwaysRecovers ==
    ASSUME ShortRuns
    PROVE  Spec => []ResetRecovers
<1> DEFINE Inv == IType /\ IPlace /\ IHeard /\ ResetRecovers
<1>1. Init => Inv
  <2>1. Init => IHeard /\ ResetRecovers BY DEF Init, IHeard, Scanning, ShiftParts, ResetRecovers, Returned
  <2> QED BY <2>1, TypeInit, PlaceInit
<1>2. Inv /\ [Next]_vars => Inv' BY TypeStep, PlaceStep, RecoverStep
<1> HIDE DEF Inv
<1>3. Inv => ResetRecovers BY DEF Inv
<1> QED BY <1>1, <1>2, <1>3, PTL DEF Spec
=============================================================================
