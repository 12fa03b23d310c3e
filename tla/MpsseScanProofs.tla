-------------------------- MODULE MpsseScanProofs --------------------------
(***************************************************************************)
(* Proofs about MpsseScan, for every buffer and pool size, every set of    *)
(* vectors, every state of the target and any number of failing transfers. *)
(***************************************************************************)
EXTENDS MpsseScan, JtagTapProofs

-----------------------------------------------------------------------------
(* Types. *)

Octets == [0 .. 7 -> Int]
Kinds == {"tms", "last", "bits", "bytes", "data", "clock"}
Errors == {"ok", "usb", "timeout", "full", "pool"}

\* A command that clocks has as many levels as it clocks, at least one.
Commands ==
    {cmd \in [kind : Kinds, tdi : Seq(Int), tms : Seq({0, 1}), octets : Nat] :
        /\ cmd.kind = "tms" => cmd.tms # <<>>
        /\ cmd.kind \in {"last", "bits", "data"} =>
             Len(cmd.tdi) > 0 /\ (cmd.tms = <<>> \/ Len(cmd.tms) = Len(cmd.tdi))}

Chips == [tap : JtagStates, pin : {0, 1}, clocks : Nat, expects : Int, queue : Seq(Octets),
          agreed : BOOLEAN, began : JtagStates, ordered : BOOLEAN, shifted : SUBSET Int]

Observers == [from : Int, to : Int, num : Int]

Buffers == [tx : Seq(Commands), tx_num : 0 .. max_tx_buffer_bytes, rx_num : 0 .. max_rx_buffer_bytes,
            observers : Seq(Observers), pool : 0 .. PoolSize]

Segments == [from : Nat, to : Nat, shift : BOOLEAN, leave : BOOLEAN]

\* The sizes of the buffers.
LEMMA Sizes == /\ max_tx_buffer_bytes \in Nat \ {0} /\ max_rx_buffer_bytes \in Nat \ {0}
               /\ PoolSize \in Nat /\ MaxFailures \in Nat
BY ScanAssumption DEF max_tx_buffer_bytes, max_rx_buffer_bytes

LEMMA Counts ==
    ASSUME NEW b \in Buffers
    PROVE  /\ b.tx_num \in Nat /\ b.tx_num <= max_tx_buffer_bytes /\ b.rx_num \in Nat /\ b.rx_num <= max_rx_buffer_bytes
           /\ b.pool \in Nat /\ b.pool <= PoolSize
BY Sizes DEF Buffers

\* The answers are bytes.
LEMMA SampledType ==
    ASSUME NEW t \in Nat, NEW n \in Nat
    PROVE  Sampled(t, n) \in Seq(Octets)
<1>1. CASE n < 8
  <2>1. [j \in 0 .. 7 |-> IF j >= 8 - n THEN t + j - (8 - n) ELSE Junk] \in Octets
    BY DEF Octets, Junk
  <2> QED BY <1>1, <2>1 DEF Sampled
<1>2. CASE n >= 8
  <2>1. PICK m \in Nat : m = n \div 8 OBVIOUS
  <2> DEFINE octet(k) == [j \in 0 .. 7 |-> t + 8 * (k - 1) + j]
  <2>2. \A k \in 1 .. m : octet(k) \in Octets BY DEF Octets
  <2>3. ~(n < 8) BY <1>2
  <2>4. Sampled(t, n) = [k \in 1 .. m |-> octet(k)] BY <2>1, <2>3 DEF Sampled
  <2> HIDE DEF octet
  <2>5. [k \in 1 .. m |-> octet(k)] \in Seq(Octets) BY <2>2
  <2> QED BY <2>4, <2>5
<1> QED BY <1>1, <1>2

\* The levels of TMS that a command clocks, and how many.
Clocked(cmd) == IF cmd.kind = "tms" THEN Len(cmd.tms) ELSE Len(cmd.tdi)
Levels(c, cmd) == IF cmd.tms # <<>> THEN cmd.tms ELSE [k \in 1 .. Clocked(cmd) |-> c.pin]

LEMMA LevelsType ==
    ASSUME NEW c \in Chips, NEW cmd \in Commands, cmd.kind \in {"tms", "last", "bits", "data"}
    PROVE  /\ Levels(c, cmd) \in Seq({0, 1}) /\ Len(Levels(c, cmd)) = Clocked(cmd)
           /\ Clocked(cmd) \in Nat \ {0}
<1>1. c.pin \in {0, 1} /\ cmd.tms \in Seq({0, 1}) /\ cmd.tdi \in Seq(Int) BY DEF Chips, Commands
<1>2. Clocked(cmd) \in Nat \ {0} BY <1>1 DEF Clocked, Commands
<1>3. CASE cmd.tms # <<>>
  BY <1>1, <1>2, <1>3 DEF Levels, Clocked, Commands
<1>4. CASE cmd.tms = <<>>
  <2>1. PICK n \in Nat : n = Clocked(cmd) BY <1>2
  <2>2. [k \in 1 .. n |-> c.pin] \in Seq({0, 1}) /\ Len([k \in 1 .. n |-> c.pin]) = n BY <1>1
  <2> QED BY <1>2, <1>4, <2>1, <2>2 DEF Levels
<1> QED BY <1>3, <1>4

LEMMA ChipExpects ==
    ASSUME NEW c \in Chips, NEW e \in Int
    PROVE  [c EXCEPT !.expects = e] \in Chips
BY DEF Chips

LEMMA ChipCounts ==
    ASSUME NEW c \in Chips, NEW m \in Nat
    PROVE  [c EXCEPT !.clocks = m] \in Chips
BY DEF Chips

LEMMA ChipAgrees ==
    ASSUME NEW c \in Chips, NEW a \in BOOLEAN
    PROVE  [c EXCEPT !.agreed = a] \in Chips
BY Zenon DEF Chips

LEMMA ChipPurged ==
    ASSUME NEW c \in Chips, NEW q \in Seq(Octets)
    PROVE  [c EXCEPT !.queue = q] \in Chips
BY DEF Chips

LEMMA ChipUpdate ==
    ASSUME NEW c \in Chips, NEW m \in Nat, NEW p \in {0, 1}, NEW a \in JtagStates,
           NEW sh \in SUBSET Int, NEW ord \in BOOLEAN, NEW q \in Seq(Octets)
    PROVE  [c EXCEPT !.expects = 0, !.clocks = m, !.pin = p, !.tap = a,
                     !.shifted = sh, !.ordered = ord, !.queue = q] \in Chips
<1>1. PICK c1 \in Chips : c1 = [c EXCEPT !.expects = 0]
  <2>1. 0 \in Int OBVIOUS
  <2> QED BY <2>1, ChipExpects
<1>2. PICK c2 \in Chips : c2 = [c1 EXCEPT !.clocks = m] BY DEF Chips
<1>3. PICK c3 \in Chips : c3 = [c2 EXCEPT !.pin = p, !.tap = a] BY DEF Chips
<1>4. PICK c4 \in Chips : c4 = [c3 EXCEPT !.shifted = sh] BY DEF Chips
<1>5. PICK c5 \in Chips : c5 = [c4 EXCEPT !.ordered = ord] BY DEF Chips
<1>6. PICK c6 \in Chips : c6 = [c5 EXCEPT !.queue = q] BY DEF Chips
<1> QED BY <1>1, <1>2, <1>3, <1>4, <1>5, <1>6

\* The chip stays a chip.
LEMMA ExecuteType ==
    ASSUME NEW c \in Chips, NEW cmd \in Commands
    PROVE  Execute(c, cmd) \in Chips
<1> DEFINE n == Clocked(cmd)
           levels == Levels(c, cmd)
           at == jtag_path(jtag_next_state, c.tap, levels)
           due == IF cmd.kind = "data" THEN cmd.octets ELSE 0
           sh == c.shifted \cup {c.clocks + k : k \in {j \in 0 .. n - 1 : IsShift(at[j])}}
           ord == c.ordered /\ \A k \in 1 .. Len(cmd.tdi) : cmd.tdi[k] = c.clocks + k - 1
           q == IF cmd.kind = "tms" THEN c.queue ELSE c.queue \o Sampled(c.clocks, n)
           moved == [c EXCEPT !.expects = 0, !.clocks = @ + n, !.pin = levels[n], !.tap = at[n],
                              !.shifted = sh, !.ordered = ord, !.queue = q]
<1>1. Execute(c, cmd) = CASE c.expects # due -> [c EXCEPT !.expects = -1]
         [] c.expects = due /\ cmd.kind = "bytes" ->
              [c EXCEPT !.expects = IF cmd.octets = 0 THEN -1 ELSE cmd.octets]
         [] c.expects = due /\ cmd.kind = "clock" -> c
         [] OTHER -> moved
  BY DEF Execute, Levels, Clocked
<1>2. cmd.kind \in Kinds /\ cmd.octets \in Nat BY DEF Commands
<1>3. ASSUME cmd.kind \in {"tms", "last", "bits", "data"} PROVE moved \in Chips
  <2>1. levels \in Seq({0, 1}) /\ Len(levels) = n /\ n \in Nat \ {0} BY <1>3, LevelsType
  <2>2. c.tap \in JtagStates /\ c.clocks \in Nat /\ c.queue \in Seq(Octets) /\ c.shifted \in SUBSET Int BY DEF Chips
  <2>3. at \in [0 .. n -> JtagStates] BY <2>1, <2>2, PathIsPath DEF Path
  <2> HIDE DEF n, levels, at
  <2>4. at[n] \in JtagStates /\ levels[n] \in {0, 1} BY <2>1, <2>3
  <2>5. sh \in SUBSET Int BY <2>1, <2>2
  <2>6. Sampled(c.clocks, n) \in Seq(Octets) BY <2>1, <2>2, SampledType
  <2>7. q \in Seq(Octets) BY <2>2, <2>6
  <2>8. ord \in BOOLEAN BY DEF Chips
  <2>9. c.clocks + n \in Nat BY <2>1, <2>2
  <2>10. PICK m \in Nat, p \in {0, 1}, a \in JtagStates : m = c.clocks + n /\ p = levels[n] /\ a = at[n]
    BY <2>4, <2>9
  <2> HIDE DEF sh, q, ord
  <2>11. [c EXCEPT !.expects = 0, !.clocks = m, !.pin = p, !.tap = a,
                   !.shifted = sh, !.ordered = ord, !.queue = q] \in Chips
    BY <2>5, <2>7, <2>8, ChipUpdate
  <2> QED BY <2>10, <2>11
<1> HIDE DEF moved, due
<1>4. c \in Chips /\ [c EXCEPT !.expects = -1] \in Chips
      /\ [c EXCEPT !.expects = IF cmd.octets = 0 THEN -1 ELSE cmd.octets] \in Chips
  BY <1>2 DEF Chips
<1> QED BY <1>1, <1>2, <1>3, <1>4 DEF Kinds

-----------------------------------------------------------------------------
(* What the chip does with a sequence of commands, by the first place argument. *)

\* The chip before, between and after the first m commands.
RunSteps(c, cmds, m, at) == at[0] = c /\ \A k \in 1 .. m : at[k] = Execute(at[k - 1], cmds[k])
Run(c, cmds, m, at) == at \in [0 .. m -> Chips] /\ RunSteps(c, cmds, m, at)

LEMMA RunLonger ==
    ASSUME NEW c \in Chips, NEW cmds \in Seq(Commands), NEW m \in Nat, m < Len(cmds),
           NEW at, Run(c, cmds, m, at)
    PROVE  \E longer : Run(c, cmds, m + 1, longer)
<1> DEFINE next == Execute(at[m], cmds[m + 1])
           longer == [k \in 0 .. m + 1 |-> IF k = m + 1 THEN next ELSE at[k]]
<1>1. at \in [0 .. m -> Chips] /\ at[0] = c /\ \A k \in 1 .. m : at[k] = Execute(at[k - 1], cmds[k])
  BY DEF Run, RunSteps
<1>2. cmds[m + 1] \in Commands /\ at[m] \in Chips BY <1>1
<1>3. next \in Chips BY <1>2, ExecuteType
<1> HIDE DEF next
<1>4. longer \in [0 .. m + 1 -> Chips] /\ longer[0] = c BY <1>1, <1>3
<1>5. ASSUME NEW k \in 1 .. m + 1 PROVE longer[k] = Execute(longer[k - 1], cmds[k])
  <2>1. CASE k = m + 1
    <3>1. longer[k] = next /\ longer[k - 1] = at[m] BY <2>1
    <3> QED BY <2>1, <3>1 DEF next
  <2>2. CASE k # m + 1
    <3>1. k \in 1 .. m /\ longer[k] = at[k] /\ longer[k - 1] = at[k - 1] BY <2>2
    <3> QED BY <1>1, <3>1
  <2> QED BY <2>1, <2>2
<1> HIDE DEF longer
<1>6. Run(c, cmds, m + 1, longer) BY <1>4, <1>5 DEF Run, RunSteps
<1> QED BY <1>6

LEMMA RunExists ==
    ASSUME NEW c \in Chips, NEW cmds \in Seq(Commands), NEW m \in 0 .. Len(cmds)
    PROVE  \E at : Run(c, cmds, m, at)
<1> DEFINE without == {j \in 0 .. Len(cmds) : ~\E at : Run(c, cmds, j, at)}
<1> SUFFICES ASSUME without # {} PROVE FALSE
  OBVIOUS
<1>1. without \in SUBSET Nat OBVIOUS
<1>2. PICK j \in without : \A i \in without : j <= i BY <1>1, FirstPlace
<1>3. j # 0
  <2>1. Run(c, cmds, 0, [k \in 0 .. 0 |-> c]) BY DEF Run, RunSteps
  <2> QED BY <1>2, <2>1
<1>4. j \in 1 .. Len(cmds) /\ j - 1 \in 0 .. Len(cmds) /\ ~(j <= j - 1) BY <1>3
<1>5. j - 1 \notin without BY <1>2, <1>4
<1>6. PICK at : Run(c, cmds, j - 1, at) BY <1>4, <1>5
<1>7. j - 1 \in Nat /\ j - 1 < Len(cmds) /\ (j - 1) + 1 = j BY <1>4
<1>8. \E longer : Run(c, cmds, (j - 1) + 1, longer) BY <1>6, <1>7, RunLonger
<1> QED BY <1>2, <1>7, <1>8

LEMMA RunUnique ==
    ASSUME NEW c, NEW v, NEW w, NEW m \in Nat, NEW at, RunSteps(c, v, m, at), NEW n \in Nat, n <= m,
           NEW bt, RunSteps(c, w, n, bt), Alike(v, w, n)
    PROVE  \A k \in 0 .. n : at[k] = bt[k]
<1> DEFINE parted == {k \in 0 .. n : at[k] # bt[k]}
<1> SUFFICES ASSUME parted # {} PROVE FALSE
  OBVIOUS
<1>1. parted \in SUBSET Nat OBVIOUS
<1>2. PICK j \in parted : \A i \in parted : j <= i BY <1>1, FirstPlace
<1>3. j # 0 BY <1>2 DEF RunSteps
<1>4. j \in 1 .. n /\ j \in 1 .. m /\ j - 1 \in 0 .. n /\ ~(j <= j - 1) BY <1>3
<1>5. at[j - 1] = bt[j - 1] BY <1>2, <1>4
<1>6. at[j] = Execute(at[j - 1], v[j]) /\ bt[j] = Execute(bt[j - 1], w[j]) BY <1>4 DEF RunSteps
<1>7. at[j] = bt[j] BY <1>4, <1>5, <1>6 DEF Alike
<1> QED BY <1>2, <1>7

\* A sequence of commands leaves one chip: the end of the run.
LEMMA ExecutedIsRun ==
    ASSUME NEW c \in Chips, NEW cmds \in Seq(Commands)
    PROVE  \E at : Run(c, cmds, Len(cmds), at) /\ Executed(c, cmds) = {at[Len(cmds)]}
<1> DEFINE Def(g) == [k \in 0 .. Len(cmds) |-> IF k = 0 THEN {c} ELSE {Execute(d, cmds[k]) : d \in g[k - 1]}]
           f == CHOOSE g : g = Def(g)
<1>1. PICK top \in Nat : top = Len(cmds) OBVIOUS
<1>2. PICK at : Run(c, cmds, top, at)
  <2>1. top \in 0 .. Len(cmds) BY <1>1
  <2> QED BY <2>1, RunExists
<1> DEFINE ones == [k \in 0 .. Len(cmds) |-> {at[k]}]
<1>3. ones = Def(ones)
  <2>1. ASSUME NEW k \in 0 .. Len(cmds) PROVE ones[k] = Def(ones)[k]
    <3>1. CASE k = 0 BY <1>2, <3>1 DEF Run, RunSteps
    <3>2. CASE k # 0
      <4>1. k \in 1 .. top /\ k - 1 \in 0 .. Len(cmds) BY <1>1, <3>2
      <4>2. at[k] = Execute(at[k - 1], cmds[k]) BY <1>2, <4>1 DEF Run, RunSteps
      <4>3. ones[k - 1] = {at[k - 1]} BY <4>1
      <4> HIDE DEF ones
      <4>4. Def(ones)[k] = {Execute(d, cmds[k]) : d \in ones[k - 1]} BY <3>2
      <4>5. Def(ones)[k] = {at[k]} BY <4>2, <4>3, <4>4
      <4> QED BY <4>5 DEF ones
    <3> QED BY <3>1, <3>2
  <2> QED BY <2>1
<1>4. f = Def(f) BY <1>3
<1>5. Executed(c, cmds) = f[Len(cmds)] BY DEF Executed
<1> HIDE DEF f, ones
<1> DEFINE parted == {k \in 0 .. top : f[k] # {at[k]}}
<1>6. parted = {}
  <2> SUFFICES ASSUME parted # {} PROVE FALSE
    OBVIOUS
  <2>1. parted \in SUBSET Nat OBVIOUS
  <2>2. PICK j \in parted : \A i \in parted : j <= i BY <2>1, FirstPlace
  <2>3. j \in 0 .. Len(cmds) /\ f[j] = Def(f)[j] BY <1>1, <1>4, <2>2
  <2>4. j # 0 BY <1>2, <2>2, <2>3 DEF Run, RunSteps
  <2>5. j \in 1 .. top /\ j - 1 \in 0 .. top /\ ~(j <= j - 1) BY <2>4
  <2>6. f[j - 1] = {at[j - 1]} BY <2>2, <2>5
  <2>7. f[j] = {Execute(d, cmds[j]) : d \in f[j - 1]} BY <2>3, <2>4
  <2>8. at[j] = Execute(at[j - 1], cmds[j]) BY <1>2, <2>5 DEF Run, RunSteps
  <2> QED BY <2>2, <2>6, <2>7, <2>8
<1>7. top \in 0 .. top OBVIOUS
<1>8. f[top] = {at[top]} BY <1>6, <1>7
<1> QED BY <1>1, <1>2, <1>5, <1>8

\* One command more, one step more.
LEMMA ExecutedStep ==
    ASSUME NEW c \in Chips, NEW cmds \in Seq(Commands), NEW cmd \in Commands
    PROVE  \E d \in Chips : Executed(c, cmds) = {d} /\ Executed(c, cmds \o <<cmd>>) = {Execute(d, cmd)}
<1> DEFINE more == cmds \o <<cmd>>
<1>1. PICK n \in Nat : n = Len(cmds) OBVIOUS
<1>2. more \in Seq(Commands) /\ Len(more) = n + 1 /\ more[n + 1] = cmd /\ Alike(more, cmds, n)
  BY <1>1 DEF Alike
<1> HIDE DEF more
<1>3. PICK at : Run(c, cmds, n, at) /\ Executed(c, cmds) = {at[n]} BY <1>1, ExecutedIsRun
<1>4. PICK bt : Run(c, more, n + 1, bt) /\ Executed(c, more) = {bt[n + 1]} BY <1>2, ExecutedIsRun
<1>5. RunSteps(c, more, n + 1, bt) /\ RunSteps(c, cmds, n, at) BY <1>3, <1>4 DEF Run
<1>6. n + 1 \in Nat /\ n <= n + 1 /\ n \in 0 .. n /\ n + 1 \in 1 .. n + 1 /\ (n + 1) - 1 = n OBVIOUS
<1>7. \A k \in 0 .. n : bt[k] = at[k] BY <1>2, <1>5, <1>6, RunUnique
<1>8. bt[n + 1] = Execute(at[n], cmd) BY <1>2, <1>5, <1>6, <1>7 DEF RunSteps
<1>9. at[n] \in Chips BY <1>3, <1>6 DEF Run
<1> QED BY <1>3, <1>4, <1>8, <1>9 DEF more

\* Whatever part of the commands is executed, a chip remains.
LEMMA ExecutedType ==
    ASSUME NEW c \in Chips, NEW cmds \in Seq(Commands)
    PROVE  Executed(c, cmds) \subseteq Chips
<1>1. PICK n \in Nat : n = Len(cmds) OBVIOUS
<1>2. PICK at : Run(c, cmds, n, at) /\ Executed(c, cmds) = {at[n]} BY <1>1, ExecutedIsRun
<1>3. at[n] \in Chips BY <1>2 DEF Run
<1> QED BY <1>2, <1>3

-----------------------------------------------------------------------------
(* The operations of the buffer keep buffer and chip what they are. *)

\* What an operation may come to.  Only a transfer that may still fail fails.
OutcomeOk(o) ==
    /\ o.err \in Errors /\ o.b \in Buffers /\ o.c \in Chips
    /\ o.err = "usb" => failures < MaxFailures

LEMMA OutcomeFields ==
    ASSUME NEW err, NEW b, NEW c, NEW t
    PROVE  /\ Outcome(err, b, c, t).err = err /\ Outcome(err, b, c, t).b = b
           /\ Outcome(err, b, c, t).c = c /\ Outcome(err, b, c, t).t = t
BY DEF Outcome

LEMMA OutcomeIsOk ==
    ASSUME NEW err \in Errors, NEW b \in Buffers, NEW c \in Chips, NEW t, err = "usb" => failures < MaxFailures
    PROVE  OutcomeOk(Outcome(err, b, c, t))
BY OutcomeFields DEF OutcomeOk

LEMMA ClearType ==
    ASSUME NEW b \in Buffers
    PROVE  Cleared(b) \in Buffers /\ Answered(b) \in Buffers
<1>1. <<>> \in Seq(Commands) /\ <<>> \in Seq(Observers) OBVIOUS
<1>2. 0 \in 0 .. max_tx_buffer_bytes /\ 0 \in 0 .. max_rx_buffer_bytes BY Sizes
<1>3. PICK d \in Buffers : d = [b EXCEPT !.tx = <<>>] BY <1>1, Zenon DEF Buffers
<1>4. [d EXCEPT !.tx_num = 0] \in Buffers BY <1>2, Zenon DEF Buffers
<1>5. PICK f \in Buffers : f = [b EXCEPT !.rx_num = 0] BY <1>2, Zenon DEF Buffers
<1>6. [f EXCEPT !.observers = <<>>] \in Buffers BY <1>1, Zenon DEF Buffers
<1> QED BY <1>3, <1>4, <1>5, <1>6 DEF Answered, Cleared

LEMMA TakeType ==
    ASSUME NEW c \in Chips, NEW k \in Nat
    PROVE  Take(c, k) \in Chips
<1>1. PICK q \in Seq(Octets) : q = c.queue BY DEF Chips
<1>2. SubSeq(q, k + 1, Len(q)) \in Seq(Octets) BY <1>1
<1> QED BY <1>1, <1>2 DEF Chips, Take

LEMMA LateType ==
    ASSUME NEW b \in Buffers, NEW sent \in Chips, NEW t, NEW err \in Errors, err = "usb" => failures < MaxFailures,
           NEW o \in Late(b, sent, t, err)
    PROVE  OutcomeOk(o)
<1>0. Len(sent.queue) \in Nat BY DEF Chips
<1>1. PICK k \in Nat : o = Outcome(err, Cleared(b), Take(sent, k), t) BY <1>0 DEF Late
<1>2. Cleared(b) \in Buffers /\ Take(sent, k) \in Chips BY ClearType, TakeType
<1> QED BY <1>1, <1>2, OutcomeIsOk

LEMMA ReadType ==
    ASSUME NEW b \in Buffers, NEW sent \in Chips, NEW t, NEW o \in ReadAnswers(b, sent, t)
    PROVE  OutcomeOk(o)
<1> DEFINE copied == RunObservers(b.observers, SubSeq(sent.queue, 1, b.rx_num), t)
<1>1. \/ o = Outcome("ok", Cleared(b), sent, t)
      \/ o \in Late(b, sent, t, "timeout")
      \/ o = Outcome("ok", Answered(Cleared(b)), Take(sent, b.rx_num), copied)
      \/ failures < MaxFailures /\ o \in Late(b, sent, t, "usb")
  BY DEF ReadAnswers
<1> HIDE DEF copied
<1>2. b.rx_num \in Nat BY Sizes DEF Buffers
<1>3. Cleared(b) \in Buffers /\ Answered(Cleared(b)) \in Buffers /\ Take(sent, b.rx_num) \in Chips
  BY <1>2, ClearType, TakeType
<1>4. CASE o = Outcome("ok", Cleared(b), sent, t) BY <1>3, <1>4, OutcomeIsOk DEF Errors
<1>5. CASE o = Outcome("ok", Answered(Cleared(b)), Take(sent, b.rx_num), copied)
  BY <1>3, <1>5, OutcomeIsOk DEF Errors
<1>6. CASE o \in Late(b, sent, t, "timeout") BY <1>6, LateType DEF Errors
<1>7. CASE failures < MaxFailures /\ o \in Late(b, sent, t, "usb") BY <1>7, LateType DEF Errors
<1> QED BY <1>1, <1>4, <1>5, <1>6, <1>7

LEMMA HalfSentType ==
    ASSUME NEW b \in Buffers, NEW c \in Chips
    PROVE  HalfSent(b, c) \subseteq Chips
<1>1. ASSUME NEW k \in 0 .. Len(b.tx) PROVE Executed(c, SubSeq(b.tx, 1, k)) \subseteq Chips
  <2>1. b.tx \in Seq(Commands) BY DEF Buffers
  <2>2. SubSeq(b.tx, 1, k) \in Seq(Commands) BY <2>1
  <2> QED BY <2>2, ExecutedType
<1>2. [c EXCEPT !.expects = -1] \in Chips BY ChipExpects
<1> QED BY <1>1, <1>2 DEF HalfSent

\* What a flush may come to.
LEMMA FlushCases ==
    ASSUME NEW b, NEW c, NEW t, NEW o \in mpsse_buffer_flush(b, c, t)
    PROVE  \/ \E sent \in Executed(c, b.tx) : o \in ReadAnswers(b, sent, t)
           \/ failures < MaxFailures /\ \E p \in HalfSent(b, c) : o = Outcome("usb", b, p, t)
BY DEF mpsse_buffer_flush

LEMMA FlushType ==
    ASSUME NEW b \in Buffers, NEW c \in Chips, NEW t, NEW o \in mpsse_buffer_flush(b, c, t)
    PROVE  OutcomeOk(o)
<1>1. b.tx \in Seq(Commands) BY DEF Buffers
<1>2. CASE \E sent \in Executed(c, b.tx) : o \in ReadAnswers(b, sent, t)
  BY <1>1, <1>2, ExecutedType, ReadType
<1>3. CASE failures < MaxFailures /\ \E p \in HalfSent(b, c) : o = Outcome("usb", b, p, t)
  BY <1>3, HalfSentType, OutcomeIsOk DEF Errors
<1> QED BY <1>2, <1>3, FlushCases

LEMMA PoolType ==
    ASSUME NEW b \in Buffers, NEW c \in Chips, NEW t, NEW o \in pool_alloc(b, c, t)
    PROVE  /\ OutcomeOk(o) /\ o.err \in {"ok", "pool"} /\ o.c = c /\ o.t = t
           /\ o.b.tx = b.tx /\ o.b.tx_num = b.tx_num /\ o.b.rx_num = b.rx_num /\ o.b.observers = b.observers
<1>1. CASE b.pool < PoolSize
  <2> DEFINE d == [b EXCEPT !.pool = @ + 1]
  <2>1. o = Outcome("ok", d, c, t) BY <1>1 DEF pool_alloc
  <2>2. b.pool + 1 \in 0 .. PoolSize BY <1>1, Sizes DEF Buffers
  <2>3. d \in Buffers BY <2>2 DEF Buffers
  <2>4. d.tx = b.tx /\ d.tx_num = b.tx_num /\ d.rx_num = b.rx_num /\ d.observers = b.observers BY DEF Buffers
  <2> HIDE DEF d
  <2>5. OutcomeOk(o) BY <2>1, <2>3, OutcomeIsOk DEF Errors
  <2> QED BY <2>1, <2>4, <2>5, OutcomeFields
<1>2. CASE ~(b.pool < PoolSize)
  <2>1. o = Outcome("pool", b, c, t) BY <1>2 DEF pool_alloc
  <2>2. OutcomeOk(o) BY <2>1, OutcomeIsOk DEF Errors
  <2> QED BY <2>1, <2>2, OutcomeFields
<1> QED BY <1>1, <1>2

\* An append that had to make room, or had not.
Room(b, c, t, size, rx_bytes) ==
    IF MustFlush(b, size, rx_bytes) THEN mpsse_buffer_flush(b, c, t) ELSE {Outcome("ok", b, c, t)}

\* What an append may come to, after q.
AppendEnd(q, o, cmds, size, observers, rx_bytes) ==
    \/ q.err # "ok" /\ o = q
    \/ /\ q.err = "ok" /\ q.b.tx_num + size > max_tx_buffer_bytes
       /\ o = Outcome("full", q.b, q.c, q.t)
    \/ /\ q.err = "ok" /\ ~(q.b.tx_num + size > max_tx_buffer_bytes)
       /\ q.b.rx_num + rx_bytes > max_rx_buffer_bytes
       /\ o = Outcome("full", Written(q.b, cmds, size), q.c, q.t)
    \/ /\ q.err = "ok" /\ ~(q.b.tx_num + size > max_tx_buffer_bytes)
       /\ ~(q.b.rx_num + rx_bytes > max_rx_buffer_bytes)
       /\ \/ rx_bytes = 0 /\ o = Outcome("ok", Written(q.b, cmds, size), q.c, q.t)
          \/ /\ rx_bytes # 0
             /\ \E p \in pool_alloc(Written(q.b, cmds, size), q.c, q.t) :
                  \/ p.err # "ok" /\ o = p
                  \/ p.err = "ok" /\ o = Outcome("ok", Noted(p.b, observers, rx_bytes), p.c, p.t)

LEMMA AppendCases ==
    ASSUME NEW b, NEW c, NEW t, NEW cmds, NEW size, NEW observers, NEW rx_bytes,
           NEW o \in mpsse_buffer_append(b, c, t, cmds, size, observers, rx_bytes)
    PROVE  \E q \in Room(b, c, t, size, rx_bytes) : AppendEnd(q, o, cmds, size, observers, rx_bytes)
BY DEF mpsse_buffer_append, Then, Room, AppendEnd

LEMMA RoomType ==
    ASSUME NEW b \in Buffers, NEW c \in Chips, NEW t, NEW size, NEW rx_bytes, NEW q \in Room(b, c, t, size, rx_bytes)
    PROVE  OutcomeOk(q)
<1>1. CASE q \in mpsse_buffer_flush(b, c, t) BY <1>1, FlushType
<1>2. CASE q = Outcome("ok", b, c, t) BY <1>2, OutcomeIsOk DEF Errors
<1> QED BY <1>1, <1>2 DEF Room

LEMMA WrittenType ==
    ASSUME NEW b \in Buffers, NEW cmds \in Seq(Commands), NEW size \in Nat, b.tx_num + size <= max_tx_buffer_bytes
    PROVE  /\ Written(b, cmds, size) \in Buffers
           /\ Written(b, cmds, size).tx = b.tx \o cmds /\ Written(b, cmds, size).tx_num = b.tx_num + size
           /\ Written(b, cmds, size).rx_num = b.rx_num /\ Written(b, cmds, size).observers = b.observers
<1>1. b.tx \o cmds \in Seq(Commands) BY DEF Buffers
<1>2. b.tx_num + size \in 0 .. max_tx_buffer_bytes BY Sizes DEF Buffers
<1>3. PICK d \in Buffers : d = [b EXCEPT !.tx = b.tx \o cmds] BY <1>1, Zenon DEF Buffers
<1>4. [d EXCEPT !.tx_num = b.tx_num + size] \in Buffers BY <1>2, Zenon DEF Buffers
<1>5. Written(b, cmds, size) = [d EXCEPT !.tx_num = b.tx_num + size] BY <1>3 DEF Written, Buffers
<1> QED BY <1>3, <1>4, <1>5 DEF Buffers

LEMMA NotedType ==
    ASSUME NEW b \in Buffers, NEW observers \in Seq(Observers), NEW rx_bytes \in Nat,
           b.rx_num + rx_bytes <= max_rx_buffer_bytes
    PROVE  /\ Noted(b, observers, rx_bytes) \in Buffers
           /\ Noted(b, observers, rx_bytes).tx = b.tx /\ Noted(b, observers, rx_bytes).tx_num = b.tx_num
           /\ Noted(b, observers, rx_bytes).rx_num = b.rx_num + rx_bytes
<1> DEFINE notes == [k \in DOMAIN observers |-> Note(b, observers[k])]
<1>1. b.rx_num + rx_bytes \in 0 .. max_rx_buffer_bytes BY Sizes DEF Buffers
<1>2. ASSUME NEW k \in DOMAIN observers PROVE Note(b, observers[k]) \in Observers
  <2>1. PICK ob \in Observers : ob = observers[k] OBVIOUS
  <2>2. PICK from \in Int : from = ob.from + 8 * b.rx_num
    <3>1. ob.from \in Int /\ b.rx_num \in Int BY Sizes DEF Buffers, Observers
    <3> QED BY <3>1
  <2>3. Note(b, ob) = [ob EXCEPT !.from = from] BY <2>2 DEF Note
  <2>4. [ob EXCEPT !.from = from] \in Observers BY DEF Observers
  <2> QED BY <2>1, <2>3, <2>4
<1>3. notes \in Seq(Observers)
  <2>1. PICK n \in Nat : DOMAIN observers = 1 .. n OBVIOUS
  <2> DEFINE note(k) == Note(b, observers[k])
  <2>2. \A k \in 1 .. n : note(k) \in Observers BY <1>2, <2>1
  <2>3. notes = [k \in 1 .. n |-> note(k)] BY <2>1
  <2> HIDE DEF note, notes
  <2>4. [k \in 1 .. n |-> note(k)] \in Seq(Observers) BY <2>2
  <2> QED BY <2>3, <2>4
<1> HIDE DEF notes
<1>4. b.observers \o notes \in Seq(Observers) BY <1>3 DEF Buffers
<1>5. PICK d \in Buffers : d = [b EXCEPT !.rx_num = b.rx_num + rx_bytes] BY <1>1, Zenon DEF Buffers
<1>6. [d EXCEPT !.observers = b.observers \o notes] \in Buffers BY <1>4, Zenon DEF Buffers
<1>7. Noted(b, observers, rx_bytes) = [d EXCEPT !.observers = b.observers \o notes]
  BY <1>5 DEF Noted, Buffers, notes
<1> QED BY <1>5, <1>6, <1>7 DEF Buffers

LEMMA AppendType ==
    ASSUME NEW b \in Buffers, NEW c \in Chips, NEW t, NEW cmds \in Seq(Commands), NEW size \in Nat,
           NEW observers \in Seq(Observers), NEW rx_bytes \in Nat,
           NEW o \in mpsse_buffer_append(b, c, t, cmds, size, observers, rx_bytes)
    PROVE  OutcomeOk(o)
<1>1. PICK q \in Room(b, c, t, size, rx_bytes) : AppendEnd(q, o, cmds, size, observers, rx_bytes)
  BY AppendCases
<1>2. OutcomeOk(q) /\ q.b \in Buffers /\ q.c \in Chips BY RoomType DEF OutcomeOk
<1> DEFINE w == Written(q.b, cmds, size)
<1>3. ASSUME ~(q.b.tx_num + size > max_tx_buffer_bytes) PROVE w \in Buffers /\ w.rx_num = q.b.rx_num
  <2>1. PICK tx \in Nat, max \in Nat : tx = q.b.tx_num /\ max = max_tx_buffer_bytes BY <1>2, Counts, Sizes
  <2>2. tx + size <= max BY <1>3, <2>1
  <2> QED BY <1>2, <2>1, <2>2, WrittenType
<1>4. CASE q.err # "ok" /\ o = q BY <1>2, <1>4
<1>5. CASE o = Outcome("full", q.b, q.c, q.t) BY <1>2, <1>5, OutcomeIsOk DEF Errors
<1>6. CASE ~(q.b.tx_num + size > max_tx_buffer_bytes) /\ o \in {Outcome("full", w, q.c, q.t), Outcome("ok", w, q.c, q.t)}
  BY <1>2, <1>3, <1>6, OutcomeIsOk DEF Errors
<1>7. CASE /\ ~(q.b.tx_num + size > max_tx_buffer_bytes) /\ ~(q.b.rx_num + rx_bytes > max_rx_buffer_bytes)
           /\ \E p \in pool_alloc(w, q.c, q.t) :
                \/ p.err # "ok" /\ o = p
                \/ p.err = "ok" /\ o = Outcome("ok", Noted(p.b, observers, rx_bytes), p.c, p.t)
  <2>1. PICK p \in pool_alloc(w, q.c, q.t) :
                \/ p.err # "ok" /\ o = p
                \/ p.err = "ok" /\ o = Outcome("ok", Noted(p.b, observers, rx_bytes), p.c, p.t)
    BY <1>7
  <2>2. OutcomeOk(p) /\ p.b \in Buffers /\ p.c \in Chips /\ p.b.rx_num = w.rx_num
    BY <1>2, <1>3, <1>7, PoolType DEF OutcomeOk
  <2>3. p.b.rx_num + rx_bytes <= max_rx_buffer_bytes
    <3>1. PICK rx \in Nat, max \in Nat : rx = q.b.rx_num /\ max = max_rx_buffer_bytes BY <1>2, Counts, Sizes
    <3>2. ~(rx + rx_bytes > max) /\ p.b.rx_num = rx BY <1>3, <1>7, <2>2, <3>1
    <3>3. rx + rx_bytes <= max BY <3>2
    <3> QED BY <3>1, <3>2, <3>3
  <2>4. Noted(p.b, observers, rx_bytes) \in Buffers BY <2>2, <2>3, NotedType
  <2> QED BY <2>1, <2>2, <2>4, OutcomeIsOk DEF Errors
<1> QED BY <1>1, <1>4, <1>5, <1>6, <1>7 DEF AppendEnd

LEMMA EnsureType ==
    ASSUME NEW b \in Buffers, NEW c \in Chips, NEW t, NEW tx_bytes, NEW rx_bytes,
           NEW o \in mpsse_buffer_ensure_can_append(b, c, t, tx_bytes, rx_bytes)
    PROVE  OutcomeOk(o)
<1>1. CASE o \in mpsse_buffer_flush(b, c, t) BY <1>1, FlushType
<1>2. CASE o = Outcome("ok", b, c, t) BY <1>2, OutcomeIsOk DEF Errors
<1> QED BY <1>1, <1>2 DEF mpsse_buffer_ensure_can_append

\* What a write with a readback may come to.
LEMMA ReadbackCases ==
    ASSUME NEW b, NEW c, NEW t, NEW cmds, NEW size, NEW observer, NEW rx_bytes,
           NEW o \in mpsse_buffer_add_write_with_readback(b, c, t, cmds, size, observer, rx_bytes)
    PROVE  \E q \in mpsse_buffer_ensure_can_append(b, c, t, size, rx_bytes) :
             \/ q.err # "ok" /\ o = q
             \/ q.err = "ok" /\ o \in mpsse_buffer_append(q.b, q.c, q.t, cmds, size, <<observer>>, rx_bytes)
BY DEF mpsse_buffer_add_write_with_readback, Then

LEMMA ReadbackType ==
    ASSUME NEW b \in Buffers, NEW c \in Chips, NEW t, NEW cmds \in Seq(Commands), NEW size \in Nat,
           NEW observer \in Observers, NEW rx_bytes \in Nat,
           NEW o \in mpsse_buffer_add_write_with_readback(b, c, t, cmds, size, observer, rx_bytes)
    PROVE  OutcomeOk(o)
<1>1. PICK q \in mpsse_buffer_ensure_can_append(b, c, t, size, rx_bytes) :
             \/ q.err # "ok" /\ o = q
             \/ q.err = "ok" /\ o \in mpsse_buffer_append(q.b, q.c, q.t, cmds, size, <<observer>>, rx_bytes)
  BY ReadbackCases
<1>2. OutcomeOk(q) /\ q.b \in Buffers /\ q.c \in Chips BY EnsureType DEF OutcomeOk
<1>3. <<observer>> \in Seq(Observers) OBVIOUS
<1> QED BY <1>1, <1>2, <1>3, AppendType

\* What adding a command of up to eight bits may come to.
LEMMA AddBitsCases ==
    ASSUME NEW cmd, NEW copier, NEW o \in AddBits(cmd, copier)
    PROVE  \E q \in pool_alloc(buffer, chip, tdo) :
             \/ q.err # "ok" /\ o = q
             \/ q.err = "ok" /\ o \in mpsse_buffer_add_write_with_readback(q.b, q.c, q.t, <<cmd>>, 3, copier, 1)
BY DEF AddBits, Then

LEMMA AddBitsType ==
    ASSUME buffer \in Buffers, chip \in Chips, NEW cmd \in Commands, NEW copier \in Observers, NEW o \in AddBits(cmd, copier)
    PROVE  OutcomeOk(o)
<1>1. PICK q \in pool_alloc(buffer, chip, tdo) :
             \/ q.err # "ok" /\ o = q
             \/ q.err = "ok" /\ o \in mpsse_buffer_add_write_with_readback(q.b, q.c, q.t, <<cmd>>, 3, copier, 1)
  BY AddBitsCases
<1>2. OutcomeOk(q) /\ q.b \in Buffers /\ q.c \in Chips BY PoolType DEF OutcomeOk
<1>3. <<cmd>> \in Seq(Commands) /\ 3 \in Nat /\ 1 \in Nat OBVIOUS
<1> QED BY <1>1, <1>2, <1>3, ReadbackType

-----------------------------------------------------------------------------
(* The type invariant. *)

\* Beyond TypeOK: the commands buffered are ones the chip knows, and the run being
\* appended is not empty.
IType ==
    /\ buffer \in Buffers /\ chip \in Chips /\ state \in JtagStates
    /\ tms \in Seq({0, 1}) /\ cur \in Nat /\ seg \in Segments
    /\ pc \in {"idle", "next", "tms", "leading", "whole", "trailing", "last", "done"}
    /\ result \in Errors /\ failures \in 0 .. MaxFailures
    /\ pc = "tms" => cur < seg.to /\ seg.to <= Len(tms)
    /\ pc \in {"leading", "whole", "trailing", "last"} => seg.from < seg.to

LEMMA CommandType ==
    ASSUME NEW kind \in Kinds, NEW tdi \in Seq(Int), NEW bits \in Seq({0, 1}), NEW octets \in Nat,
           kind = "tms" => bits # <<>>,
           kind \in {"last", "bits", "data"} => Len(tdi) > 0 /\ (bits = <<>> \/ Len(bits) = Len(tdi))
    PROVE  Command(kind, tdi, bits, octets) \in Commands
<1>1. PICK cmd \in [kind : Kinds, tdi : Seq(Int), tms : Seq({0, 1}), octets : Nat] :
        cmd = Command(kind, tdi, bits, octets)
  BY Zenon DEF Command
<1>2. cmd.kind = kind /\ cmd.tdi = tdi /\ cmd.tms = bits BY <1>1 DEF Command
<1> QED BY <1>1, <1>2 DEF Commands

LEMMA PositionsType ==
    ASSUME NEW from \in Int, NEW n \in Nat
    PROVE  Positions(from, n) \in Seq(Int) /\ Len(Positions(from, n)) = n
BY DEF Positions

LEMMA CopierType ==
    ASSUME NEW from \in Int, NEW to \in Int, NEW num \in Int
    PROVE  Copier(from, to, num) \in Observers
BY DEF Copier, Observers

LEMMA ChipBetween ==
    ASSUME NEW c \in Chips
    PROVE  Recount(c) \in Chips /\ Reopened(c) \in Chips
<1>1. ASSUME NEW d \in Chips PROVE Recount(d) \in Chips
  <2>1. PICK c1 \in Chips : c1 = [d EXCEPT !.clocks = 0] BY 0 \in Nat, ChipCounts
  <2>2. PICK c2 \in Chips : c2 = [c1 EXCEPT !.agreed = FALSE] BY ChipAgrees
  <2>3. PICK c3 \in Chips : c3 = [c2 EXCEPT !.began = d.tap] BY DEF Chips
  <2>4. PICK c4 \in Chips : c4 = [c3 EXCEPT !.ordered = TRUE] BY DEF Chips
  <2>5. PICK c5 \in Chips : c5 = [c4 EXCEPT !.shifted = {}] BY DEF Chips
  <2> QED BY <2>1, <2>2, <2>3, <2>4, <2>5 DEF Recount
<1>2. PICK c1 \in Chips : c1 = [c EXCEPT !.pin = 1] BY DEF Chips
<1>3. PICK c2 \in Chips : c2 = [c1 EXCEPT !.expects = 0] BY 0 \in Int, ChipExpects
<1>4. PICK c3 \in Chips : c3 = [c2 EXCEPT !.queue = <<>>] BY <<>> \in Seq(Octets), ChipPurged
<1>5. Recount(c3) \in Chips BY <1>1
<1> QED BY <1>1, <1>2, <1>3, <1>4, <1>5 DEF Reopened

\* A step that performs an operation.
LEMMA PerformType ==
    ASSUME IType, NEW outcomes, \A o \in outcomes : OutcomeOk(o), NEW next \in Nat,
           NEW next_pc \in {"next", "tms", "leading", "whole", "trailing", "last"}, Perform(outcomes, next, next_pc),
           next_pc = "tms" => next < seg.to /\ seg.to <= Len(tms),
           next_pc \in {"leading", "whole", "trailing", "last"} => seg.from < seg.to
    PROVE  IType'
<1>1. PICK o \in outcomes :
        /\ buffer' = o.b /\ chip' = o.c /\ tdo' = o.t
        /\ \/ o.err # "ok" /\ Fail(o)
           \/ o.err = "ok" /\ cur' = next /\ pc' = next_pc /\ UNCHANGED <<state, tms, seg, result, failures>>
  BY DEF Perform
<1>2. OutcomeOk(o) OBVIOUS
<1>3. buffer' \in Buffers /\ chip' \in Chips BY <1>1, <1>2 DEF OutcomeOk
<1>4. CASE o.err # "ok" /\ Fail(o)
  <2>1. failures' \in 0 .. MaxFailures BY <1>2, <1>4, Sizes DEF Fail, OutcomeOk, IType
  <2> QED BY <1>2, <1>3, <1>4, <2>1 DEF Fail, OutcomeOk, IType
<1>5. CASE o.err = "ok" /\ cur' = next /\ pc' = next_pc /\ UNCHANGED <<state, tms, seg, result, failures>>
  BY <1>3, <1>5 DEF IType
<1> QED BY <1>1, <1>4, <1>5

LEMMA SkipType ==
    ASSUME IType, NEW next_pc \in {"next", "leading", "whole", "trailing", "last"}, Skip(next_pc),
           next_pc \in {"leading", "whole", "trailing", "last"} => seg.from < seg.to
    PROVE  IType'
BY DEF IType, Skip

-----------------------------------------------------------------------------
(* Every action keeps the type. *)

LEMMA AppendTmsKeeps == ASSUME IType, append_tms_shift PROVE IType'
<1> DEFINE n == TmsBits(seg, cur)
           cmd == Command("tms", <<>>, SubSeq(tms, cur + 1, cur + n), 0)
<1>1. cur < seg.to /\ seg.to <= Len(tms) /\ cur \in Nat /\ seg.to \in Nat /\ tms \in Seq({0, 1})
  BY DEF IType, append_tms_shift, Segments
<1>2. n \in 1 .. 6 /\ cur + n <= seg.to BY <1>1 DEF TmsBits
<1>3. Perform(mpsse_buffer_append(buffer, chip, tdo, <<cmd>>, 3, <<>>, 0), cur + n,
              IF cur + n = seg.to THEN "next" ELSE "tms")
  BY DEF append_tms_shift
<1> HIDE DEF n
<1>4. SubSeq(tms, cur + 1, cur + n) \in Seq({0, 1}) /\ SubSeq(tms, cur + 1, cur + n) # <<>> BY <1>1, <1>2
<1>5. cmd \in Commands
  <2>1. <<>> \in Seq(Int) /\ 0 \in Nat /\ "tms" \in Kinds BY DEF Kinds
  <2> QED BY <1>4, <2>1, CommandType
<1> HIDE DEF cmd
<1>6. <<cmd>> \in Seq(Commands) /\ 3 \in Nat /\ <<>> \in Seq(Observers) /\ 0 \in Nat BY <1>5
<1>7. \A o \in mpsse_buffer_append(buffer, chip, tdo, <<cmd>>, 3, <<>>, 0) : OutcomeOk(o)
  BY <1>6, AppendType DEF IType
<1>8. cur + n \in Nat BY <1>1, <1>2
<1>9. CASE cur + n = seg.to BY <1>3, <1>7, <1>8, <1>9, PerformType
<1>10. CASE cur + n # seg.to
  <2>1. cur + n < seg.to BY <1>1, <1>2, <1>10
  <2> QED BY <1>1, <1>3, <1>7, <1>8, <1>10, <2>1, PerformType
<1> QED BY <1>9, <1>10

\* The parts of a run in a Shift state.
LEMMA PartsType ==
    ASSUME NEW s \in Segments, s.from < s.to
    PROVE  /\ NumLeading(s) \in 0 .. 7 /\ NumLeading(s) <= s.to - 1 - s.from
           /\ NumTrailing(s) \in 0 .. 7 /\ InnerEnd(s) \in Int /\ InnerBytes(s) \in Int
<1>1. PICK from \in Nat, to \in Nat : from = s.from /\ to = s.to /\ from < to BY DEF Segments
<1>2. NumLeading(s) \in 0 .. 7 /\ NumLeading(s) <= to - 1 - from
  <2>1. PICK odd \in 0 .. 7 : odd = (8 - (s.from % 8)) % 8 BY <1>1
  <2> QED BY <1>1, <2>1 DEF NumLeading
<1>3. (to - 1) % 8 \in 0 .. 7 BY <1>1
<1>4. NumTrailing(s) \in 0 .. 7 /\ InnerEnd(s) \in Int BY <1>1, <1>3 DEF NumTrailing, InnerEnd
<1>5. InnerBytes(s) \in Int BY <1>1, <1>2, <1>4 DEF InnerBytes
<1> QED BY <1>1, <1>2, <1>4, <1>5

\* A step that adds some bits.
LEMMA BitsKeep ==
    ASSUME IType, pc \in {"leading", "trailing", "last"}, NEW kind \in {"bits", "last"}, NEW from \in Int, NEW n \in 1 .. 7,
           NEW bits \in Seq({0, 1}), bits = <<>> \/ Len(bits) = n,
           NEW copier \in Observers, NEW next_pc \in {"whole", "last", "leading", "next"},
           Perform(AddBits(Command(kind, Positions(from, n), bits, 0), copier), cur + n, next_pc)
    PROVE  IType'
<1>1. Positions(from, n) \in Seq(Int) /\ Len(Positions(from, n)) = n
  <2>1. n \in Nat OBVIOUS
  <2> QED BY <2>1, PositionsType
<1>2. Command(kind, Positions(from, n), bits, 0) \in Commands
  <2>1. kind \in Kinds /\ kind # "tms" /\ 0 \in Nat BY DEF Kinds
  <2>2. Len(Positions(from, n)) > 0 BY <1>1
  <2> QED BY <1>1, <2>1, <2>2, CommandType
<1>3. \A o \in AddBits(Command(kind, Positions(from, n), bits, 0), copier) : OutcomeOk(o)
  BY <1>2, AddBitsType DEF IType
<1>4. cur + n \in Nat /\ seg.from < seg.to BY DEF IType
<1> QED BY <1>3, <1>4, PerformType

LEMMA LeadingKeeps == ASSUME IType, Leading PROVE IType'
<1>1. pc = "leading" /\ seg \in Segments /\ seg.from < seg.to BY DEF Leading, IType
<1>2. PICK n \in 0 .. 7 : n = NumLeading(seg) BY <1>1, PartsType
<1>3. CASE cur = seg.from /\ n > 0
  <2>1. Perform(AddBits(Command("bits", Positions(seg.from, n), <<>>, 0), Copier(8 - n, seg.from, n)), cur + n, "whole")
    BY <1>2, <1>3 DEF Leading
  <2>2. seg.from \in Int /\ n \in 1 .. 7 /\ 8 - n \in Int BY <1>1, <1>3 DEF Segments
  <2>3. Copier(8 - n, seg.from, n) \in Observers BY <2>2, CopierType
  <2>4. "bits" \in {"bits", "last"} /\ <<>> \in Seq({0, 1}) OBVIOUS
  <2> QED BY <1>1, <2>1, <2>2, <2>3, <2>4, BitsKeep
<1>4. CASE ~(cur = seg.from /\ n > 0)
  <2>1. Skip("whole") BY <1>2, <1>4 DEF Leading
  <2> QED BY <1>1, <2>1, SkipType
<1> QED BY <1>3, <1>4

LEMMA TrailingKeeps == ASSUME IType, Trailing PROVE IType'
<1>1. pc = "trailing" /\ seg \in Segments /\ seg.from < seg.to BY DEF Trailing, IType
<1>2. PICK n \in 0 .. 7 : n = NumTrailing(seg) BY <1>1, PartsType
<1>3. CASE n > 0 /\ cur < seg.to - 1
  <2>1. Perform(AddBits(Command("bits", Positions(InnerEnd(seg), n), <<>>, 0), Copier(8 - n, InnerEnd(seg), n)), cur + n, "last")
    BY <1>2, <1>3 DEF Trailing
  <2>2. InnerEnd(seg) \in Int /\ n \in 1 .. 7 /\ 8 - n \in Int BY <1>1, <1>3, PartsType
  <2>3. Copier(8 - n, InnerEnd(seg), n) \in Observers BY <2>2, CopierType
  <2>4. "bits" \in {"bits", "last"} /\ <<>> \in Seq({0, 1}) OBVIOUS
  <2> QED BY <1>1, <2>1, <2>2, <2>3, <2>4, BitsKeep
<1>4. CASE ~(n > 0 /\ cur < seg.to - 1)
  <2>1. Skip("last") BY <1>2, <1>4 DEF Trailing
  <2> QED BY <1>1, <2>1, SkipType
<1> QED BY <1>3, <1>4

LEMMA LastKeeps == ASSUME IType, LastBit PROVE IType'
<1> DEFINE after(c) == IF c < seg.to THEN "leading" ELSE "next"
<1>1. pc = "last" /\ seg \in Segments /\ seg.from < seg.to BY DEF LastBit, IType
<1>2. CASE cur = seg.to - 1
  <2>1. Perform(AddBits(Command("last", <<seg.to - 1>>, <<LastTms(seg)>>, 0), Copier(7, seg.to - 1, 1)), cur + 1, after(cur + 1))
    BY <1>2 DEF LastBit
  <2>2. <<seg.to - 1>> = Positions(seg.to - 1, 1) /\ seg.to - 1 \in Int BY <1>1 DEF Positions, Segments
  <2>3. <<LastTms(seg)>> \in Seq({0, 1}) /\ Len(<<LastTms(seg)>>) = 1 BY DEF LastTms
  <2>4. Copier(7, seg.to - 1, 1) \in Observers BY <2>2, CopierType
  <2>5. after(cur + 1) \in {"leading", "next"} OBVIOUS
  <2> HIDE DEF after
  <2>6. Perform(AddBits(Command("last", Positions(seg.to - 1, 1), <<LastTms(seg)>>, 0), Copier(7, seg.to - 1, 1)), cur + 1, after(cur + 1))
    BY <2>1, <2>2
  <2>7. 1 \in 1 .. 7 /\ "last" \in {"bits", "last"} OBVIOUS
  <2> QED BY <1>1, <2>2, <2>3, <2>4, <2>5, <2>6, <2>7, BitsKeep
<1>3. CASE cur # seg.to - 1
  <2>1. Skip(after(cur)) /\ after(cur) \in {"leading", "next"} BY <1>3 DEF LastBit
  <2> HIDE DEF after
  <2> QED BY <1>1, <2>1, SkipType
<1> QED BY <1>2, <1>3

\* A chunk of whole bytes: its size, and what adding its data may come to.
ChunkSize == IF (InnerEnd(seg) - cur) \div 8 < chip_buffer_size
             THEN (InnerEnd(seg) - cur) \div 8 ELSE chip_buffer_size
Bulk == /\ ChunkSize >= InnerBytes(seg) - (cur - (seg.from + NumLeading(seg))) \div 8
        /\ InnerBytes(seg) > 0
ChunkCopier == IF Bulk THEN Copier(0, 8 * ((seg.from + NumLeading(seg)) \div 8), 8 * InnerBytes(seg))
               ELSE Copier(0, 8 * (cur \div 8), 8 * ChunkSize)
ChunkData == Command("data", Positions(8 * (cur \div 8), 8 * ChunkSize), <<>>, ChunkSize)
Header == Command("bytes", <<>>, <<>>, ChunkSize)
AddChunk(o) ==
    IF ChunkSize = 0 THEN mpsse_buffer_ensure_can_append(o.b, o.c, o.t, 0, 0)
    ELSE mpsse_buffer_add_write_with_readback(o.b, o.c, o.t, <<ChunkData>>, ChunkSize, ChunkCopier, ChunkSize)
Chunk == Then(mpsse_buffer_append(buffer, chip, tdo, <<Header>>, 3, <<>>, 0),
              LAMBDA o : IF Bulk THEN AddChunk(o) ELSE Then(pool_alloc(o.b, o.c, o.t), AddChunk))

LEMMA WholeIs ==
    Whole <=> /\ pc = "whole"
              /\ IF cur < seg.to - 1 /\ InnerEnd(seg) > cur
                 THEN Perform(Chunk, cur + 8 * ChunkSize, "trailing")
                 ELSE Skip("trailing")
BY DEF Whole, Chunk, AddChunk, Header, ChunkData, ChunkCopier, Bulk, ChunkSize

LEMMA ChunkCases ==
    ASSUME NEW o \in Chunk
    PROVE  \E q \in mpsse_buffer_append(buffer, chip, tdo, <<Header>>, 3, <<>>, 0) :
             \/ q.err # "ok" /\ o = q
             \/ q.err = "ok" /\ Bulk /\ o \in AddChunk(q)
             \/ /\ q.err = "ok" /\ ~Bulk
                /\ \E p \in pool_alloc(q.b, q.c, q.t) :
                     \/ p.err # "ok" /\ o = p
                     \/ p.err = "ok" /\ o \in AddChunk(p)
BY DEF Chunk, Then

LEMMA ChunkType ==
    ASSUME IType, pc = "whole", cur < seg.to - 1, InnerEnd(seg) > cur
    PROVE  /\ ChunkSize \in Nat /\ Header \in Commands /\ ChunkCopier \in Observers
           /\ ChunkSize # 0 => ChunkData \in Commands
<1>1. seg \in Segments /\ seg.from < seg.to /\ cur \in Nat BY DEF IType
<1>2. PICK lead \in 0 .. 7, end \in Int, bytes \in Int, from \in Nat :
        lead = NumLeading(seg) /\ end = InnerEnd(seg) /\ bytes = InnerBytes(seg) /\ from = seg.from /\ end > cur
  BY <1>1, PartsType DEF Segments
<1>3. ChunkSize \in Nat
  <2>1. PICK m \in Nat : m = (end - cur) \div 8 BY <1>1, <1>2
  <2> QED BY <1>2, <2>1, ScanAssumption DEF ChunkSize
<1>4. Header \in Commands
  <2>1. "bytes" \in Kinds /\ "bytes" \notin {"tms", "last", "bits", "data"} /\ <<>> \in Seq(Int) /\ <<>> \in Seq({0, 1}) BY DEF Kinds
  <2> QED BY <1>3, <2>1, CommandType DEF Header
<1>5. 8 * (cur \div 8) \in Int /\ 8 * ((from + lead) \div 8) \in Int /\ 8 * bytes \in Int BY <1>1, <1>2
<1>6. 8 * ChunkSize \in Nat /\ 0 \in Int BY <1>3
<1>7. ChunkCopier \in Observers BY <1>2, <1>5, <1>6, CopierType DEF ChunkCopier
<1>8. ASSUME ChunkSize # 0 PROVE ChunkData \in Commands
  <2>1. PICK tdi \in Seq(Int) : tdi = Positions(8 * (cur \div 8), 8 * ChunkSize) /\ Len(tdi) = 8 * ChunkSize
    BY <1>5, <1>6, PositionsType
  <2>2. Len(tdi) > 0 BY <1>3, <1>8, <2>1
  <2>3. "data" \in Kinds /\ "data" # "tms" /\ <<>> \in Seq({0, 1}) BY DEF Kinds
  <2> QED BY <1>3, <2>1, <2>2, <2>3, CommandType DEF ChunkData
<1> QED BY <1>3, <1>4, <1>7, <1>8

LEMMA AddChunkType ==
    ASSUME IType, pc = "whole", cur < seg.to - 1, InnerEnd(seg) > cur, NEW q, OutcomeOk(q), NEW o \in AddChunk(q)
    PROVE  OutcomeOk(o)
<1>1. q.b \in Buffers /\ q.c \in Chips BY DEF OutcomeOk
<1>2. CASE ChunkSize = 0
  <2>1. o \in mpsse_buffer_ensure_can_append(q.b, q.c, q.t, 0, 0) BY <1>2 DEF AddChunk
  <2> QED BY <1>1, <2>1, EnsureType
<1>3. CASE ChunkSize # 0
  <2>1. o \in mpsse_buffer_add_write_with_readback(q.b, q.c, q.t, <<ChunkData>>, ChunkSize, ChunkCopier, ChunkSize)
    BY <1>3 DEF AddChunk
  <2>2. ChunkSize \in Nat /\ ChunkCopier \in Observers /\ ChunkData \in Commands BY <1>3, ChunkType
  <2>3. <<ChunkData>> \in Seq(Commands) BY <2>2
  <2> QED BY <1>1, <2>1, <2>2, <2>3, ReadbackType
<1> QED BY <1>2, <1>3

LEMMA WholeKeeps == ASSUME IType, Whole PROVE IType'
<1>1. pc = "whole" /\ seg.from < seg.to BY WholeIs DEF IType
<1>2. CASE cur < seg.to - 1 /\ InnerEnd(seg) > cur
  <2>1. Perform(Chunk, cur + 8 * ChunkSize, "trailing") BY <1>2, WholeIs
  <2>2. ASSUME NEW o \in Chunk PROVE OutcomeOk(o)
    <3>1. PICK q \in mpsse_buffer_append(buffer, chip, tdo, <<Header>>, 3, <<>>, 0) :
             \/ q.err # "ok" /\ o = q
             \/ q.err = "ok" /\ Bulk /\ o \in AddChunk(q)
             \/ /\ q.err = "ok" /\ ~Bulk
                /\ \E p \in pool_alloc(q.b, q.c, q.t) :
                     \/ p.err # "ok" /\ o = p
                     \/ p.err = "ok" /\ o \in AddChunk(p)
      BY ChunkCases
    <3>2. <<Header>> \in Seq(Commands) /\ 3 \in Nat /\ <<>> \in Seq(Observers) /\ 0 \in Nat BY <1>1, <1>2, ChunkType
    <3>3. OutcomeOk(q) BY <3>2, AppendType DEF IType
    <3>4. \A p \in pool_alloc(q.b, q.c, q.t) : OutcomeOk(p) BY <3>3, PoolType DEF OutcomeOk
    <3> QED BY <1>1, <1>2, <3>1, <3>3, <3>4, AddChunkType
  <2>3. cur + 8 * ChunkSize \in Nat BY <1>1, <1>2, ChunkType DEF IType
  <2> QED BY <1>1, <2>1, <2>2, <2>3, PerformType
<1>3. CASE ~(cur < seg.to - 1 /\ InnerEnd(seg) > cur)
  <2>1. Skip("trailing") BY <1>3, WholeIs
  <2> QED BY <1>1, <2>1, SkipType
<1> QED BY <1>2, <1>3

\* The run that NextRun starts.
RunTo(e) == [from |-> cur, to |-> e + 1, shift |-> IsShift(StateAt(e)),
             leave |-> IsShift(StateAt(e)) /\ ~IsShift(StateAt(e + 1))]
RunAlloc(e) == IF IsShift(StateAt(e)) /\ InnerBytes(RunTo(e)) > 0 THEN pool_alloc(buffer, chip, tdo)
               ELSE {Outcome("ok", buffer, chip, tdo)}
RunStarts(e, o) ==
    /\ buffer' = o.b
    /\ \/ o.err # "ok" /\ pc' = "done" /\ result' = o.err /\ UNCHANGED seg
       \/ /\ o.err = "ok" /\ seg' = RunTo(e) /\ UNCHANGED result
          /\ pc' = (IF IsShift(StateAt(e)) THEN "leading" ELSE "tms")

LEMMA NextRunIs ==
    ASSUME NextRun
    PROVE  /\ pc = "next" /\ cur < Len(tms) /\ UNCHANGED <<chip, state, tdo, tms, cur, failures>>
           /\ \E e \in cur .. Len(tms) - 1 :
                /\ Event(e) /\ \A k \in cur .. e - 1 : ~Event(k)
                /\ \E o \in RunAlloc(e) : RunStarts(e, o)
BY DEF NextRun, RunAlloc, RunTo, RunStarts

LEMMA NextRunKeeps == ASSUME IType, NextRun PROVE IType'
<1>1. /\ pc = "next" /\ cur < Len(tms) /\ UNCHANGED <<chip, state, tdo, tms, cur, failures>>
  BY NextRunIs
<1>2. PICK e \in cur .. Len(tms) - 1 : \E o \in RunAlloc(e) : RunStarts(e, o) BY NextRunIs
<1>3. PICK o \in RunAlloc(e) : RunStarts(e, o) BY <1>2
<1>4. OutcomeOk(o)
  <2>1. CASE o \in pool_alloc(buffer, chip, tdo) BY <2>1, PoolType DEF IType
  <2>2. CASE o = Outcome("ok", buffer, chip, tdo) BY <2>2, OutcomeIsOk DEF IType, Errors
  <2> QED BY <2>1, <2>2 DEF RunAlloc
<1>5. cur \in Nat /\ e \in Nat /\ cur <= e /\ e + 1 <= Len(tms) BY <1>2 DEF IType
<1>6. RunTo(e) \in Segments /\ RunTo(e).from = cur /\ RunTo(e).to = e + 1
  BY <1>5 DEF RunTo, Segments, IsShift
<1>7. CASE o.err # "ok" /\ pc' = "done" /\ result' = o.err /\ UNCHANGED seg
  BY <1>1, <1>3, <1>4, <1>7 DEF IType, OutcomeOk, RunStarts
<1>8. CASE /\ o.err = "ok" /\ seg' = RunTo(e) /\ UNCHANGED result
           /\ pc' = (IF IsShift(StateAt(e)) THEN "leading" ELSE "tms")
  <2>1. pc' \in {"leading", "tms"} BY <1>8
  <2>2. seg'.from < seg'.to /\ cur < seg'.to /\ seg'.to <= Len(tms) /\ seg' \in Segments BY <1>5, <1>6, <1>8
  <2> QED BY <1>1, <1>3, <1>4, <1>8, <2>1, <2>2 DEF IType, OutcomeOk, RunStarts
<1> QED BY <1>3, <1>7, <1>8 DEF RunStarts

LEMMA FinishKeeps == ASSUME IType, Finish PROVE IType'
<1>1. pc = "next" /\ cur >= Len(tms) BY DEF Finish
<1>2. PICK o \in mpsse_buffer_flush(buffer, chip, tdo) :
        /\ chip' = o.c /\ tdo' = o.t
        /\ \/ o.err # "ok" /\ buffer' = o.b /\ Fail(o)
           \/ /\ o.err = "ok" /\ buffer' = pool_reset(o.b) /\ state' = StateAt(Len(tms)) /\ pc' = "done"
              /\ UNCHANGED <<tms, seg, cur, result, failures>>
  BY DEF Finish
<1>3. OutcomeOk(o) BY FlushType DEF IType
<1>4. CASE o.err # "ok" /\ buffer' = o.b /\ Fail(o)
  <2>1. failures' \in 0 .. MaxFailures BY <1>3, <1>4, Sizes DEF Fail, OutcomeOk, IType
  <2> QED BY <1>2, <1>3, <1>4, <2>1 DEF Fail, OutcomeOk, IType
<1>5. CASE /\ o.err = "ok" /\ buffer' = pool_reset(o.b) /\ state' = StateAt(Len(tms)) /\ pc' = "done"
           /\ UNCHANGED <<tms, seg, cur, result, failures>>
  <2>1. pool_reset(o.b) \in Buffers
    <3>1. 0 \in 0 .. PoolSize /\ o.b \in Buffers BY <1>3, Sizes DEF OutcomeOk
    <3> QED BY <3>1, Zenon DEF pool_reset, Buffers
  <2>2. SubSeq(tms, 1, Len(tms)) \in Seq({0, 1}) /\ state \in JtagStates BY DEF IType
  <2>3. StateAt(Len(tms)) \in JtagStates BY <2>2, WalkType DEF StateAt
  <2> QED BY <1>2, <1>3, <1>5, <2>1, <2>3 DEF IType, OutcomeOk
<1> QED BY <1>2, <1>4, <1>5

LEMMA ScanKeeps == ASSUME IType, mpsse_adapter_scan PROVE IType'
<1>1. PICK v \in ScanVectors, fresh \in BOOLEAN :
        /\ tms' = v
        /\ buffer' = IF fresh THEN [buffer EXCEPT !.observers = [k \in DOMAIN @ |-> [@[k] EXCEPT !.num = 0]]] ELSE buffer
  BY DEF mpsse_adapter_scan
<1>2. /\ chip' = [chip EXCEPT !.agreed = (chip.tap = state), !.began = chip.tap] /\ pc' = "next"
      /\ UNCHANGED <<state, seg, cur, result, failures>>
  BY DEF mpsse_adapter_scan
<1>3. buffer' \in Buffers
  <2> DEFINE obs == buffer.observers
             forgotten == [k \in DOMAIN obs |-> [obs[k] EXCEPT !.num = 0]]
  <2>1. PICK n \in Nat : DOMAIN obs = 1 .. n /\ obs \in Seq(Observers) BY DEF IType, Buffers
  <2>2. \A k \in 1 .. n : [obs[k] EXCEPT !.num = 0] \in Observers
    <3>1. \A ob \in Observers : [ob EXCEPT !.num = 0] \in Observers BY DEF Observers
    <3> QED BY <2>1, <3>1
  <2> DEFINE f(k) == [obs[k] EXCEPT !.num = 0]
  <2>3. forgotten = [k \in 1 .. n |-> f(k)] BY <2>1
  <2>4. \A k \in 1 .. n : f(k) \in Observers BY <2>2
  <2>5. buffer' = IF fresh THEN [buffer EXCEPT !.observers = forgotten] ELSE buffer BY <1>1
  <2> HIDE DEF f, forgotten
  <2>6. forgotten \in Seq(Observers) BY <2>3, <2>4
  <2>7. [buffer EXCEPT !.observers = forgotten] \in Buffers BY <2>6, Zenon DEF Buffers, IType
  <2> QED BY <2>5, <2>7 DEF IType
<1>4. chip' \in Chips
  <2>1. PICK c1 \in Chips : c1 = [chip EXCEPT !.agreed = (chip.tap = state)] BY ChipAgrees DEF IType
  <2>2. chip.tap \in JtagStates BY DEF IType, Chips
  <2>3. [c1 EXCEPT !.began = chip.tap] \in Chips BY <2>2 DEF Chips
  <2> QED BY <1>2, <2>1, <2>3
<1>5. tms' \in Seq({0, 1}) BY <1>1, ScanAssumption
<1> QED BY <1>2, <1>3, <1>4, <1>5 DEF IType

LEMMA EmptyType == EmptyBuffer \in Buffers /\ NoSeg \in Segments
<1>1. <<>> \in Seq(Commands) /\ <<>> \in Seq(Observers) OBVIOUS
<1>2. 0 \in 0 .. max_tx_buffer_bytes /\ 0 \in 0 .. max_rx_buffer_bytes /\ 0 \in 0 .. PoolSize BY Sizes
<1>3. EmptyBuffer \in Buffers BY <1>1, <1>2, Zenon DEF EmptyBuffer, Buffers
<1>4. NoSeg \in Segments BY DEF NoSeg, Segments
<1> QED BY <1>3, <1>4

LEMMA ReopenType ==
    ASSUME NEW c \in Chips, Reopen(c)
    PROVE  IType'
<1>1. chip' \in Chips BY ChipBetween DEF Reopen
<1>2. 0 \in 0 .. MaxFailures BY Sizes
<1> QED BY <1>1, <1>2, EmptyType DEF Reopen, IType, JtagStates, Errors

LEMMA FrequencyKeeps == ASSUME IType, mpsse_adapter_set_frequency PROVE IType'
<1> DEFINE clock == Command("clock", <<>>, <<>>, 0)
<1>1. PICK o \in Then(mpsse_buffer_append(buffer, chip, tdo, <<clock>>, 4, <<>>, 0),
                       LAMBDA a : mpsse_buffer_flush(a.b, a.c, a.t)) :
        /\ buffer' = o.b /\ chip' = Recount(o.c)
        /\ failures' = IF o.err = "usb" THEN failures + 1 ELSE failures
  BY DEF mpsse_adapter_set_frequency
<1>2. PICK a \in mpsse_buffer_append(buffer, chip, tdo, <<clock>>, 4, <<>>, 0) :
        \/ a.err # "ok" /\ o = a
        \/ a.err = "ok" /\ o \in mpsse_buffer_flush(a.b, a.c, a.t)
  BY <1>1 DEF Then
<1>3. clock \in Commands
  <2>1. "clock" \in Kinds /\ "clock" \notin {"tms", "last", "bits", "data"} /\ <<>> \in Seq(Int) /\ <<>> \in Seq({0, 1}) /\ 0 \in Nat
    BY DEF Kinds
  <2> QED BY <2>1, CommandType
<1> HIDE DEF clock
<1>4. <<clock>> \in Seq(Commands) /\ 4 \in Nat /\ <<>> \in Seq(Observers) /\ 0 \in Nat BY <1>3
<1>5. OutcomeOk(a) BY <1>4, AppendType DEF IType
<1>6. OutcomeOk(o) BY <1>2, <1>5, FlushType DEF OutcomeOk
<1>7. buffer' \in Buffers /\ chip' \in Chips BY <1>1, <1>6, ChipBetween DEF OutcomeOk
<1>8. failures' \in 0 .. MaxFailures BY <1>1, <1>6, Sizes DEF OutcomeOk, IType
<1>9. UNCHANGED <<state, tdo, tms, seg, cur, pc, result>> BY DEF mpsse_adapter_set_frequency
<1> QED BY <1>7, <1>8, <1>9 DEF IType

LEMMA CloseKeeps == ASSUME IType, mpsse_adapter_close PROVE IType'
<1>1. PICK o \in mpsse_buffer_flush(buffer, chip, tdo) : Reopen(o.c) BY DEF mpsse_adapter_close
<1>2. o.c \in Chips BY FlushType DEF IType, OutcomeOk
<1> QED BY <1>1, <1>2, ReopenType

LEMMA KilledKeeps == ASSUME IType, Killed PROVE IType'
<1>1. CASE Reopen(chip) BY <1>1, ReopenType DEF IType
<1>2. CASE \E k \in 1 .. Len(buffer.tx) : \E sent \in Executed(chip, SubSeq(buffer.tx, 1, k)) : Reopen(sent)
  <2>1. PICK k \in 1 .. Len(buffer.tx) : \E sent \in Executed(chip, SubSeq(buffer.tx, 1, k)) : Reopen(sent) BY <1>2
  <2>2. PICK sent \in Executed(chip, SubSeq(buffer.tx, 1, k)) : Reopen(sent) BY <2>1
  <2>3. buffer.tx \in Seq(Commands) BY DEF IType, Buffers
  <2>4. SubSeq(buffer.tx, 1, k) \in Seq(Commands) BY <2>3
  <2>5. sent \in Chips BY <2>2, <2>4, ExecutedType DEF IType
  <2> QED BY <2>2, <2>5, ReopenType
<1> QED BY <1>1, <1>2 DEF Killed

LEMMA TypeInit == ASSUME Init PROVE IType
<1>1. PICK tap \in TargetStates :
         chip = [tap |-> tap, pin |-> 1, clocks |-> 0, expects |-> 0, queue |-> <<>>,
                 agreed |-> FALSE, began |-> tap, ordered |-> TRUE, shifted |-> {}]
  BY DEF Init
<1>2. chip \in Chips
  <2>1. tap \in JtagStates /\ 1 \in {0, 1} /\ 0 \in Nat /\ 0 \in Int /\ <<>> \in Seq(Octets)
        /\ {} \in SUBSET Int /\ TRUE \in BOOLEAN /\ FALSE \in BOOLEAN
    BY ScanAssumption
  <2> QED BY <1>1, <2>1, Zenon DEF Chips
<1>3. 0 \in 0 .. MaxFailures BY Sizes
<1> QED BY <1>2, <1>3, EmptyType DEF Init, IType, JtagStates, Errors

LEMMA TypeStep == ASSUME IType, [Next]_vars PROVE IType'
<1>1. CASE UNCHANGED vars BY <1>1 DEF vars, IType
<1>2. CASE Return
  <2>1. chip' \in Chips BY <1>2, ChipBetween DEF Return, IType
  <2> QED BY <1>2, <2>1, EmptyType DEF Return, IType, Errors
<1>3. CASE ScanStep
  BY <1>3, NextRunKeeps, AppendTmsKeeps, LeadingKeeps, WholeKeeps, TrailingKeeps, LastKeeps, FinishKeeps DEF ScanStep
<1> QED BY <1>1, <1>2, <1>3, ScanKeeps, FrequencyKeeps, CloseKeeps, KilledKeeps DEF Next

\* The counts of the command buffer, the answers waited for and the observer pool stay
\* within what was allocated, and TAP and adapter states within the graph, whatever
\* fails on the way.
THEOREM ScanTypeCorrect == Spec => []TypeOK
<1>1. Init => IType BY TypeInit
<1>2. IType /\ [Next]_vars => IType' BY TypeStep
<1>3. IType => TypeOK BY DEF IType, TypeOK, Buffers, Chips, Errors
<1> QED BY <1>1, <1>2, <1>3, PTL DEF Spec
=============================================================================
