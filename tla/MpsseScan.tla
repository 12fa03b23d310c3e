----------------------------- MODULE MpsseScan -----------------------------
(***************************************************************************)
(* The scan engine of mpsse_adapter.c: mpsse_adapter_scan cuts a TMS/TDI   *)
(* vector into runs inside and outside the Shift states, append_tms_shift  *)
(* and append_tdi_shift turn each run into MPSSE commands, the command     *)
(* buffer is flushed to the chip whenever it fills, and observers copy the *)
(* bytes that come back to their place in the TDO vector.                  *)
(*                                                                         *)
(* Bits are identified by their position.  TDI bit k of a scan is the      *)
(* number k, and the TDO bit that the chip samples at the n-th clock of    *)
(* the scan is the number n: a scan is right when TDO bit k holds k.  The  *)
(* chip (external) executes the commands it is sent, in order.             *)
(***************************************************************************)
EXTENDS Integers, JtagTap

CONSTANTS
    chip_buffer_size,   \* bytes; the code's buffers are 3 and 2 times as large
    PoolSize,           \* allocations the observer pool has room for
    ScanVectors,        \* the TMS vectors scanned
    TargetStates,       \* where the target's TAP may be when the device is opened
    MaxFailures         \* bound: USB transfers that fail in one process

max_tx_buffer_bytes == 3 * chip_buffer_size
max_rx_buffer_bytes == 2 * chip_buffer_size
Junk == -1

ASSUME ScanAssumption == /\ chip_buffer_size \in Nat \ {0} /\ PoolSize \in Nat /\ MaxFailures \in Nat
                         /\ ScanVectors \subseteq Seq({0, 1}) /\ <<>> \notin ScanVectors
                         /\ TargetStates \subseteq JtagStates

VARIABLES
    buffer,     \* struct mpsse_buffer and the observer pool
    chip,       \* the device at the other end of the USB link
    state,      \* ctx->state
    tdo,        \* the caller's TDO vector
    tms,        \* the vector being scanned
    seg,        \* the run being appended: first bit, end, is_shift, leaving_shift
    cur,        \* first_pending_bit_idx between runs, cur_idx within a run
    pc,         \* where mpsse_adapter_scan is
    result,     \* the scan's result so far: "ok", "usb", "timeout", "full", "pool"
    failures    \* USB transfers that failed since the device was opened

vars == <<buffer, chip, state, tdo, tms, seg, cur, pc, result, failures>>

NoSeg == [from |-> 0, to |-> 0, shift |-> FALSE, leave |-> FALSE]
EmptyBuffer == [tx |-> <<>>, tx_num |-> 0, rx_num |-> 0, observers |-> <<>>, pool |-> 0]

\* After mpsse_adapter_create and mpsse_adapter_open, which drives TMS high but
\* clocks nothing: the target's TAP is where power-up or the run before left it.
Init ==
    /\ buffer = EmptyBuffer
    /\ \E tap \in TargetStates :
         chip = [tap |-> tap, pin |-> 1, clocks |-> 0, expects |-> 0, queue |-> <<>>,
                 agreed |-> FALSE, began |-> tap, ordered |-> TRUE, shifted |-> {}]
    /\ state = "TEST_LOGIC_RESET"
    /\ tdo = <<>> /\ tms = <<>> /\ seg = NoSeg /\ cur = 0
    /\ pc = "idle" /\ result = "ok" /\ failures = 0

-----------------------------------------------------------------------------
(* The chip.  A command is [kind, tdi, tms, octets]: kind "tms" clocks the TMS bits *)
(* given, "last" one TMS bit with a read, "bits" up to eight TDI bits, "bytes"      *)
(* announces octets data bytes, "data" is those bytes, "clock" sets the TCK divisor. *)
(* A TDI bit is its position.  agreed, began, clocks, ordered and shifted are        *)
(* history: did the TAP and the adapter agree when the scan began, where was the TAP *)
(* then, the clocks since, whether each had its own TDI bit, those in a Shift state. *)

IsShift(s) == s \in {"SHIFT_DR", "SHIFT_IR"}

Command(kind, tdi, tmsbits, octets) ==
    [kind |-> kind, tdi |-> tdi, tms |-> tmsbits, octets |-> octets]

\* What the chip returns for n bits sampled from clock t on: bytes, least
\* significant bit first; fewer than eight bits are left aligned.
Sampled(t, n) ==
    IF n < 8 THEN <<[j \in 0 .. 7 |-> IF j >= 8 - n THEN t + j - (8 - n) ELSE Junk]>>
    ELSE [k \in 1 .. n \div 8 |-> [j \in 0 .. 7 |-> t + 8 * (k - 1) + j]]

\* One command.  Data that is not what was announced, or an announced length of
\* zero (sent as 0xffff, which the chip reads as 65536), derails the chip: it takes
\* the commands that follow for data and answers nothing (expects = -1).
Execute(c, cmd) ==
    LET n == IF cmd.kind = "tms" THEN Len(cmd.tms) ELSE Len(cmd.tdi)
        levels == IF cmd.tms # <<>> THEN cmd.tms ELSE [k \in 1 .. n |-> c.pin]
        due == IF cmd.kind = "data" THEN cmd.octets ELSE 0
        at == jtag_path(jtag_next_state, c.tap, levels)
    IN CASE c.expects # due -> [c EXCEPT !.expects = -1]
         [] c.expects = due /\ cmd.kind = "bytes" ->
              [c EXCEPT !.expects = IF cmd.octets = 0 THEN -1 ELSE cmd.octets]
         [] c.expects = due /\ cmd.kind = "clock" -> c
         [] OTHER ->
              [c EXCEPT !.expects = 0, !.clocks = @ + n, !.pin = levels[n],
                        !.tap = at[n],
                        !.shifted = @ \cup {c.clocks + k : k \in {j \in 0 .. n - 1 : IsShift(at[j])}},
                        !.ordered = @ /\ \A k \in 1 .. Len(cmd.tdi) : cmd.tdi[k] = c.clocks + k - 1,
                        !.queue = IF cmd.kind = "tms" THEN @ ELSE @ \o Sampled(c.clocks, n)]

\* The chip after some commands, as a set of one.
Executed(c, cmds) ==
    LET after[k \in 0 .. Len(cmds)] == IF k = 0 THEN {c} ELSE {Execute(d, cmds[k]) : d \in after[k - 1]}
    IN after[Len(cmds)]

-----------------------------------------------------------------------------
(* The command buffer.  An operation yields the set of its outcomes              *)
(* [err, b, c, t]: its result and the buffer, chip and TDO vector it leaves.     *)

Outcome(err, b, c, t) == [err |-> err, b |-> b, c |-> c, t |-> t]

\* Two operations in a row, the second only when the first succeeds.
Then(outcomes, Op(_)) == UNION {IF o.err = "ok" THEN Op(o) ELSE {o} : o \in outcomes}

\* The observers, in the order of their commands: each copies num bits of the
\* bytes read, from bit from on, to the TDO vector from bit to on, so that the last
\* one to copy to a bit counts.  Bytes past the ones read are whatever rx_buffer held.
RunObservers(observers, bytes, t) ==
    [i \in DOMAIN t |->
        LET copying == {j \in DOMAIN observers : i \in observers[j].to .. observers[j].to + observers[j].num - 1}
            o == observers[Max(copying)]
            k == o.from + i - o.to
        IN IF copying = {} THEN t[i]
           ELSE IF k \div 8 < Len(bytes) THEN bytes[k \div 8 + 1][k % 8] ELSE Junk]

\* The commands have gone out; all expected answers have been read and passed on.
Cleared(b) == [b EXCEPT !.tx = <<>>, !.tx_num = 0]
Answered(b) == [b EXCEPT !.rx_num = 0, !.observers = <<>>]
Take(c, k) == [c EXCEPT !.queue = SubSeq(@, k + 1, Len(@))]

\* The read ends early: it times out once the queue is drained and no more comes, or
\* a call of it fails before all answers are there, and so does a chip that answers
\* too slowly.  The bytes read are lost, the rest may still come, and rx_num and the
\* observers stay.
Late(b, sent, t, err) ==
    LET drained == Len(sent.queue)
    IN {Outcome(err, Cleared(b), Take(sent, k), t) :
            k \in {j \in 0 .. drained : IF err = "timeout" THEN j = drained ELSE j < b.rx_num}}

ReadAnswers(b, sent, t) ==
    IF b.rx_num = 0 THEN {Outcome("ok", Cleared(b), sent, t)}
    ELSE (IF b.rx_num > Len(sent.queue) THEN Late(b, sent, t, "timeout")
          ELSE {Outcome("ok", Answered(Cleared(b)), Take(sent, b.rx_num),
                        RunObservers(b.observers, SubSeq(sent.queue, 1, b.rx_num), t))})
         \cup IF failures < MaxFailures THEN Late(b, sent, t, "usb") ELSE {}

\* FT_Write may fail after some of the bytes went out, at the end of a command or
\* within one (which derails the chip): the buffer keeps all of them.
HalfSent(b, c) == (UNION {Executed(c, SubSeq(b.tx, 1, k)) : k \in 0 .. Len(b.tx)}) \cup {[c EXCEPT !.expects = -1]}

mpsse_buffer_flush(b, c, t) ==
    (UNION {ReadAnswers(b, sent, t) : sent \in Executed(c, b.tx)})
    \cup IF failures < MaxFailures /\ b.tx_num > 0 THEN {Outcome("usb", b, p, t) : p \in HalfSent(b, c)} ELSE {}

\* Mutant: the last allocation does not fit.
pool_alloc_over(b, c, t) == {Outcome("ok", [b EXCEPT !.pool = @ + 1], c, t)}

\* pool_alloc: one allocation, whatever its size.
pool_alloc(b, c, t) ==
    {IF b.pool < PoolSize THEN Outcome("ok", [b EXCEPT !.pool = @ + 1], c, t) ELSE Outcome("pool", b, c, t)}

\* Mutant: the flush that makes room only looks at the receive side.
MustFlush_rx(b, tx_bytes, rx_bytes) ==
    \/ b.rx_num + rx_bytes > max_rx_buffer_bytes
    \/ b.rx_num >= (max_rx_buffer_bytes * 9) \div 10

\* mpsse_buffer_append's would_overflow || at_threshold.
MustFlush(b, tx_bytes, rx_bytes) ==
    \/ b.tx_num + tx_bytes > max_tx_buffer_bytes \/ b.rx_num + rx_bytes > max_rx_buffer_bytes
    \/ b.tx_num >= (max_tx_buffer_bytes * 9) \div 10 \/ b.rx_num >= (max_rx_buffer_bytes * 9) \div 10

\* An observer's data pointer: it reads from the end of the answers expected so far.
Note(b, observer) == [observer EXCEPT !.from = @ + 8 * b.rx_num]

\* size bytes of tx, rx_bytes of answer; observers is <<>> or the one observer.
Written(b, cmds, size) == [b EXCEPT !.tx = @ \o cmds, !.tx_num = @ + size]
Noted(b, observers, rx_bytes) ==
    [b EXCEPT !.rx_num = @ + rx_bytes, !.observers = @ \o [k \in DOMAIN observers |-> Note(b, observers[k])]]

mpsse_buffer_append(b, c, t, cmds, size, observers, rx_bytes) ==
    Then(IF MustFlush(b, size, rx_bytes) THEN mpsse_buffer_flush(b, c, t) ELSE {Outcome("ok", b, c, t)},
         LAMBDA o :
            IF o.b.tx_num + size > max_tx_buffer_bytes THEN {Outcome("full", o.b, o.c, o.t)}
            ELSE IF o.b.rx_num + rx_bytes > max_rx_buffer_bytes
                 THEN {Outcome("full", Written(o.b, cmds, size), o.c, o.t)}
            ELSE IF rx_bytes = 0 THEN {Outcome("ok", Written(o.b, cmds, size), o.c, o.t)}
            ELSE Then(pool_alloc(Written(o.b, cmds, size), o.c, o.t),
                      LAMBDA p : {Outcome("ok", Noted(p.b, observers, rx_bytes), p.c, p.t)}))

mpsse_buffer_ensure_can_append(b, c, t, tx_bytes, rx_bytes) ==
    IF \/ b.tx_num + tx_bytes > max_tx_buffer_bytes \/ b.rx_num + rx_bytes > max_rx_buffer_bytes
       \/ b.tx_num > (max_tx_buffer_bytes * 95) \div 100 \/ b.rx_num > (max_rx_buffer_bytes * 95) \div 100
    THEN mpsse_buffer_flush(b, c, t)
    ELSE {Outcome("ok", b, c, t)}

mpsse_buffer_add_write_with_readback(b, c, t, cmds, size, observer, rx_bytes) ==
    Then(mpsse_buffer_ensure_can_append(b, c, t, size, rx_bytes),
         LAMBDA o : mpsse_buffer_append(o.b, o.c, o.t, cmds, size, <<observer>>, rx_bytes))

\* The copiers' extra: take num bits from bit from of the answer to TDO bit to.
Copier(from, to, num) == [from |-> from, to |-> to, num |-> num]

\* A three byte command with one byte of answer; its extra is allocated first.
AddBits(cmd, copier) ==
    Then(pool_alloc(buffer, chip, tdo),
         LAMBDA o : mpsse_buffer_add_write_with_readback(o.b, o.c, o.t, <<cmd>>, 3, copier, 1))

Positions(from, n) == [k \in 1 .. n |-> from + k - 1]

-----------------------------------------------------------------------------
(* mpsse_adapter_scan. *)

\* A scan ends with an error: the buffer, the pool and ctx->state stay as they are.
Fail(o) ==
    /\ pc' = "done"
    /\ result' = o.err
    /\ failures' = IF o.err = "usb" THEN failures + 1 ELSE failures
    /\ UNCHANGED <<state, tms, seg, cur>>

\* One operation of the scan: on success on to bit next, at next_pc.
Perform(outcomes, next, next_pc) ==
    \E o \in outcomes :
        /\ buffer' = o.b /\ chip' = o.c /\ tdo' = o.t
        /\ \/ o.err # "ok" /\ Fail(o)
           \/ /\ o.err = "ok"
              /\ cur' = next /\ pc' = next_pc
              /\ UNCHANGED <<state, tms, seg, result, failures>>

\* A part of append_tdi_shift's loop whose condition is false.
Skip(next_pc) == pc' = next_pc /\ UNCHANGED <<buffer, chip, state, tdo, tms, seg, cur, result, failures>>

\* The call; the clocks of a scan are counted from here.  Observers left by a failed
\* scan point into the result_buf of that scan, which xvc_free has released since
\* (main.c, on_client_data).  What a copy to freed memory does: the next connection's
\* buffer is the same memory again and takes it (fresh is FALSE); it lands where
\* nobody reads it (fresh is TRUE); or it breaks the process (Killed).
mpsse_adapter_scan ==
    /\ pc = "idle"
    /\ \E v \in ScanVectors, fresh \in BOOLEAN :
        /\ fresh => buffer.observers # <<>>
        /\ tms' = v
        /\ tdo' = [i \in 0 .. Len(v) - 1 |-> Junk]
        /\ buffer' = IF fresh THEN [buffer EXCEPT !.observers = [k \in DOMAIN @ |-> [@[k] EXCEPT !.num = 0]]]
                     ELSE buffer
    /\ chip' = [chip EXCEPT !.agreed = (chip.tap = state), !.began = chip.tap]
    /\ pc' = "next"
    /\ UNCHANGED <<state, seg, cur, result, failures>>

\* Mutant: the state before the bit before.
StateAt_behind(k) == jtag_walk(mpsse_next_state, state, SubSeq(tms, 1, k - 1))

\* jtag_state before bit k.
StateAt(k) == jtag_walk(mpsse_next_state, state, SubSeq(tms, 1, k))

\* Mutant: a run goes on past the bit that enters a Shift state.
Event_late(k) == k = Len(tms) - 1 \/ (IsShift(StateAt(k)) /\ ~IsShift(StateAt(k + 1)))

\* Bit k ends a run: it enters or leaves a Shift state or is the last one.
Event(k) == k = Len(tms) - 1 \/ IsShift(StateAt(k)) # IsShift(StateAt(k + 1))

\* The next run, up to and with the first event; for a run in a Shift state
\* append_tdi_shift first computes its parts and allocates the bulk copier.
NumLeading(s) == LET odd == (8 - (s.from % 8)) % 8
                     regular == s.to - 1 - s.from
                 IN IF odd < regular THEN odd ELSE regular
LeadingOnly(s) == NumLeading(s) = s.to - 1 - s.from
InnerEnd(s) == IF LeadingOnly(s) THEN -1 ELSE (s.to - 1) - ((s.to - 1) % 8)

\* Mutant: one trailing bit is forgotten.
NumTrailing_short(s) == IF LeadingOnly(s) \/ (s.to - 1) % 8 = 0 THEN 0 ELSE ((s.to - 1) % 8) - 1

NumTrailing(s) == IF LeadingOnly(s) THEN 0 ELSE (s.to - 1) % 8
InnerBytes(s) == IF InnerEnd(s) > s.from THEN (InnerEnd(s) - (s.from + NumLeading(s))) \div 8 ELSE 0

NextRun ==
    /\ pc = "next" /\ cur < Len(tms)
    /\ \E e \in cur .. Len(tms) - 1 :
        /\ Event(e) /\ \A k \in cur .. e - 1 : ~Event(k)
        /\ LET shift == IsShift(StateAt(e))
               run == [from |-> cur, to |-> e + 1, shift |-> shift,
                       leave |-> shift /\ ~IsShift(StateAt(e + 1))]
               alloc == IF shift /\ InnerBytes(run) > 0 THEN pool_alloc(buffer, chip, tdo)
                        ELSE {Outcome("ok", buffer, chip, tdo)}
           IN \E o \in alloc :
                /\ buffer' = o.b
                /\ \/ o.err # "ok" /\ pc' = "done" /\ result' = o.err /\ UNCHANGED seg
                   \/ o.err = "ok" /\ seg' = run /\ pc' = (IF shift THEN "leading" ELSE "tms") /\ UNCHANGED result
    /\ UNCHANGED <<chip, state, tdo, tms, cur, failures>>

\* The TMS bits of one command.
TmsBits(s, c) == IF s.to - c < 6 THEN s.to - c ELSE 6

append_tms_shift ==
    /\ pc = "tms"
    /\ LET n == TmsBits(seg, cur)
           cmd == Command("tms", <<>>, SubSeq(tms, cur + 1, cur + n), 0)
       IN Perform(mpsse_buffer_append(buffer, chip, tdo, <<cmd>>, 3, <<>>, 0),
                  cur + n, IF cur + n = seg.to THEN "next" ELSE "tms")

(* append_tdi_shift: the four parts of its loop body, each with its condition. *)

Leading ==
    /\ pc = "leading"
    /\ LET n == NumLeading(seg)
       IN IF cur = seg.from /\ n > 0
          THEN Perform(AddBits(Command("bits", Positions(seg.from, n), <<>>, 0), Copier(8 - n, seg.from, n)),
                       cur + n, "whole")
          ELSE Skip("whole")

\* The header and the data bytes are two entries of the buffer: a flush may part
\* them.  The last chunk's answer goes to the bulk copier, which copies all the
\* run's bytes from there; any other chunk has a byte copier of its own.
Whole ==
    /\ pc = "whole"
    /\ LET octets == IF (InnerEnd(seg) - cur) \div 8 < chip_buffer_size
                     THEN (InnerEnd(seg) - cur) \div 8 ELSE chip_buffer_size
           start == seg.from + NumLeading(seg)
           \* C division truncates towards zero; cur is never below start here
           remaining == InnerBytes(seg) - (cur - start) \div 8
           bulk == octets >= remaining /\ InnerBytes(seg) > 0
           data == Command("data", Positions(8 * (cur \div 8), 8 * octets), <<>>, octets)
           copier == IF bulk THEN Copier(0, 8 * (start \div 8), 8 * InnerBytes(seg))
                     ELSE Copier(0, 8 * (cur \div 8), 8 * octets)
           add(o) == IF octets = 0 THEN mpsse_buffer_ensure_can_append(o.b, o.c, o.t, 0, 0)
                     ELSE mpsse_buffer_add_write_with_readback(o.b, o.c, o.t, <<data>>, octets, copier, octets)
       IN IF cur < seg.to - 1 /\ InnerEnd(seg) > cur
          THEN Perform(Then(mpsse_buffer_append(buffer, chip, tdo, <<Command("bytes", <<>>, <<>>, octets)>>, 3, <<>>, 0),
                            LAMBDA o : IF bulk THEN add(o) ELSE Then(pool_alloc(o.b, o.c, o.t), add)),
                       cur + 8 * octets, "trailing")
          ELSE Skip("trailing")

Trailing ==
    /\ pc = "trailing"
    /\ LET n == NumTrailing(seg)
       IN IF n > 0 /\ cur < seg.to - 1
          THEN Perform(AddBits(Command("bits", Positions(InnerEnd(seg), n), <<>>, 0), Copier(8 - n, InnerEnd(seg), n)),
                       cur + n, "last")
          ELSE Skip("last")

\* Mutant: the last bit of a run always leaves the Shift state.
LastTms_leaves(s) == 1

\* last_tms_bit: a run that ends with the vector may stay in the Shift state.
LastTms(s) == IF s.leave THEN 1 ELSE 0

LastBit ==
    /\ pc = "last"
    /\ LET after(c) == IF c < seg.to THEN "leading" ELSE "next"
           cmd == Command("last", <<seg.to - 1>>, <<LastTms(seg)>>, 0)
       IN IF cur = seg.to - 1
          THEN Perform(AddBits(cmd, Copier(7, seg.to - 1, 1)), cur + 1, after(cur + 1))
          ELSE Skip(after(cur))

pool_reset(b) == [b EXCEPT !.pool = 0]

\* The final flush.  Only when it succeeds is the pool reset and the state kept.
Finish ==
    /\ pc = "next" /\ cur >= Len(tms)
    /\ \E o \in mpsse_buffer_flush(buffer, chip, tdo) :
        /\ chip' = o.c /\ tdo' = o.t
        /\ \/ o.err # "ok" /\ buffer' = o.b /\ Fail(o)
           \/ /\ o.err = "ok"
              /\ buffer' = pool_reset(o.b)
              /\ state' = StateAt(Len(tms))
              /\ pc' = "done"
              /\ UNCHANGED <<tms, seg, cur, result, failures>>

\* The history of one scan is over.
Recount(c) == [c EXCEPT !.clocks = 0, !.agreed = FALSE, !.began = c.tap, !.ordered = TRUE, !.shifted = {}]

\* The caller has taken the result.
Return ==
    /\ pc = "done"
    /\ chip' = Recount(chip)
    /\ tdo' = <<>> /\ tms' = <<>> /\ seg' = NoSeg /\ cur' = 0 /\ pc' = "idle" /\ result' = "ok"
    /\ UNCHANGED <<buffer, state, failures>>

\* settck between two scans: a divisor command, flushed at once together with
\* whatever a failed scan has left.  The caller echoes the period on an error.
mpsse_adapter_set_frequency ==
    /\ pc = "idle"
    /\ \E o \in Then(mpsse_buffer_append(buffer, chip, tdo, <<Command("clock", <<>>, <<>>, 0)>>, 4, <<>>, 0),
                     LAMBDA a : mpsse_buffer_flush(a.b, a.c, a.t)) :
        /\ buffer' = o.b /\ chip' = Recount(o.c)
        /\ failures' = IF o.err = "usb" THEN failures + 1 ELSE failures
    /\ UNCHANGED <<state, tdo, tms, seg, cur, pc, result>>

\* Mutant: the answers in the chip's queue survive.
Reopened_unpurged(c) == Recount([c EXCEPT !.pin = 1, !.expects = 0])

\* mpsse_adapter_open resets the chip, drops what it holds and drives TMS high; it
\* does not clock the target's TAP.
Reopened(c) == Recount([c EXCEPT !.pin = 1, !.expects = 0, !.queue = <<>>])

\* The next process, with a context of its own.
Reopen(c) ==
    /\ chip' = Reopened(c) /\ buffer' = EmptyBuffer /\ state' = "TEST_LOGIC_RESET"
    /\ tdo' = <<>> /\ tms' = <<>> /\ seg' = NoSeg /\ cur' = 0
    /\ pc' = "idle" /\ result' = "ok" /\ failures' = 0

\* The process stops: what a failed scan has left is flushed, and what comes of it
\* is ignored.
mpsse_adapter_close ==
    /\ pc = "idle"
    /\ \E o \in mpsse_buffer_flush(buffer, chip, tdo) : Reopen(o.c)

\* The process is killed between two operations, or in the final flush when a part
\* of the commands has gone out and nothing has been read.
Killed ==
    \/ Reopen(chip)
    \/ /\ pc = "next" /\ cur >= Len(tms)
       /\ \E k \in 1 .. Len(buffer.tx) : \E sent \in Executed(chip, SubSeq(buffer.tx, 1, k)) : Reopen(sent)

\* A step of a scan under way.
ScanStep == NextRun \/ append_tms_shift \/ Leading \/ Whole \/ Trailing \/ LastBit \/ Finish

Next == mpsse_adapter_scan \/ mpsse_adapter_set_frequency \/ ScanStep \/ Return
        \/ mpsse_adapter_close \/ Killed

Spec == Init /\ [][Next]_vars

\* The thread that scans is scheduled; every wait of mpsse_buffer_flush has a limit.
FairSpec == Spec /\ WF_vars(ScanStep)

-----------------------------------------------------------------------------
(* What ScanCorrect, TapTracked, NoSpuriousFailure and AnswersAccounted are promised for. *)

\* No run in a Shift state has more whole bytes than one chunk takes: the run
\* claim_scan shows what becomes of a longer one.
ShortRuns ==
    \A v \in ScanVectors, s \in JtagStates : \A to \in 1 .. Len(v) : \A from \in 0 .. to - 1 :
        (\A k \in from .. to - 1 : IsShift(jtag_path(jtag_next_state, s, v)[k]))
            => InnerBytes([NoSeg EXCEPT !.from = from, !.to = to]) <= chip_buffer_size

\* The pool has room for two allocations a bit, the most that append_tdi_shift asks for.
PoolFits == \A v \in ScanVectors : 2 * Len(v) <= PoolSize

-----------------------------------------------------------------------------
(* Properties. *)

\* The buffer counts and the pool stay within what was allocated, also when
\* transfers fail (mpsse_buffer_append, pool_alloc).
TypeOK ==
    /\ buffer.tx_num \in 0 .. max_tx_buffer_bytes /\ buffer.rx_num \in 0 .. max_rx_buffer_bytes
    /\ buffer.pool \in 0 .. PoolSize
    /\ chip.tap \in JtagStates /\ state \in JtagStates
    /\ pc \in {"idle", "next", "tms", "leading", "whole", "trailing", "last", "done"}
    /\ result \in {"ok", "usb", "timeout", "full", "pool"}
    /\ failures \in 0 .. MaxFailures

Returned == pc = "done" /\ result = "ok"

\* mpsse_adapter.h says of the scan: "tdo Output TDO data bytes", "return 0 on
\* success".  When it returns 0, after a start at which TAP and adapter agreed, the
\* bits clocked while the TAP was in a Shift state hold what the chip sampled at that
\* clock, the others what they held: no answer of a chunk, or of a scan that failed
\* before, is returned in their place (append_tdi_shift, mpsse_buffer_flush).
SuccessReturnsTdo ==
    Returned /\ chip.agreed => \A i \in DOMAIN tdo : tdo[i] = IF i \in chip.shifted THEN i ELSE Junk

\* Cutting a vector into runs, runs into parts and the parts into commands, and
\* flushing wherever the buffers fill, loses and reorders nothing: when
\* mpsse_adapter_scan returns 0, and no transfer has ever failed, every bit was
\* clocked once, with its own TDI, no answer is left over and, unless the TAP was
\* elsewhere when the scan began, the TDO vector is right.
ScanCorrect ==
    Returned /\ failures = 0 =>
        chip.clocks = Len(tms) /\ chip.ordered /\ chip.queue = <<>> /\ SuccessReturnsTdo

\* The adapter's idea of the TAP state, TEST_LOGIC_RESET when the device is opened
\* whatever the TAP's is, in the middle of a scan after a kill, is the TAP's own from
\* the first scan on that clocks five ones or starts in agreement, as long as no
\* transfer has failed.
TapTracked ==
    Returned /\ failures = 0 =>
        /\ chip.expects = 0
        /\ (chip.agreed \/ HoldsReset(tms)) => chip.tap = state

\* The flush before an append always makes room and the chip always answers what
\* the buffer waits for: without a failing transfer no scan returns -1.
NoSpuriousFailure == failures = 0 => result = "ok"

\* What the buffer waits for is what the commands in it will answer: a chunk's
\* header and data, parted by a flush or not, never make rx_num_bytes drift, and no
\* answer to a process that was killed is taken for one to the next.
AnswersAccounted ==
    failures = 0 => \A sent \in Executed(chip, buffer.tx) : Len(sent.queue) = buffer.rx_num

\* After a failed transfer adapter and TAP may disagree, until the client clocks
\* TMS high five times: the next scan that does so and returns 0 brings them
\* together, whatever was left in the buffer, unless the chip was derailed by a
\* header whose data was never sent.
ResetRecovers == Returned /\ HoldsReset(tms) /\ chip.expects = 0 => chip.tap = state

Abstract == INSTANCE JtagScan WITH
    Vectors <- ScanVectors, Taps <- TargetStates, Unset <- Junk,
    phase <- CASE pc \in {"idle", "done"} -> pc [] OTHER -> "busy",
    vector <- tms,
    tap <- IF pc \in {"idle", "done"} THEN chip.tap ELSE chip.began,
    believed <- state,
    tdo <- IF pc = "done" THEN tdo ELSE <<>>

\* Seen from its caller, mpsse_adapter_scan is one step that clocks the whole vector
\* through the TAP and returns the sampled bits; it always comes to its end, scan
\* after scan, and set_frequency between two scans moves nothing.
ImplementsScan == Abstract!Spec

\* A scan always returns, whatever fails on the way, unless its process ends: the parts that append_tdi_shift
\* cuts a run into add up to it, or its loop would go round without an end.
ScanReturns == (pc = "next") ~> (pc \in {"done", "idle"})
=============================================================================
