----------------------------- MODULE XvcFraming -----------------------------
(***************************************************************************)
(* xvc_handle byte by byte: the reads of one connection, the two command   *)
(* buffers, the 32-bit fields of settck and shift, and the settck          *)
(* arithmetic.  XvcInstance takes a command for one step; here a command   *)
(* is bytes that arrive in any pieces, several commands may be under way,  *)
(* and every read is told how many bytes it wants.                         *)
(*                                                                         *)
(* Leaving xvc_handle and entering it again for the same connection reads  *)
(* nothing, so the loop of the handler and the loop around it are one.     *)
(***************************************************************************)
EXTENDS Integers, Sequences, SequencesExt, TckPeriod

CONSTANTS
    Periods,            \* the periods of settck requests, in ns
    Lengths,            \* the lengths of shift requests, in bits
    OldLengths,         \* the lengths of requests in the old form "shifte:"
    max_vector_size,    \* ctx->max_vector_size, in bytes
    Frequencies,        \* the frequencies that may be configured, 0 for none
    MaxRequests,        \* bound: requests on the connection
    MaxFaults           \* bound: USB transfers that fail

\* What a field of four bytes can hold.
Int32 == {n \in Int : -2147483647 - 1 <= n /\ n <= 2147483647}

\* xvc_init leaves max_vector_size between 1 and XVC_MAX_VECTOR_SIZE_LIMIT.
ASSUME FramingAssumption ==
    /\ Periods \subseteq Int32 /\ Lengths \subseteq Int32 /\ OldLengths \subseteq Int32
    /\ max_vector_size \in Nat /\ 1 <= max_vector_size /\ max_vector_size <= 262144
    /\ Frequencies \subseteq Nat /\ MaxRequests \in Nat /\ MaxFaults \in Nat

VARIABLES
    requests,       \* what the client has sent
    stream,         \* its bytes that are not read yet
    eof,            \* the client has closed its end
    pc,             \* the read the handler is at
    got,            \* the bytes of this read that have come
    cmd_buf, vector_buf,
    answers,        \* what was written back
    divisor,        \* the chip's TCK divisor
    faults,         \* USB transfers that failed
    frequency       \* the configured frequency

vars == <<requests, stream, eof, pc, got, cmd_buf, vector_buf, answers, divisor, faults>>

-----------------------------------------------------------------------------
(* The client (external).  TMS byte k of a vector is the number k and TDI byte *)
(* k is 64 + k, so that a byte out of place shows.  No vector follows a length *)
(* that is not positive.                                                       *)

Getinfo == <<103, 101, 116, 105, 110, 102, 111, 58>>
Settck == <<115, 101, 116, 116, 99, 107, 58>>
ShiftOld == <<115, 104, 105, 102, 116, 101, 58>>
ShiftNew == <<115, 104, 105, 102, 116, 58>>

Encode(n) == <<n % 256, (n \div 256) % 256, (n \div 65536) % 256, (n \div 16777216) % 256>>
Decode(bytes) == bytes[1] + 256 * bytes[2] + 65536 * bytes[3]
                 + 16777216 * (IF bytes[4] >= 128 THEN bytes[4] - 256 ELSE bytes[4])

BytesFor(bits) == IF bits > 0 THEN (bits + 7) \div 8 ELSE 0
Tms(bits) == [k \in 1 .. BytesFor(bits) |-> k]
Tdi(bits) == [k \in 1 .. BytesFor(bits) |-> 64 + k]

Requests == {[op |-> "getinfo", arg |-> 0]}
            \cup [op : {"settck"}, arg : Periods] \cup [op : {"shift"}, arg : Lengths]
            \cup [op : {"shifte"}, arg : OldLengths]

Bytes(r) ==
    CASE r.op = "getinfo" -> Getinfo
      [] r.op = "settck" -> Settck \o Encode(r.arg)
      [] r.op = "shift" -> ShiftNew \o Encode(r.arg) \o Tms(r.arg) \o Tdi(r.arg)
      [] r.op = "shifte" -> ShiftOld \o Encode(r.arg) \o Tms(r.arg) \o Tdi(r.arg)

Send ==
    /\ ~eof /\ Len(requests) < MaxRequests
    /\ \E r \in Requests : requests' = Append(requests, r) /\ stream' = stream \o Bytes(r)
    /\ UNCHANGED <<eof, pc, got, cmd_buf, vector_buf, answers, divisor, faults>>

HangUp ==
    /\ ~eof /\ eof' = TRUE
    /\ UNCHANGED <<requests, stream, pc, got, cmd_buf, vector_buf, answers, divisor, faults>>

-----------------------------------------------------------------------------
(* The handler. *)

\* The signed little-endian number at an offset of cmd_buf.
xvc_get_int32(from) ==
    LET top == cmd_buf[from + 3]
    IN cmd_buf[from] + 256 * cmd_buf[from + 1] + 65536 * cmd_buf[from + 2]
       + 16777216 * (IF top >= 128 THEN top - 256 ELSE top)

xvc_put_int32(n) == <<n % 256, (n \div 256) % 256, (n \div 65536) % 256, (n \div 16777216) % 256>>

\* The sum len + 7 of two ints: beyond the largest one the build wraps around.
PlusSeven(n) == IF n > 2147483640 THEN (n - 2147483641) - 2147483647 - 1 ELSE n + 7

\* Division by 8 as C has it, towards zero.
Eighth(n) == IF n >= 0 THEN n \div 8 ELSE (n + 7) \div 8

\* len and nr_bytes of the shift being read.  Nothing keeps either from being negative.
len == xvc_get_int32(6)
nr_bytes == Eighth(PlusSeven(len))

\* The bytes that the read of TMS and TDI waits for: of less than one, none.
VectorLength == IF nr_bytes > 0 THEN 2 * nr_bytes ELSE 0

\* Mutant: settck reads one byte too few.
Wanted_short == CASE pc = "cmd" -> 2 [] pc = "getinfo" -> 6 [] pc = "settck" -> 8
                  [] pc \in {"shift", "length"} -> 4 [] pc = "colon" -> 1
                  [] pc = "data" -> VectorLength [] OTHER -> 0

\* The length of each read.
Wanted == CASE pc = "cmd" -> 2 [] pc = "getinfo" -> 6 [] pc = "settck" -> 9
            [] pc \in {"shift", "length"} -> 4 [] pc = "colon" -> 1
            [] pc = "data" -> VectorLength [] OTHER -> 0

\* Where the bytes of a read go in cmd_buf; the colon goes nowhere.
Offset == CASE pc = "cmd" -> 0 [] pc \in {"getinfo", "settck", "shift"} -> 2 [] pc = "length" -> 6 [] OTHER -> 16

\* One read() of xvc_read_exact: as much as has arrived, not more than is wanted.
xvc_read_exact ==
    /\ got < Wanted
    /\ \E r \in 1 .. Wanted - got :
        /\ r <= Len(stream)
        /\ got' = got + r
        /\ stream' = SubSeq(stream, r + 1, Len(stream))
        /\ cmd_buf' = [k \in DOMAIN cmd_buf |-> LET j == k - Offset - got + 1
                                                IN IF j \in 1 .. r THEN stream[j] ELSE cmd_buf[k]]
        /\ vector_buf' = IF pc = "data" THEN SubSeq(vector_buf, 1, got) \o SubSeq(stream, 1, r) ELSE vector_buf
    /\ UNCHANGED <<requests, eof, pc, answers, divisor, faults>>

\* A read is complete: on to the read or the end at next.
Complete(at) == pc = at /\ got = Wanted
Go(next) == pc' = next /\ got' = 0 /\ UNCHANGED <<requests, stream, eof, cmd_buf, vector_buf>>

\* The client is gone and nothing is left to read: xvc_handle returns 1.
ReadEof ==
    /\ got < Wanted /\ eof /\ stream = <<>>
    /\ Go("closed")
    /\ UNCHANGED <<answers, divisor, faults>>

\* memcmp of the first two bytes.
IsGetinfo == cmd_buf[0] = 103 /\ cmd_buf[1] = 101
IsSettck == cmd_buf[0] = 115 /\ cmd_buf[1] = 101
IsShift == cmd_buf[0] = 115 /\ cmd_buf[1] = 104

\* Anything but the three commands closes the connection.
Command ==
    /\ Complete("cmd")
    /\ Go(IF IsGetinfo THEN "getinfo" ELSE IF IsSettck THEN "settck" ELSE IF IsShift THEN "shift" ELSE "closed")
    /\ UNCHANGED <<answers, divisor, faults>>

\* A write to a client that is gone may fail: the connection is closed.
Write(answer) ==
    \/ answers' = Append(answers, answer) /\ Go("cmd")
    \/ eof /\ UNCHANGED answers /\ Go("closed")

HandleGetinfo ==
    /\ Complete("getinfo")
    /\ Write([op |-> "getinfo", size |-> max_vector_size])
    /\ UNCHANGED <<divisor, faults>>

\* The period to set: the client's, or that of the configured frequency.
period == IF frequency = 0 THEN xvc_get_int32(7) ELSE NsPerSecond \div frequency

\* The new divisor reaches the chip and the actual period is reported, or the
\* transfer fails (-1) and the period is echoed.
HandleSettck ==
    /\ Complete("settck")
    /\ \/ /\ divisor' = DivisorOf(FrequencyOf(period))
          /\ Write([op |-> "settck", bytes |-> xvc_put_int32(ActualPeriod(divisor'))])
          /\ UNCHANGED faults
       \/ /\ faults < MaxFaults /\ faults' = faults + 1
          /\ Write([op |-> "settck", bytes |-> xvc_put_int32(period)])
          /\ UNCHANGED divisor

\* Byte 4 of "shift:" and of "shifte" alike is the t.
OldForm == cmd_buf[4] \in {101, 69}

HandleShift ==
    /\ Complete("shift")
    /\ Go(IF OldForm THEN "colon" ELSE "length")
    /\ UNCHANGED <<answers, divisor, faults>>

\* Mutant: the limit is one byte too high.
TooLarge_over == nr_bytes > max_vector_size + 1

TooLarge == nr_bytes > max_vector_size

\* After the colon of the old form the length is still to be read.
HandleLength ==
    /\ pc \in {"colon", "length"} /\ got = Wanted
    /\ Go(IF pc = "colon" THEN "length" ELSE IF TooLarge THEN "closed" ELSE "data")
    /\ UNCHANGED <<answers, divisor, faults>>

\* Mutant: the TDI bytes are looked for one byte early.
TdiPart_early == SubSeq(vector_buf, nr_bytes, 2 * nr_bytes - 1)

\* What ftdi_adapter_scan is given as TMS and as TDI.
TmsPart == SubSeq(vector_buf, 1, nr_bytes)
TdiPart == SubSeq(vector_buf, nr_bytes + 1, 2 * nr_bytes)

\* A negative nr_bytes passed the size check: the memset of result_buf takes it for
\* a size beyond any memory, and the process dies in it.  Otherwise the vector is
\* scanned and nr_bytes of TDO are written; a scan of no bits fails, and any may.
HandleData ==
    /\ Complete("data")
    /\ \/ /\ nr_bytes < 0 /\ Go("crashed") /\ UNCHANGED <<answers, faults>>
       \/ /\ nr_bytes >= 0 /\ len > 0
          /\ Write([op |-> "shift", bits |-> len, tms |-> TmsPart, tdi |-> TdiPart])
          /\ UNCHANGED faults
       \/ /\ nr_bytes >= 0 /\ len <= 0 /\ Go("closed") /\ UNCHANGED <<answers, faults>>
       \/ /\ nr_bytes >= 0 /\ faults < MaxFaults /\ faults' = faults + 1
          /\ Go("closed") /\ UNCHANGED answers
    /\ UNCHANGED divisor

Handler == \/ xvc_read_exact \/ ReadEof \/ Command \/ HandleGetinfo \/ HandleSettck
           \/ HandleShift \/ HandleLength \/ HandleData

\* mpsse_adapter_open leaves a divisor of 29; run_instance sets the configured
\* frequency, if there is one, and does not look whether that failed.
Init ==
    /\ frequency \in Frequencies
    /\ requests = <<>> /\ stream = <<>> /\ eof = FALSE
    /\ pc = "cmd" /\ got = 0
    /\ cmd_buf = [k \in 0 .. 15 |-> 0] /\ vector_buf = <<>>
    /\ answers = <<>> /\ divisor \in IF frequency = 0 THEN {29} ELSE {29, DivisorOf(frequency)}
    /\ faults = 0

\* The connection is there, and the process that serves it.
Open == pc \notin {"closed", "crashed"}

Closed == ~Open /\ UNCHANGED vars

Next == (Send \/ HangUp \/ Handler \/ Closed) /\ UNCHANGED frequency

\* The handler is scheduled, bytes that were sent arrive, and the client takes its
\* answers: a write to a client that does not read them blocks, which is in
\* XvcInstance.
Spec == Init /\ [][Next]_<<vars, frequency>> /\ WF_vars(Handler)

-----------------------------------------------------------------------------
(* Properties. *)

\* The shape of the handler's state: which read it is at, within which buffers.  The
\* one step that leaves a buffer, memset's, ends in "crashed": see LengthChecked.
TypeOK ==
    /\ pc \in {"cmd", "getinfo", "settck", "shift", "colon", "length", "data", "closed", "crashed"}
    /\ got \in 0 .. Wanted
    /\ Len(vector_buf) <= 2 * max_vector_size
    /\ divisor \in 0 .. MaxDivisor /\ faults \in 0 .. MaxFaults

\* The right answers to a request: a settck is answered with the period set or,
\* when the transfer fails, with the period asked for.
RightAnswers(r) ==
    CASE r.op = "getinfo" -> {[op |-> "getinfo", size |-> max_vector_size]}
      [] r.op = "settck" -> [op : {"settck"}, period : {r.arg, ActualPeriod(DivisorOf(FrequencyOf(r.arg)))}]
      [] r.op \in {"shift", "shifte"} /\ r.arg > 0 /\ BytesFor(r.arg) <= max_vector_size ->
            {[op |-> "shift", bits |-> r.arg, tms |-> Tms(r.arg), tdi |-> Tdi(r.arg)]}
      [] OTHER -> {}

\* A request as the configuration has it: a configured frequency replaces the period.
Meant(r) == IF r.op = "settck" /\ frequency # 0 THEN [r EXCEPT !.arg = NsPerSecond \div frequency] ELSE r
Meanings == Requests \cup [op : {"settck"}, arg : {NsPerSecond \div f : f \in Frequencies \ {0}}]

\* An answer as the client reads it.
Read(a) == IF a.op = "settck" THEN [op |-> "settck", period |-> Decode(a.bytes)] ELSE a

Service == INSTANCE XvcService WITH
    Request <- Meanings, Answers <- RightAnswers,
    requests <- [k \in DOMAIN requests |-> Meant(requests[k])],
    answers <- [k \in DOMAIN answers |-> Read(answers[k])], open <- Open

\* However the bytes are cut into reads, and however many commands are under way at
\* once, every request is answered, in order, with its own vector, or the
\* connection ends, with its process for a negative size: xvc_handle implements the
\* service (and the step that XvcInstance takes for a whole command is justified).
ImplementsService == Service!Spec

\* README.md: "Server responds with actual period used."  As long as no transfer
\* fails, the period a settck is answered with is the chip's, for every request and
\* through all the roundings of xvc_handle, set_period and set_frequency.
TckTruthful ==
    answers # <<>> /\ faults = 0 /\ Open =>
        (Last(answers).op = "settck" => TruePeriod(Decode(Last(answers).bytes), divisor))

\* A connection ends from the server's side only for a vector whose length is not
\* positive or larger than the size getinfo reports, or after a failing transfer: the
\* handler never loses its place in the stream and takes data for a command.
NeverLosesItsPlace ==
    ~Open /\ ~eof /\ faults = 0 =>
        Len(requests) > Len(answers) /\ RightAnswers(requests[Len(answers) + 1]) = {}

\* The handler's comments: 'supports both "shift:" (v1.0) and "shifte:" (old protocol)',
\* and "Check if we have enough buffer space (need 2x for TMS + TDI)".  Behind the check
\* the size of the vector is one that the buffers have, and no connection is closed
\* for a request that fits them, in either form.
LengthChecked ==
    /\ pc = "data" => nr_bytes \in 0 .. max_vector_size
    /\ NeverLosesItsPlace
=============================================================================
