-------------------------- MODULE XvcFramingProofs --------------------------
(***************************************************************************)
(* Proofs about XvcFraming, for any number of requests, any size limit,    *)
(* and every period and length that four bytes can hold.  All but the      *)
(* type correctness is about the form "shift:".                            *)
(***************************************************************************)
EXTENDS XvcFraming, TLAPS, SequenceTheorems

\* No client uses the old form, which claim_shift is about.
NewForm == OldLengths = {}

\* nr_bytes of a length.
SizeOf(n) == Eighth(PlusSeven(n))

Current == Len(answers) + 1
CurrentBytes == Bytes(requests[Current])

\* The bytes of the current command that earlier reads have taken; that have been
\* taken; that are kept in cmd_buf.
Before == CASE pc = "cmd" -> 0 [] pc \in {"getinfo", "settck", "shift"} -> 2
            [] pc = "length" -> 6 [] OTHER -> 10
Taken == Before + got
Stored == IF pc = "data" THEN 10 ELSE Taken

\* Byte j of request k is at off[k] + j of the stream, unless it has been read.
Layout(off) ==
    /\ off \in [1 .. Len(requests) + 1 -> Int]
    /\ off[Current] = -Taken /\ off[Len(requests) + 1] = Len(stream)
    /\ \A k \in Current .. Len(requests) :
         /\ off[k + 1] = off[k] + Len(Bytes(requests[k]))
         /\ \A j \in 1 .. Len(Bytes(requests[k])) :
              off[k] + j >= 1 => /\ off[k] + j <= Len(stream)
                                 /\ stream[off[k] + j] = Bytes(requests[k])[j]

\* What the buffers hold of the current command.
Buffered ==
    /\ \A j \in 1 .. Stored : cmd_buf[j - 1] = CurrentBytes[j]
    /\ pc = "data" => /\ got <= Len(vector_buf)
                      /\ \A j \in 1 .. got : vector_buf[j] = CurrentBytes[10 + j]

\* The handler is at a read of the command that was sent.
InCommand ==
    /\ pc # "cmd" => Current <= Len(requests)
    /\ pc \in {"getinfo", "settck"} => requests[Current].op = pc
    /\ pc \in {"shift", "length", "data"} => requests[Current].op = "shift"
    /\ pc = "data" => SizeOf(requests[Current].arg) <= max_vector_size

AnswerType == [op : {"getinfo"}, size : {max_vector_size}] \cup [op : {"settck"}, bytes : Seq(Int)]
              \cup [op : {"shift"}, bits : Int, tms : Seq(Int), tdi : Seq(Int)]

IType ==
    /\ frequency \in Frequencies /\ requests \in Seq(Requests) /\ stream \in Seq(Int) /\ eof \in BOOLEAN
    /\ pc \in {"cmd", "getinfo", "settck", "shift", "length", "data", "closed", "crashed"} /\ got \in Nat
    /\ cmd_buf \in [0 .. 15 -> Int] /\ vector_buf \in Seq(Int) /\ Len(vector_buf) <= 2 * max_vector_size
    /\ answers \in Seq(AnswerType) /\ Len(answers) <= Len(requests)
    /\ divisor \in 0 .. MaxDivisor /\ faults \in 0 .. MaxFaults

\* The inductive invariant: buffers and stream together are the requests that are
\* not answered yet.
Tracks == InCommand /\ Buffered /\ \E off : Layout(off)
IInv == IType /\ NeverLosesItsPlace /\ TckTruthful /\ got \in 0 .. Wanted /\ (Open => Tracks)

-----------------------------------------------------------------------------
(* Numbers in bytes. *)

\* The four bytes of a number, put together, are the number.
LEMMA FourBytes ==
    ASSUME NEW n \in Int32
    PROVE  n = (n % 256) + 256 * ((n \div 256) % 256) + 65536 * ((n \div 65536) % 256)
               + 16777216 * (IF (n \div 16777216) % 256 >= 128 THEN ((n \div 16777216) % 256) - 256
                             ELSE (n \div 16777216) % 256)
<1>. DEFINE a == n \div 256
            b == n \div 65536
            c == n \div 16777216
<1>1. a \in Int /\ b \in Int /\ c \in Int /\ n % 256 \in 0 .. 255 /\ n = 256 * a + (n % 256)
  BY SMT DEF Int32
<1>2. b = a \div 256 /\ a = 256 * b + (a % 256) /\ a % 256 \in 0 .. 255
  BY SMT DEF Int32
<1>3. c = b \div 256 /\ b = 256 * c + (b % 256) /\ b % 256 \in 0 .. 255
  BY SMT DEF Int32
<1>4. c = IF c % 256 >= 128 THEN (c % 256) - 256 ELSE c % 256
  <2>1. c >= -128 /\ c <= 127
    BY SMT DEF Int32
  <2>. HIDE DEF c
  <2>. QED
    BY <1>1, <2>1, SMT
<1>. HIDE DEF a, b, c
<1>5. n = (n % 256) + 256 * (a % 256) + 65536 * (b % 256) + 16777216 * c
  BY <1>1, <1>2, <1>3, SMT
<1>. QED
  BY <1>4, <1>5, SMT DEF a, b, c

\* The client's reading of what xvc_put_int32 writes.
LEMMA PutDecodes ==
    ASSUME NEW n \in Int32
    PROVE  Decode(xvc_put_int32(n)) = n /\ xvc_put_int32(n) \in Seq(Int)
<1>1. n \in Int
  BY SMT DEF Int32
<1>. QED
  BY <1>1, FourBytes, SMT DEF Decode, xvc_put_int32

\* A divisor is a number of at most 16 bits.
LEMMA MaxDivisorNat == MaxDivisor \in Nat
  BY SMT DEF MaxDivisor

\* The divisor of any frequency is 16 bits wide.
LEMMA DivisorType ==
    ASSUME NEW f \in Nat
    PROVE  DivisorOf(f) \in 0 .. MaxDivisor
<1>. DEFINE c == ClampFrequency(f)
            d == BaseClock \div (2 * c)
            less == IF d > 0 THEN d - 1 ELSE d
<1>1. c \in Nat /\ c >= 1
  BY SMT DEF ClampFrequency, MPSSE_MAX_FREQUENCY
<1>2. d \in Nat
  BY <1>1, SMT DEF BaseClock
<1>3. less \in Nat
  <2>. HIDE DEF d
  <2>. QED
    BY <1>2
<1>4. (IF less > MaxDivisor THEN MaxDivisor ELSE less) \in 0 .. MaxDivisor
  <2>. HIDE DEF less
  <2>. QED
    BY <1>3, MaxDivisorNat, SMT
<1>. QED
  BY <1>4, SMT DEF DivisorOf

\* A period asked for gives a frequency.
LEMMA FrequencyType ==
    ASSUME NEW p \in Int
    PROVE  FrequencyOf(p) \in Nat
<1>1. p >= 0 => (IF p = 0 THEN 100 ELSE p) \in Nat \ {0}
  OBVIOUS
<1>. QED
  BY <1>1, SMT DEF FrequencyOf, NsPerSecond

\* Rounding a quotient down loses less than one divisor.
LEMMA Quotient ==
    ASSUME NEW a \in Nat, NEW b \in Nat, b >= 1
    PROVE  /\ a \div b \in Nat
           /\ b * (a \div b) <= a
           /\ a < b * (a \div b) + b
  BY SMT

LEMMA Monotone ==
    ASSUME NEW a \in Nat, NEW b \in Nat, NEW c \in Nat, a <= b
    PROVE  a * c <= b * c
<1>1. PICK e \in Nat : b = a + e
  <2>. QED
    BY b - a \in Nat, b = a + (b - a), SMT
<1>2. b * c = a * c + e * c /\ e * c \in Nat /\ a * c \in Nat
  BY <1>1, SMT
<1>. QED
  BY <1>2, SMT

\* The period that set_period returns is within one percent of the chip's: the two
\* roundings of the reported period cannot add up to more.
LEMMA PeriodIsTrue ==
    ASSUME NEW d \in 0 .. MaxDivisor
    PROVE  TruePeriod(ActualPeriod(d), d) /\ ActualPeriod(d) \in Int32
<1>. DEFINE m == 1 + d
            f == BaseClock \div (m * 2)
            p == NsPerSecond \div f
<1>1. m \in Nat /\ m >= 1 /\ m <= 65536
  <2>1. d \in Int /\ 0 <= d /\ d <= MaxDivisor
    BY MaxDivisorNat
  <2>. QED
    BY <2>1, SMT DEF MaxDivisor
<1>2. /\ f \in Nat
      /\ (m * 2) * f <= 60000000
      /\ 60000000 < (m * 2) * f + m * 2
  <2>. HIDE DEF m
  <2>1. BaseClock = 60000000 /\ BaseClock \in Nat /\ m * 2 \in Nat /\ m * 2 >= 1
    BY <1>1, SMT DEF BaseClock
  <2>2. BaseClock \in Nat /\ m * 2 \in Nat /\ m * 2 >= 1
    BY <2>1
  <2>3. f \in Nat /\ (m * 2) * f <= BaseClock /\ BaseClock < (m * 2) * f + m * 2
    BY <2>2, Quotient, Zenon
  <2>. QED
    BY <2>1, <2>3, SMT
<1>. HIDE DEF m, f
<1>3. f >= 1 /\ m * f <= 30000000 /\ 30000000 < m * f + m /\ m * f >= 29934464
  BY <1>1, <1>2, SMT
<1>4. p \in Nat /\ f * p <= 1000000000 /\ 1000000000 < f * p + f
  <2>1. NsPerSecond = 1000000000 /\ NsPerSecond \in Nat
    BY SMT DEF NsPerSecond
  <2>2. p \in Nat /\ f * p <= NsPerSecond /\ NsPerSecond < f * p + f
    BY <1>2, <1>3, <2>1, Quotient, SMT
  <2>. QED
    BY <2>1, <2>2, SMT
<1>. HIDE DEF p
<1>5. 3 * p <= 101 * m
  <2>1. SUFFICES ASSUME 101 * m <= 3 * p PROVE FALSE
    BY <1>1, <1>4, SMT
  <2>2. (101 * m) * f <= (3 * p) * f
    BY <2>1, <1>1, <1>2, <1>4, Monotone
  <2>. DEFINE fp == f * p
              mf == m * f
  <2>3. /\ fp \in Nat /\ mf \in Nat /\ mf >= 29934464 /\ fp <= 1000000000
        /\ (3 * p) * f = 3 * fp /\ (101 * m) * f = 101 * mf
    BY <1>1, <1>2, <1>3, <1>4, SMT
  <2>4. 101 * mf <= 3 * fp
    BY <2>2, <2>3, SMT
  <2>. HIDE DEF fp, mf
  <2>. QED
    BY <2>3, <2>4, SMT
<1>6. 3 * p >= 99 * m
  <2>1. CASE m = 1
    <3>1. f = 30000000
      BY <2>1, <1>2, SMT
    <3>. QED
      BY <2>1, <3>1, <1>4, SMT
  <2>2. CASE m >= 2
    <3>1. SUFFICES ASSUME 3 * p + 3 <= 100 * m PROVE FALSE
      BY <2>2, <1>1, <1>4, SMT
    <3>2. (3 * p + 3) * f <= (100 * m) * f
      BY <3>1, <1>1, <1>2, <1>4, Monotone
    <3>. DEFINE fp == f * p
                mf == m * f
    <3>3. /\ fp \in Nat /\ mf \in Nat /\ mf <= 30000000 /\ 1000000000 < fp + f
          /\ (3 * p + 3) * f = 3 * fp + 3 * f /\ (100 * m) * f = 100 * mf
      BY <1>1, <1>2, <1>3, <1>4, SMT
    <3>4. 3 * fp + 3 * f <= 100 * mf
      BY <3>2, <3>3, SMT
    <3>. HIDE DEF fp, mf
    <3>. QED
      BY <3>3, <3>4, <1>2, SMT
  <2>. QED
    BY <1>1, <2>1, <2>2, SMT
<1>7. p <= 2147483647
  BY <1>1, <1>4, <1>5, SMT
<1>8. ActualPeriod(d) = p
  BY SMT DEF ActualPeriod, ActualFrequency, p, f, m
<1>. QED
  BY <1>1, <1>4, <1>5, <1>6, <1>7, <1>8, SMT DEF TruePeriod, Int32, m

-----------------------------------------------------------------------------
(* The bytes of a request. *)

LEMMA Concatenation ==
    ASSUME NEW s \in Seq(Int), NEW t \in Seq(Int)
    PROVE  /\ s \o t \in Seq(Int) /\ Len(s \o t) = Len(s) + Len(t)
           /\ \A j \in 1 .. Len(s) : (s \o t)[j] = s[j]
           /\ \A j \in 1 .. Len(t) : (s \o t)[Len(s) + j] = t[j]
  OBVIOUS

LEMMA PrefixOf ==
    ASSUME NEW s \in Seq(Int), NEW m \in Nat, m <= Len(s)
    PROVE  /\ SubSeq(s, 1, m) \in Seq(Int) /\ Len(SubSeq(s, 1, m)) = m
           /\ \A j \in 1 .. m : SubSeq(s, 1, m)[j] = s[j]
  OBVIOUS

LEMMA RestOf ==
    ASSUME NEW s \in Seq(Int), NEW m \in Nat, 1 <= m, m <= Len(s)
    PROVE  /\ SubSeq(s, m + 1, Len(s)) \in Seq(Int) /\ Len(SubSeq(s, m + 1, Len(s))) = Len(s) - m
           /\ \A j \in 1 .. Len(s) - m : SubSeq(s, m + 1, Len(s))[j] = s[j + m]
  OBVIOUS

LEMMA EncodeBytes ==
    ASSUME NEW n \in Int32
    PROVE  Encode(n) \in Seq(Int) /\ Len(Encode(n)) = 4
<1>1. n \in Int
  BY SMT DEF Int32
<1>. QED
  BY <1>1, SMT DEF Encode

LEMMA VectorBytes ==
    ASSUME NEW n \in Int
    PROVE  /\ BytesFor(n) \in Nat
           /\ Tms(n) \in Seq(Int) /\ Len(Tms(n)) = BytesFor(n)
           /\ Tdi(n) \in Seq(Int) /\ Len(Tdi(n)) = BytesFor(n)
<1>1. BytesFor(n) \in Nat
  BY DEF BytesFor
<1>2. \A k \in 1 .. BytesFor(n) : k \in Int /\ 64 + k \in Int
  BY <1>1
<1>. QED
  BY <1>1, <1>2 DEF Tms, Tdi

\* What the handler looks at in the bytes b of a command with the argument n.
GetinfoShape(b) == b \in Seq(Int) /\ Len(b) = 8 /\ b[1] = 103 /\ b[2] = 101

SettckShape(b, n) ==
    /\ b \in Seq(Int) /\ Len(b) = 11 /\ b[1] = 115 /\ b[2] = 101
    /\ \A j \in 1 .. 4 : b[7 + j] = Encode(n)[j]

ShiftShape(b, n) ==
    /\ b \in Seq(Int) /\ Len(b) = 10 + 2 * BytesFor(n)
    /\ b[1] = 115 /\ b[2] = 104 /\ b[5] = 116
    /\ \A j \in 1 .. 4 : b[6 + j] = Encode(n)[j]
    /\ \A j \in 1 .. BytesFor(n) : b[10 + j] = Tms(n)[j] /\ b[10 + BytesFor(n) + j] = Tdi(n)[j]

LEMMA GetinfoBytes == GetinfoShape(Getinfo)
  BY DEF GetinfoShape, Getinfo

LEMMA SettckBytes ==
    ASSUME NEW n \in Int32
    PROVE  SettckShape(Settck \o Encode(n), n)
<1>1. Settck \in Seq(Int) /\ Len(Settck) = 7 /\ Settck[1] = 115 /\ Settck[2] = 101
  BY DEF Settck
<1>. DEFINE e == Encode(n)
            b == Settck \o e
<1>2. e \in Seq(Int) /\ Len(e) = 4
  BY EncodeBytes
<1>. HIDE DEF e
<1>3. /\ b \in Seq(Int) /\ Len(b) = Len(Settck) + Len(e)
      /\ \A j \in 1 .. Len(Settck) : b[j] = Settck[j]
      /\ \A j \in 1 .. Len(e) : b[Len(Settck) + j] = e[j]
  <2>1. Settck \in Seq(Int) /\ e \in Seq(Int)
    BY <1>1, <1>2
  <2>. QED
    BY <2>1, Concatenation, Zenon
<1>. HIDE DEF b
<1>4. Len(b) = 11 /\ b[1] = 115 /\ b[2] = 101 /\ \A j \in 1 .. 4 : b[7 + j] = e[j]
  BY <1>1, <1>2, <1>3
<1>. QED
  BY <1>3, <1>4 DEF SettckShape, b, e

LEMMA ShiftBytes ==
    ASSUME NEW n \in Int32
    PROVE  ShiftShape(ShiftNew \o Encode(n) \o Tms(n) \o Tdi(n), n)
<1>. DEFINE N == BytesFor(n)
            e == Encode(n)
            h == ShiftNew \o e
            v == h \o Tms(n)
            b == v \o Tdi(n)
<1>1. ShiftNew \in Seq(Int) /\ Len(ShiftNew) = 6 /\ ShiftNew[1] = 115 /\ ShiftNew[2] = 104 /\ ShiftNew[5] = 116
  BY DEF ShiftNew
<1>2. n \in Int /\ e \in Seq(Int) /\ Len(e) = 4
  <2>1. n \in Int
    BY SMT DEF Int32
  <2>. QED
    BY <2>1, EncodeBytes
<1>3. N \in Nat /\ Tms(n) \in Seq(Int) /\ Tdi(n) \in Seq(Int) /\ Len(Tms(n)) = N /\ Len(Tdi(n)) = N
  BY <1>2, VectorBytes, Zenon
<1>. HIDE DEF N, e
<1>4. /\ h \in Seq(Int) /\ Len(h) = Len(ShiftNew) + Len(e)
      /\ \A j \in 1 .. Len(ShiftNew) : h[j] = ShiftNew[j]
      /\ \A j \in 1 .. Len(e) : h[Len(ShiftNew) + j] = e[j]
  <2>1. ShiftNew \in Seq(Int) /\ e \in Seq(Int)
    BY <1>1, <1>2
  <2>. QED
    BY <2>1, Concatenation, Zenon
<1>. HIDE DEF h
<1>5. /\ v \in Seq(Int) /\ Len(v) = Len(h) + Len(Tms(n))
      /\ \A j \in 1 .. Len(h) : v[j] = h[j]
      /\ \A j \in 1 .. Len(Tms(n)) : v[Len(h) + j] = Tms(n)[j]
  <2>1. h \in Seq(Int) /\ Tms(n) \in Seq(Int)
    BY <1>3, <1>4
  <2>. QED
    BY <2>1, Concatenation, Zenon
<1>. HIDE DEF v
<1>6. /\ b \in Seq(Int) /\ Len(b) = Len(v) + Len(Tdi(n))
      /\ \A j \in 1 .. Len(v) : b[j] = v[j]
      /\ \A j \in 1 .. Len(Tdi(n)) : b[Len(v) + j] = Tdi(n)[j]
  <2>1. v \in Seq(Int) /\ Tdi(n) \in Seq(Int)
    BY <1>3, <1>5
  <2>. QED
    BY <2>1, Concatenation, Zenon
<1>. HIDE DEF b
<1>7. Len(h) = 10 /\ Len(v) = 10 + N /\ Len(b) = 10 + 2 * N
  BY <1>1, <1>2, <1>3, <1>4, <1>5, <1>6
<1>8. ASSUME NEW j \in 1 .. 10
      PROVE  b[j] = h[j]
  <2>1. j \in 1 .. Len(h) /\ j \in 1 .. Len(v)
    BY <1>3, <1>7
  <2>. QED
    BY <2>1, <1>5, <1>6
<1>9. b[1] = 115 /\ b[2] = 104 /\ b[5] = 116 /\ \A j \in 1 .. 4 : b[6 + j] = e[j]
  <2>1. h[1] = 115 /\ h[2] = 104 /\ h[5] = 116
    BY <1>1, <1>4
  <2>2. \A j \in 1 .. 4 : h[6 + j] = e[j]
    BY <1>1, <1>2, <1>4
  <2>. QED
    BY <2>1, <2>2, <1>8
<1>10. ASSUME NEW j \in 1 .. N
       PROVE  b[10 + j] = Tms(n)[j] /\ b[10 + N + j] = Tdi(n)[j]
  <2>1. b[10 + j] = v[10 + j] /\ v[10 + j] = Tms(n)[j]
    <3>1. j \in Nat /\ 10 + j \in 1 .. Len(v) /\ j \in 1 .. Len(Tms(n))
      BY <1>3, <1>7
    <3>2. v[Len(h) + j] = Tms(n)[j]
      BY <3>1, <1>5
    <3>. QED
      BY <3>1, <3>2, <1>6, <1>7
  <2>2. j \in 1 .. Len(Tdi(n)) /\ Len(v) + j = 10 + N + j
    BY <1>3, <1>7
  <2>. QED
    BY <2>1, <2>2, <1>6
<1>. QED
  BY <1>6, <1>7, <1>9, <1>10 DEF ShiftShape, b, v, h, N, e

\* A request is one of the three, and its bytes have the shape of its command.
LEMMA RequestBytes ==
    ASSUME NewForm, NEW r \in Requests
    PROVE  /\ r.op \in {"getinfo", "settck", "shift"} /\ r.arg \in Int32 /\ r = [op |-> r.op, arg |-> r.arg]
           /\ r.op = "getinfo" => GetinfoShape(Bytes(r))
           /\ r.op = "settck" => SettckShape(Bytes(r), r.arg)
           /\ r.op = "shift" => ShiftShape(Bytes(r), r.arg)
           /\ Bytes(r) \in Seq(Int) /\ Len(Bytes(r)) >= 2
<1>1. 0 \in Int32
  BY SMT DEF Int32
<1>2. \/ r = [op |-> "getinfo", arg |-> 0]
      \/ r \in [op : {"settck"}, arg : Periods]
      \/ r \in [op : {"shift"}, arg : Lengths]
  BY DEF Requests, NewForm
<1>3. CASE r = [op |-> "getinfo", arg |-> 0]
  <2>1. r.op = "getinfo" /\ r.arg = 0 /\ Bytes(r) = Getinfo
    BY <1>3 DEF Bytes
  <2>2. GetinfoShape(Bytes(r))
    BY <2>1, GetinfoBytes
  <2>3. Bytes(r) \in Seq(Int) /\ Len(Bytes(r)) >= 2
    BY <2>2 DEF GetinfoShape
  <2>. QED
    BY <1>1, <1>3, <2>1, <2>2, <2>3
<1>4. CASE r \in [op : {"settck"}, arg : Periods]
  <2>1. r.op = "settck" /\ r.arg \in Int32 /\ r = [op |-> r.op, arg |-> r.arg]
    BY <1>4, FramingAssumption
  <2>2. SettckShape(Bytes(r), r.arg)
    BY <2>1, SettckBytes DEF Bytes
  <2>3. Bytes(r) \in Seq(Int) /\ Len(Bytes(r)) >= 2
    BY <2>2 DEF SettckShape
  <2>. QED
    BY <2>1, <2>2, <2>3
<1>5. CASE r \in [op : {"shift"}, arg : Lengths]
  <2>1. r.op = "shift" /\ r.arg \in Int32 /\ r = [op |-> r.op, arg |-> r.arg]
    BY <1>5, FramingAssumption
  <2>2. ShiftShape(Bytes(r), r.arg)
    BY <2>1, ShiftBytes DEF Bytes
  <2>3. BytesFor(r.arg) \in Nat
    <3>1. r.arg \in Int
      BY <2>1, SMT DEF Int32
    <3>. QED
      BY <3>1, VectorBytes
  <2>4. Bytes(r) \in Seq(Int) /\ Len(Bytes(r)) >= 2
    BY <2>2, <2>3 DEF ShiftShape
  <2>. QED
    BY <2>1, <2>2, <2>4
<1>. QED
  BY <1>2, <1>3, <1>4, <1>5

-----------------------------------------------------------------------------
(* The command that is being read. *)

\* The lengths that the layout is about.
LEMMA Lengthwise ==
    ASSUME IType
    PROVE  /\ Len(requests) \in Nat /\ Len(answers) \in Nat /\ Len(stream) \in Nat
           /\ Len(answers) <= Len(requests) /\ Current \in 1 .. Len(requests) + 1
<1>1. /\ requests \in Seq(Requests) /\ answers \in Seq(AnswerType) /\ stream \in Seq(Int)
      /\ Len(answers) <= Len(requests)
  BY DEF IType
<1>2. Len(requests) \in Nat /\ Len(answers) \in Nat /\ Len(stream) \in Nat
  BY <1>1, LenProperties
<1>. QED
  BY <1>1, <1>2 DEF Current

\* The current request, when there is one.
LEMMA CurrentRequest ==
    ASSUME IType, Current <= Len(requests)
    PROVE  Current \in 1 .. Len(requests) /\ requests[Current] \in Requests
<1>1. Current \in 1 .. Len(requests)
  BY Lengthwise
<1>2. requests \in Seq(Requests)
  BY DEF IType
<1>. QED
  BY <1>1, <1>2

\* The four bytes at from hold n: that is what xvc_get_int32 returns.
LEMMA FieldRead ==
    ASSUME NEW n \in Int32, NEW from \in Nat,
           \A j \in 1 .. 4 : cmd_buf[from + (j - 1)] = Encode(n)[j]
    PROVE  xvc_get_int32(from) = n
<1>1. n \in Int
  BY SMT DEF Int32
<1>2. /\ cmd_buf[from] = n % 256 /\ cmd_buf[from + 1] = (n \div 256) % 256
      /\ cmd_buf[from + 2] = (n \div 65536) % 256 /\ cmd_buf[from + 3] = (n \div 16777216) % 256
  <2>1. cmd_buf[from] = Encode(n)[1] /\ cmd_buf[from + 1] = Encode(n)[2]
        /\ cmd_buf[from + 2] = Encode(n)[3] /\ cmd_buf[from + 3] = Encode(n)[4]
    BY SMT
  <2>. QED
    BY <2>1, <1>1, SMT DEF Encode
<1>. QED
  BY <1>1, <1>2, FourBytes, SMT DEF xvc_get_int32

\* Once the length field is read, len is the length of the request.
LEMMA LengthRead ==
    ASSUME NewForm, IType, InCommand, Buffered,
           pc = "data" \/ (pc = "length" /\ got = 4)
    PROVE  len = requests[Current].arg /\ len \in Int32
<1>. DEFINE r == requests[Current]
<1>1. r.op = "shift" /\ r \in Requests
  BY CurrentRequest DEF InCommand
<1>2. ShiftShape(CurrentBytes, r.arg) /\ r.arg \in Int32
  BY <1>1, RequestBytes DEF CurrentBytes
<1>3. \A j \in 1 .. 10 : cmd_buf[j - 1] = CurrentBytes[j]
  BY DEF Buffered, Stored, Taken, Before
<1>. HIDE DEF r
<1>4. ASSUME NEW j \in 1 .. 4 PROVE cmd_buf[6 + (j - 1)] = Encode(r.arg)[j]
  <2>1. j \in Int /\ 6 + j \in 1 .. 10 /\ (6 + j) - 1 = 6 + (j - 1)
    OBVIOUS
  <2>2. cmd_buf[(6 + j) - 1] = CurrentBytes[6 + j]
    BY <2>1, <1>3
  <2>3. CurrentBytes[6 + j] = Encode(r.arg)[j]
    BY <1>2 DEF ShiftShape
  <2>. QED
    BY <2>1, <2>2, <2>3
<1>5. len = r.arg
  BY <1>2, <1>4, FieldRead, 6 \in Nat DEF len
<1>. QED
  BY <1>2, <1>5 DEF r

\* nr_bytes is the vector's size, for the lengths that have one.
LEMMA Sizes ==
    ASSUME NEW n \in Int32
    PROVE  /\ SizeOf(n) \in Int /\ BytesFor(n) \in Nat
           /\ n <= 0 => SizeOf(n) <= 0 /\ BytesFor(n) = 0
           /\ n > 0 /\ SizeOf(n) >= 0 => SizeOf(n) = BytesFor(n) /\ SizeOf(n) >= 1
           /\ n > 0 /\ SizeOf(n) < 0 => ~(BytesFor(n) <= max_vector_size)
<1>1. n \in Int /\ n <= 2147483647
  BY SMT DEF Int32
<1>2. max_vector_size \in Int /\ max_vector_size <= 262144
  BY FramingAssumption
<1>3. CASE n <= 0
  BY <1>1, <1>3, SMT DEF SizeOf, Eighth, PlusSeven, BytesFor
<1>4. CASE n > 0 /\ n <= 2147483640
  BY <1>1, <1>4, SMT DEF SizeOf, Eighth, PlusSeven, BytesFor
<1>5. CASE n > 2147483640
  <2>1. SizeOf(n) \in Int /\ SizeOf(n) < 0
    BY <1>1, <1>5, SMT DEF SizeOf, Eighth, PlusSeven
  <2>2. BytesFor(n) \in Nat /\ BytesFor(n) > 262144
    BY <1>1, <1>5, SMT DEF BytesFor
  <2>. QED
    BY <1>1, <1>2, <1>5, <2>1, <2>2, SMT
<1>. QED
  BY <1>1, <1>3, <1>4, <1>5, SMT

\* A vector without a size, or with one that is too large, has no right answer.
LEMMA Refused ==
    ASSUME NEW r, r.op = "shift", r.arg <= 0 \/ ~(BytesFor(r.arg) <= max_vector_size), r.arg \in Int
    PROVE  RightAnswers(r) = {}
  BY DEF RightAnswers

\* What follows for the vector that is read.
LEMMA SizeRead ==
    ASSUME NewForm, IType, InCommand, Buffered,
           pc = "data" \/ (pc = "length" /\ got = 4)
    PROVE  /\ len = requests[Current].arg /\ len \in Int /\ nr_bytes = SizeOf(requests[Current].arg)
           /\ nr_bytes \in Int /\ VectorLength \in Nat
           /\ BytesFor(requests[Current].arg) \in Nat
           /\ VectorLength <= 2 * BytesFor(requests[Current].arg)
           /\ len > 0 /\ nr_bytes >= 0 => /\ nr_bytes = BytesFor(requests[Current].arg) /\ nr_bytes >= 1
                                         /\ VectorLength = 2 * nr_bytes
           /\ ~(len > 0 /\ 0 <= nr_bytes /\ nr_bytes <= max_vector_size) => RightAnswers(requests[Current]) = {}
<1>1. PICK n : n = requests[Current].arg
  OBVIOUS
<1>2. len = n /\ n \in Int32
  BY <1>1, LengthRead
<1>3. n \in Int
  BY <1>2, SMT DEF Int32
<1>4. nr_bytes = SizeOf(n)
  BY <1>2 DEF nr_bytes, SizeOf
<1>5. PICK m : m = SizeOf(n)
  OBVIOUS
<1>6. PICK b : b = BytesFor(n)
  OBVIOUS
<1>7. /\ m \in Int /\ b \in Nat /\ (n <= 0 => m <= 0 /\ b = 0) /\ (n > 0 /\ m >= 0 => m = b /\ m >= 1)
      /\ (n > 0 /\ m < 0 => ~(b <= max_vector_size))
  BY <1>2, <1>5, <1>6, Sizes
<1>8. VectorLength = IF m > 0 THEN 2 * m ELSE 0
  BY <1>4, <1>5 DEF VectorLength
<1>9. VectorLength \in Nat /\ VectorLength <= 2 * b
  BY <1>3, <1>7, <1>8
<1>10. n > 0 /\ m >= 0 => m = b /\ m >= 1 /\ VectorLength = 2 * m
  BY <1>3, <1>7, <1>8
<1>11. ASSUME ~(n > 0 /\ 0 <= m /\ m <= max_vector_size)
       PROVE  RightAnswers(requests[Current]) = {}
  <2>1. requests[Current].op = "shift"
    BY DEF InCommand
  <2>2. n <= 0 \/ ~(b <= max_vector_size)
    BY <1>3, <1>7, <1>11
  <2>. QED
    BY <1>1, <1>3, <1>6, <2>1, <2>2, Refused
<1>. QED
  BY <1>1, <1>2, <1>3, <1>4, <1>5, <1>6, <1>7, <1>9, <1>10, <1>11

\* No read goes past the end of the command, and the last one ends with it.
LEMMA ReadsWithin ==
    ASSUME NewForm, IType, InCommand, Buffered, pc \notin {"closed", "crashed"}, Current <= Len(requests)
    PROVE  /\ Wanted \in Nat /\ Before \in Nat /\ Before + Wanted <= Len(CurrentBytes)
           /\ pc \in {"getinfo", "settck"} \/ (pc = "data" /\ len > 0 /\ nr_bytes >= 0) =>
                Before + Wanted = Len(CurrentBytes)
<1>. DEFINE r == requests[Current]
<1>1. r \in Requests
  BY CurrentRequest
<1>2. Len(Bytes(r)) \in Nat /\ Len(Bytes(r)) >= 2
  BY <1>1, RequestBytes
<1>3. CASE pc = "cmd"
  BY <1>2, <1>3 DEF Wanted, Before, CurrentBytes
<1>4. CASE pc = "getinfo"
  <2>1. GetinfoShape(CurrentBytes)
    BY <1>1, <1>4, RequestBytes DEF InCommand, CurrentBytes
  <2>. QED
    BY <1>4, <2>1 DEF Wanted, Before, GetinfoShape
<1>5. CASE pc = "settck"
  <2>1. SettckShape(CurrentBytes, r.arg)
    BY <1>1, <1>5, RequestBytes DEF InCommand, CurrentBytes
  <2>. QED
    BY <1>5, <2>1 DEF Wanted, Before, SettckShape
<1>6. CASE pc \in {"shift", "length", "data"}
  <2>1. ShiftShape(CurrentBytes, r.arg) /\ r.arg \in Int32
    BY <1>1, <1>6, RequestBytes DEF InCommand, CurrentBytes
  <2>2. BytesFor(r.arg) \in Nat
    <3>1. r.arg \in Int
      BY <2>1, SMT DEF Int32
    <3>. QED
      BY <3>1, VectorBytes
  <2>3. Len(CurrentBytes) = 10 + 2 * BytesFor(r.arg)
    BY <2>1 DEF ShiftShape
  <2>4. CASE pc \in {"shift", "length"}
    BY <2>2, <2>3, <2>4 DEF Wanted, Before
  <2>5. CASE pc = "data"
    <3>1. /\ VectorLength \in Nat /\ VectorLength <= 2 * BytesFor(r.arg)
          /\ len > 0 /\ nr_bytes >= 0 => VectorLength = 2 * BytesFor(r.arg)
      BY <2>5, SizeRead
    <3>. HIDE DEF r
    <3>2. Wanted = VectorLength /\ Before = 10
      BY <2>5 DEF Wanted, Before
    <3>. QED
      BY <2>2, <2>3, <2>5, <3>1, <3>2
  <2>. QED
    BY <1>6, <2>4, <2>5
<1>. QED
  BY <1>3, <1>4, <1>5, <1>6 DEF IType

\* The next bytes of the stream are the next bytes of the current command.
LEMMA StreamIsCurrent ==
    ASSUME NewForm, IType, NEW off, Layout(off), Current <= Len(requests), Taken \in Nat,
           NEW j \in Nat, 1 <= j, Taken + j <= Len(CurrentBytes)
    PROVE  j <= Len(stream) /\ stream[j] = CurrentBytes[Taken + j]
<1>1. Current \in Current .. Len(requests) /\ Current \in 1 .. Len(requests) + 1 /\ off[Current] = -Taken
  BY DEF IType, Layout, Current
<1>2. Len(CurrentBytes) \in Nat
  BY CurrentRequest, RequestBytes DEF CurrentBytes
<1>3. Taken + j \in 1 .. Len(CurrentBytes)
  BY <1>2
<1>4. off[Current] + (Taken + j) = j
  BY <1>1
<1>5. \A i \in 1 .. Len(CurrentBytes) :
         off[Current] + i >= 1 => off[Current] + i <= Len(stream) /\ stream[off[Current] + i] = CurrentBytes[i]
  BY <1>1, Zenon DEF Layout, CurrentBytes
<1>6. off[Current] + (Taken + j) >= 1
  BY <1>4
<1>. DEFINE i == Taken + j
<1>. HIDE DEF i
<1>7. i \in 1 .. Len(CurrentBytes) /\ off[Current] + i >= 1 /\ off[Current] + i = j
  BY <1>3, <1>4, <1>6 DEF i
<1>8. j <= Len(stream) /\ stream[j] = CurrentBytes[i]
  BY <1>5, <1>7, Zenon
<1>. QED
  BY <1>8 DEF i

\* Bytes in the stream belong to a request.
LEMMA StreamHasRequest ==
    ASSUME IType, NEW off, Layout(off), Taken \in Nat, Len(stream) >= 1
    PROVE  Current <= Len(requests)
<1>1. SUFFICES ASSUME Current = Len(requests) + 1 PROVE FALSE
  BY Lengthwise
<1>2. Len(stream) = -Taken
  BY <1>1 DEF Layout
<1>. QED
  BY <1>2, Lengthwise

\* No step of one command takes the stream away from it: what is common to every
\* state with a command under way.
LEMMA UnderWay ==
    ASSUME NewForm, IInv, pc \notin {"closed", "crashed"}
    PROVE  /\ IType /\ InCommand /\ Buffered
           /\ got \in Nat /\ Before \in Nat /\ Taken \in Nat /\ Taken = Before + got
           /\ \E off : Layout(off)
<1>1. IType /\ InCommand /\ Buffered /\ \E off : Layout(off)
  BY DEF IInv, Tracks, Open
<1>2. got \in Nat
  BY <1>1 DEF IType
<1>3. Before \in Nat
  BY DEF Before
<1>. QED
  BY <1>1, <1>2, <1>3 DEF Taken

-----------------------------------------------------------------------------
(* The three ways from one read to the next, or to the end. *)

\* On to the next read of the same command.
LEMMA GoStep ==
    ASSUME NewForm, IInv, pc \in {"cmd", "shift", "length"}, Current <= Len(requests),
           NEW next \in {"getinfo", "settck", "shift", "length", "data"}, Go(next),
           UNCHANGED <<answers, divisor, faults, frequency>>, Before' = Taken,
           next \in {"getinfo", "settck"} => requests[Current].op = next,
           next \in {"shift", "length", "data"} => requests[Current].op = "shift",
           next = "data" => VectorLength \in Nat /\ SizeOf(requests[Current].arg) <= max_vector_size
    PROVE  IInv'
<1>1. /\ requests' = requests /\ stream' = stream /\ eof' = eof /\ cmd_buf' = cmd_buf /\ vector_buf' = vector_buf
      /\ pc' = next /\ got' = 0 /\ answers' = answers /\ divisor' = divisor /\ faults' = faults
      /\ frequency' = frequency /\ pc' \notin {"closed", "crashed"}
  BY DEF Go
<1>2. IType'
  BY <1>1 DEF IInv, IType, AnswerType
<1>3. Current' = Current /\ CurrentBytes' = CurrentBytes
  BY <1>1 DEF Current, CurrentBytes
<1>4. Taken' = Taken
  BY <1>1, UnderWay DEF Taken
<1>5. InCommand'
  BY <1>1, <1>3 DEF InCommand
<1>6. Buffered'
  <2>1. \A j \in 1 .. Taken : cmd_buf[j - 1] = CurrentBytes[j]
    BY UnderWay DEF Buffered, Stored
  <2>2. Stored' = Taken
    BY <1>1, <1>4 DEF Stored, Before
  <2>3. pc' = "data" => got' <= Len(vector_buf') /\ \A j \in 1 .. got' : vector_buf'[j] = CurrentBytes'[10 + j]
    BY <1>1, UnderWay DEF IType
  <2>. QED
    BY <1>1, <1>3, <2>1, <2>2, <2>3 DEF Buffered
<1>7. (\E off : Layout(off))'
  <2>1. PICK off : Layout(off)
    BY UnderWay
  <2>2. Layout(off)'
    BY <2>1, <1>1, <1>3, <1>4 DEF Layout
  <2>. QED
    BY <2>2
<1>8. NeverLosesItsPlace' /\ TckTruthful'
  BY <1>1 DEF IInv, NeverLosesItsPlace, TckTruthful, Open
<1>9. got' \in 0 .. Wanted'
  <2>1. VectorLength' = VectorLength
    BY <1>1 DEF VectorLength, nr_bytes, len, xvc_get_int32
  <2>2. Wanted' \in Nat
    BY <1>1, <2>1 DEF Wanted
  <2>. QED
    BY <1>1, <2>2
<1>. QED
  BY <1>2, <1>5, <1>6, <1>7, <1>8, <1>9 DEF IInv, Tracks

\* The connection ends.
LEMMA CloseStep ==
    ASSUME NewForm, IInv, NEW end \in {"closed", "crashed"}, Go(end), UNCHANGED <<answers, frequency>>,
           divisor' \in 0 .. MaxDivisor, faults' \in 0 .. MaxFaults,
           eof \/ faults' # 0 \/ (Current <= Len(requests) /\ RightAnswers(requests[Current]) = {})
    PROVE  IInv'
<1>1. /\ requests' = requests /\ stream' = stream /\ eof' = eof /\ cmd_buf' = cmd_buf /\ vector_buf' = vector_buf
      /\ pc' \in {"closed", "crashed"} /\ got' = 0 /\ answers' = answers /\ frequency' = frequency
  BY DEF Go
<1>2. IType'
  BY <1>1 DEF IInv, IType, AnswerType
<1>3. NeverLosesItsPlace'
  <2>1. IType
    BY DEF IInv
  <2>2. Current <= Len(requests) => Len(requests) > Len(answers)
    BY <2>1, Lengthwise DEF Current
  <2>. QED
    BY <1>1, <2>2 DEF NeverLosesItsPlace, Open, Current, RightAnswers
<1>4. TckTruthful' /\ got' \in 0 .. Wanted'
  BY <1>1 DEF TckTruthful, Open, Wanted
<1>. QED
  BY <1>1, <1>2, <1>3, <1>4 DEF IInv, Open

\* The command is answered and the next one is read.
LEMMA AnswerStep ==
    ASSUME NewForm, IInv, pc \in {"getinfo", "settck", "data"}, got = Wanted,
           pc = "data" => len > 0 /\ nr_bytes >= 0,
           NEW a \in AnswerType, answers' = Append(answers, a), Go("cmd"), UNCHANGED frequency,
           divisor' \in 0 .. MaxDivisor, faults' \in 0 .. MaxFaults,
           faults' = 0 => (a.op = "settck" => TruePeriod(Decode(a.bytes), divisor'))
    PROVE  IInv'
<1>1. /\ requests' = requests /\ stream' = stream /\ eof' = eof /\ cmd_buf' = cmd_buf /\ vector_buf' = vector_buf
      /\ pc' = "cmd" /\ got' = 0 /\ frequency' = frequency
  BY DEF Go
<1>2. IType /\ InCommand /\ Buffered /\ Current <= Len(requests) /\ Current \in 1 .. Len(requests)
  BY UnderWay, CurrentRequest DEF InCommand
<1>3. answers \in Seq(AnswerType) /\ answers' \in Seq(AnswerType) /\ Len(answers') = Len(answers) + 1
      /\ answers'[Len(answers')] = a
  BY <1>2 DEF IType
<1>4. Current' = Current + 1 /\ Len(answers') <= Len(requests')
  BY <1>1, <1>2, <1>3, Lengthwise DEF Current
<1>5. IType'
  BY <1>1, <1>2, <1>3, <1>4 DEF IType, AnswerType
<1>6. Taken = Len(CurrentBytes)
  BY <1>2, UnderWay, ReadsWithin
<1>7. Taken' = 0 /\ Stored' = 0
  BY <1>1 DEF Taken, Before, Stored
<1>8. InCommand' /\ Buffered'
  BY <1>1, <1>7 DEF InCommand, Buffered
<1>9. (\E off : Layout(off))'
  <2>1. PICK off : Layout(off)
    BY UnderWay
  <2>2. off[Current + 1] = 0
    <3>1. Len(CurrentBytes) \in Nat /\ Current \in Current .. Len(requests)
      BY <1>2, CurrentRequest, RequestBytes DEF CurrentBytes
    <3>2. off[Current] = -Len(CurrentBytes) /\ off[Current + 1] = off[Current] + Len(CurrentBytes)
      BY <1>6, <2>1, <3>1 DEF Layout, CurrentBytes
    <3>. QED
      BY <3>1, <3>2
  <2>3. (Current + 1) .. Len(requests) \subseteq Current .. Len(requests)
    BY <1>2
  <2>4. off[Current'] = -Taken'
    BY <2>2, <1>4, <1>7
  <2>5. \A k \in (Current + 1) .. Len(requests) :
          /\ off[k + 1] = off[k] + Len(Bytes(requests[k]))
          /\ \A j \in 1 .. Len(Bytes(requests[k])) :
               off[k] + j >= 1 => /\ off[k] + j <= Len(stream)
                                  /\ stream[off[k] + j] = Bytes(requests[k])[j]
    BY <2>1, <2>3, Zenon DEF Layout
  <2>6. off \in [1 .. Len(requests) + 1 -> Int] /\ off[Len(requests) + 1] = Len(stream)
    BY <2>1 DEF Layout
  <2>7. Layout(off)'
    BY <2>4, <2>5, <2>6, <1>1, <1>4 DEF Layout
  <2>. QED
    BY <2>7
<1>10. NeverLosesItsPlace' /\ TckTruthful' /\ got' \in 0 .. Wanted'
  BY <1>1, <1>3 DEF NeverLosesItsPlace, TckTruthful, Open, Last, Wanted
<1>. QED
  BY <1>5, <1>8, <1>9, <1>10 DEF IInv, Tracks

-----------------------------------------------------------------------------
(* The steps. *)

\* The client appends a request: its bytes are laid out behind the others.
LEMMA SendStep ==
    ASSUME NewForm, IInv, Send, UNCHANGED frequency
    PROVE  IInv'
<1>1. PICK r \in Requests : requests' = Append(requests, r) /\ stream' = stream \o Bytes(r)
  BY DEF Send
<1>2. /\ eof' = eof /\ pc' = pc /\ got' = got /\ cmd_buf' = cmd_buf /\ vector_buf' = vector_buf
      /\ answers' = answers /\ divisor' = divisor /\ faults' = faults /\ frequency' = frequency /\ ~eof
  BY DEF Send
<1>3. IType /\ requests \in Seq(Requests) /\ stream \in Seq(Int) /\ Bytes(r) \in Seq(Int)
  BY RequestBytes DEF IInv, IType
<1>. DEFINE n == Len(requests)
            b == Bytes(r)
<1>4. /\ requests' \in Seq(Requests) /\ Len(requests') = n + 1 /\ requests'[n + 1] = r
      /\ \A k \in 1 .. n : requests'[k] = requests[k]
  BY <1>1, <1>3
<1>5. /\ stream' \in Seq(Int) /\ Len(stream') = Len(stream) + Len(b)
      /\ \A j \in 1 .. Len(stream) : stream'[j] = stream[j]
      /\ \A j \in 1 .. Len(b) : stream'[Len(stream) + j] = b[j]
  BY <1>1, <1>3, Concatenation, Zenon
<1>6. n \in Nat /\ Len(answers) \in Nat /\ Len(answers) <= n /\ Len(stream) \in Nat /\ Len(b) \in Nat
      /\ Current \in 1 .. n + 1
  BY <1>3, Lengthwise
<1>. HIDE DEF n, b
<1>7. IType'
  <2>1. Len(answers') <= Len(requests')
    BY <1>2, <1>4, <1>6
  <2>. QED
    BY <1>2, <1>3, <1>4, <1>5, <2>1 DEF IType, AnswerType
<1>8. got' \in 0 .. Wanted' /\ TckTruthful'
  BY <1>2 DEF IInv, TckTruthful, Open, Wanted, VectorLength, nr_bytes, len, xvc_get_int32
<1>9. NeverLosesItsPlace'
  <2>1. SUFFICES ASSUME ~Open, faults = 0
                 PROVE  n + 1 > Len(answers) /\ RightAnswers(requests'[Len(answers) + 1]) = {}
    BY <1>2, <1>4 DEF NeverLosesItsPlace, Open, RightAnswers
  <2>2. n > Len(answers) /\ RightAnswers(requests[Len(answers) + 1]) = {}
    BY <1>2, <2>1 DEF IInv, NeverLosesItsPlace, n
  <2>3. Len(answers) + 1 \in 1 .. n
    BY <1>6, <2>2
  <2>. QED
    BY <1>4, <1>6, <2>2, <2>3
<1>10. ASSUME pc \notin {"closed", "crashed"} PROVE Tracks'
  <2>1. Current' = Current /\ Taken' = Taken /\ Stored' = Stored
    BY <1>2 DEF Current, Taken, Stored, Before
  <2>2. Current <= n => requests'[Current] = requests[Current] /\ CurrentBytes' = CurrentBytes
    BY <1>4, <1>6, <2>1 DEF CurrentBytes
  <2>3. pc # "cmd" => Current <= n
    BY <1>10, UnderWay DEF InCommand, n
  <2>4. InCommand'
    BY <1>2, <1>4, <1>6, <1>10, <2>1, <2>2, <2>3, UnderWay DEF InCommand
  <2>5. PICK off : Layout(off)
    BY <1>10, UnderWay
  <2>6. Taken \in Nat
    BY <1>10, UnderWay
  <2>7. Current > n => Stored = 0
    <3>1. Current > n => off[Current] = Len(stream) /\ off[Current] = -Taken
      BY <2>5, <1>6 DEF Layout, n
    <3>. QED
      BY <3>1, <2>3, <2>6, <1>6 DEF Stored
  <2>8. Buffered'
    BY <1>2, <1>6, <1>10, <2>1, <2>2, <2>3, <2>7, UnderWay DEF Buffered
  <2>9. (\E o : Layout(o))'
    <3>0. PICK o : o = [k \in 1 .. n + 2 |-> IF k <= n + 1 THEN off[k] ELSE Len(stream) + Len(b)]
      OBVIOUS
    <3>1. off \in [1 .. n + 1 -> Int] /\ off[Current] = -Taken /\ off[n + 1] = Len(stream)
      BY <2>5 DEF Layout, n
    <3>2. /\ o \in [1 .. n + 2 -> Int] /\ o[n + 2] = Len(stream) + Len(b)
          /\ \A k \in 1 .. n + 1 : o[k] = off[k]
      BY <1>6, <3>0, <3>1
    <3>3. ASSUME NEW k \in Current .. n + 1
          PROVE  /\ o[k + 1] = o[k] + Len(Bytes(requests'[k]))
                 /\ \A j \in 1 .. Len(Bytes(requests'[k])) :
                      o[k] + j >= 1 => /\ o[k] + j <= Len(stream')
                                       /\ stream'[o[k] + j] = Bytes(requests'[k])[j]
      <4>1. CASE k = n + 1
        <5>1. o[k] = Len(stream) /\ o[k + 1] = Len(stream) + Len(b) /\ Bytes(requests'[k]) = b
          BY <4>1, <1>4, <1>6, <3>1, <3>2 DEF b
        <5>2. ASSUME NEW j \in 1 .. Len(b)
              PROVE  Len(stream) + j <= Len(stream') /\ stream'[Len(stream) + j] = b[j]
          BY <1>5, <1>6
        <5>. QED
          BY <5>1, <5>2
      <4>2. CASE k \in Current .. n
        <5>1. k \in 1 .. n /\ k + 1 \in 1 .. n + 1 /\ k \in 1 .. n + 1
          BY <4>2, <1>6
        <5>2. o[k] = off[k] /\ o[k + 1] = off[k + 1] /\ requests'[k] = requests[k] /\ off[k] \in Int
          BY <5>1, <1>4, <3>1, <3>2
        <5>3. /\ off[k + 1] = off[k] + Len(Bytes(requests[k]))
              /\ \A j \in 1 .. Len(Bytes(requests[k])) :
                   off[k] + j >= 1 => /\ off[k] + j <= Len(stream)
                                      /\ stream[off[k] + j] = Bytes(requests[k])[j]
          BY <2>5, <4>2, Zenon DEF Layout, n
        <5>4. Bytes(requests[k]) \in Seq(Int)
          <6>1. requests[k] \in Requests
            BY <5>1, <1>3 DEF n
          <6>. QED
            BY <6>1, RequestBytes
        <5>5. ASSUME NEW j \in 1 .. Len(Bytes(requests[k])), off[k] + j >= 1
              PROVE  off[k] + j <= Len(stream') /\ stream'[off[k] + j] = Bytes(requests[k])[j]
          <6>1. j \in Int /\ off[k] + j \in 1 .. Len(stream)
            BY <5>2, <5>3, <5>4, <5>5, <1>6
          <6>2. stream'[off[k] + j] = stream[off[k] + j] /\ stream[off[k] + j] = Bytes(requests[k])[j]
            BY <6>1, <5>3, <5>5, <1>5
          <6>. QED
            BY <6>1, <6>2, <1>5, <1>6
        <5>. QED
          BY <5>2, <5>3, <5>5
      <4>. QED
        BY <4>1, <4>2, <1>6
    <3>4. o[Current] = -Taken
      BY <1>6, <3>1, <3>2
    <3>5. o \in [1 .. Len(requests') + 1 -> Int] /\ o[Len(requests') + 1] = Len(stream')
      <4>1. Len(requests') + 1 = n + 2
        BY <1>4, <1>6
      <4>. QED
        BY <4>1, <1>5, <3>2
    <3>6. o[Current'] = -Taken'
      BY <2>1, <3>4
    <3>7. Current' .. Len(requests') = Current .. n + 1
      BY <1>4, <2>1
    <3>8. Layout(o)'
      BY <3>3, <3>5, <3>6, <3>7, Zenon DEF Layout
    <3>. QED
      BY <3>8
  <2>. QED
    BY <2>4, <2>8, <2>9 DEF Tracks
<1>. QED
  BY <1>2, <1>7, <1>8, <1>9, <1>10 DEF IInv, Open

LEMMA HangUpStep ==
    ASSUME NewForm, IInv, HangUp, UNCHANGED frequency
    PROVE  IInv'
<1>1. /\ requests' = requests /\ stream' = stream /\ eof' = TRUE /\ cmd_buf' = cmd_buf /\ vector_buf' = vector_buf
      /\ pc' = pc /\ got' = got /\ answers' = answers /\ divisor' = divisor /\ faults' = faults
      /\ frequency' = frequency
  BY DEF HangUp
<1>2. IType'
  BY <1>1 DEF IInv, IType, AnswerType
<1>3. got' \in 0 .. Wanted' /\ NeverLosesItsPlace' /\ TckTruthful'
  BY <1>1 DEF IInv, NeverLosesItsPlace, TckTruthful, Open, Wanted, VectorLength, nr_bytes, len, xvc_get_int32
<1>4. ASSUME pc \notin {"closed", "crashed"} PROVE Tracks'
  <2>1. InCommand' /\ Buffered'
    BY <1>1, <1>4, UnderWay DEF InCommand, Buffered, Stored, Taken, Before, Current, CurrentBytes
  <2>2. PICK off : Layout(off)
    BY <1>4, UnderWay
  <2>3. Layout(off)'
    BY <1>1, <2>2 DEF Layout, Taken, Before, Current
  <2>. QED
    BY <2>1, <2>3 DEF Tracks
<1>. QED
  BY <1>1, <1>2, <1>3, <1>4 DEF IInv, Open

\* A read takes bytes of the current command only, and puts them where its later
\* bytes are looked for.
LEMMA ReadStep ==
    ASSUME NewForm, IInv, xvc_read_exact, UNCHANGED frequency
    PROVE  IInv'
<1>1. /\ requests' = requests /\ eof' = eof /\ pc' = pc /\ answers' = answers /\ divisor' = divisor
      /\ faults' = faults /\ frequency' = frequency /\ got < Wanted
  BY DEF xvc_read_exact
<1>2. pc \notin {"closed", "crashed"}
  <2>1. SUFFICES ASSUME pc \in {"closed", "crashed"} PROVE FALSE
    OBVIOUS
  <2>2. Wanted = 0 /\ got \in Nat
    BY <2>1 DEF Wanted, IInv, IType
  <2>. QED
    BY <1>1, <2>2
<1>3. PICK r :
        /\ r \in 1 .. Wanted - got /\ r <= Len(stream) /\ got' = got + r /\ stream' = SubSeq(stream, r + 1, Len(stream))
        /\ cmd_buf' = [k \in DOMAIN cmd_buf |-> LET j == k - Offset - got + 1
                                                IN IF j \in 1 .. r THEN stream[j] ELSE cmd_buf[k]]
        /\ vector_buf' = IF pc = "data" THEN SubSeq(vector_buf, 1, got) \o SubSeq(stream, 1, r) ELSE vector_buf
  BY DEF xvc_read_exact
<1>a. r \in 1 .. Wanted - got /\ r <= Len(stream) /\ got' = got + r
  BY <1>3
<1>b. stream' = SubSeq(stream, r + 1, Len(stream))
  BY <1>3
<1>c. cmd_buf' = [k \in DOMAIN cmd_buf |-> LET j == k - Offset - got + 1
                                           IN IF j \in 1 .. r THEN stream[j] ELSE cmd_buf[k]]
  BY <1>3
<1>d. vector_buf' = IF pc = "data" THEN SubSeq(vector_buf, 1, got) \o SubSeq(stream, 1, r) ELSE vector_buf
  BY <1>3
<1>4. /\ IType /\ InCommand /\ Buffered /\ got \in Nat /\ Before \in Nat /\ Taken \in Nat /\ Taken = Before + got
      /\ stream \in Seq(Int) /\ Len(stream) \in Nat /\ cmd_buf \in [0 .. 15 -> Int]
  BY <1>2, UnderWay, Lengthwise DEF IType
<1>e. got \in Nat /\ Before \in Nat /\ Taken \in Nat /\ Taken = Before + got /\ Len(stream) \in Nat
  BY <1>4
<1>5. PICK off : Layout(off)
  BY <1>2, UnderWay
<1>6. Wanted \in Int /\ r \in Nat /\ r >= 1 /\ got + r <= Wanted
  <2>2. Wanted \in Nat
    <3>1. CASE pc = "cmd"
      BY <3>1 DEF Wanted
    <3>2. CASE pc # "cmd"
      BY <1>2, <1>4, <3>2, ReadsWithin DEF InCommand
    <3>. QED
      BY <3>1, <3>2
  <2>. QED
    BY <1>a, <1>e, <2>2
<1>7. Current <= Len(requests)
  <2>1. Len(stream) >= 1
    BY <1>a, <1>e, <1>6
  <2>. QED
    BY <2>1, <1>4, <1>5, StreamHasRequest
<1>8. Before + Wanted <= Len(CurrentBytes) /\ Len(CurrentBytes) \in Nat
  BY <1>2, <1>4, <1>7, ReadsWithin, CurrentRequest, RequestBytes DEF CurrentBytes
<1>9. \A j \in 1 .. r : stream[j] = CurrentBytes[Taken + j]
  <2>1. SUFFICES ASSUME NEW j \in 1 .. r PROVE stream[j] = CurrentBytes[Taken + j]
    OBVIOUS
  <2>2. j \in Nat /\ 1 <= j /\ Taken + j <= Len(CurrentBytes)
    BY <1>e, <1>6, <1>8
  <2>. QED
    BY <2>2, <1>4, <1>5, <1>7, StreamIsCurrent
<1>10. /\ Current' = Current /\ CurrentBytes' = CurrentBytes /\ Before' = Before /\ Taken' = Taken + r
  <2>1. Current' = Current /\ CurrentBytes' = CurrentBytes /\ Before' = Before
    BY <1>1 DEF Current, CurrentBytes, Before
  <2>. QED
    BY <2>1, <1>a, <1>e, <1>6 DEF Taken
<1>11. /\ stream' \in Seq(Int) /\ Len(stream') = Len(stream) - r
       /\ \A j \in 1 .. Len(stream) - r : stream'[j] = stream[j + r]
  <2>1. stream \in Seq(Int) /\ r \in Nat /\ 1 <= r /\ r <= Len(stream)
    BY <1>4, <1>6, <1>a
  <2>. QED
    BY <2>1, <1>b, RestOf
<1>12. \A k \in 0 .. 15 : cmd_buf'[k] = IF k - Offset - got + 1 \in 1 .. r THEN stream[k - Offset - got + 1]
                                        ELSE cmd_buf[k]
  BY <1>4, <1>c
<1>13. cmd_buf' \in [0 .. 15 -> Int]
  <2>1. \A j \in 1 .. r : stream[j] \in Int
    <3>1. stream \in Seq(Int) /\ r <= Len(stream) /\ r \in Nat
      BY <1>4, <1>6, <1>a
    <3>. QED
      BY ONLY <3>1
  <2>. QED
    BY <1>4, <1>c, <2>1
<1>14. pc = "data" => cmd_buf' = cmd_buf /\ Wanted = VectorLength
  <2>1. SUFFICES ASSUME pc = "data" PROVE cmd_buf' = cmd_buf /\ Wanted = VectorLength
    OBVIOUS
  <2>2. Offset = 16
    BY <2>1 DEF Offset
  <2>3. \A k \in 0 .. 15 : cmd_buf'[k] = cmd_buf[k]
    <3>1. SUFFICES ASSUME NEW k \in 0 .. 15 PROVE cmd_buf'[k] = cmd_buf[k]
      OBVIOUS
    <3>2. ~(k - Offset - got + 1 \in 1 .. r)
      BY <1>e, <1>6, <2>2
    <3>. QED
      BY <1>12, <3>2
  <2>4. cmd_buf' = cmd_buf
    <3>1. cmd_buf = [k \in 0 .. 15 |-> cmd_buf[k]] /\ cmd_buf' = [k \in 0 .. 15 |-> cmd_buf'[k]]
      BY <1>4, <1>13, Zenon
    <3>. QED
      BY <2>3, <3>1, Zenon
  <2>. QED
    BY <2>1, <2>4 DEF Wanted
<1>15. Wanted' = Wanted
  <2>1. CASE pc = "data"
    BY <1>1, <1>14, <2>1 DEF Wanted, VectorLength, nr_bytes, len, xvc_get_int32
  <2>2. CASE pc # "data"
    BY <1>1, <2>2 DEF Wanted
  <2>. QED
    BY <2>1, <2>2

<1>16. /\ vector_buf' \in Seq(Int) /\ Len(vector_buf') <= 2 * max_vector_size
       /\ pc = "data" => /\ Len(vector_buf') = got + r
                         /\ \A j \in 1 .. got : vector_buf'[j] = vector_buf[j]
                         /\ \A j \in 1 .. r : vector_buf'[got + j] = stream[j]
  <2>1. vector_buf \in Seq(Int) /\ Len(vector_buf) \in Nat /\ Len(vector_buf) <= 2 * max_vector_size
    BY <1>4 DEF IType
  <2>2. CASE pc # "data"
    BY <1>d, <2>1, <2>2
  <2>3. CASE pc = "data"
    <3>. DEFINE old == SubSeq(vector_buf, 1, got)
                new == SubSeq(stream, 1, r)
    <3>1. got <= Len(vector_buf)
      BY <1>4, <2>3 DEF Buffered
    <3>2. old \in Seq(Int) /\ Len(old) = got /\ \A j \in 1 .. got : old[j] = vector_buf[j]
      BY <1>e, <2>1, <3>1, PrefixOf
    <3>3. new \in Seq(Int) /\ Len(new) = r /\ \A j \in 1 .. r : new[j] = stream[j]
      <4>1. stream \in Seq(Int) /\ r \in Nat /\ r <= Len(stream)
        BY <1>4, <1>6, <1>a
      <4>. QED
        BY <4>1, PrefixOf
    <3>4. vector_buf' = old \o new
      BY <1>d, <2>3
    <3>. HIDE DEF old, new
    <3>5. /\ vector_buf' \in Seq(Int) /\ Len(vector_buf') = Len(old) + Len(new)
          /\ \A j \in 1 .. Len(old) : vector_buf'[j] = old[j]
          /\ \A j \in 1 .. Len(new) : vector_buf'[Len(old) + j] = new[j]
      BY <3>2, <3>3, <3>4, Concatenation, Zenon
    <3>6. got + r <= 2 * max_vector_size
      <4>1. nr_bytes <= max_vector_size /\ nr_bytes \in Int /\ VectorLength = IF nr_bytes > 0 THEN 2 * nr_bytes ELSE 0
        BY <1>4, <2>3, SizeRead DEF InCommand, VectorLength
      <4>. QED
        BY <4>1, <1>e, <1>6, <1>14, <2>3, FramingAssumption
    <3>. QED
      BY <2>3, <3>2, <3>3, <3>5, <3>6
  <2>. QED
    BY <2>2, <2>3
<1>17. IType'
  <2>1. got' \in Nat
    BY <1>a, <1>e, <1>6
  <2>. QED
    BY <1>1, <1>4, <1>11, <1>13, <1>16, <2>1 DEF IType, AnswerType
<1>18. InCommand'
  BY <1>1, <1>4, <1>10 DEF InCommand
<1>19. Buffered'
  <2>1. CASE pc = "data"
    <3>1. Stored' = Stored
      BY <1>1, <2>1 DEF Stored
    <3>2. ASSUME NEW j \in 1 .. got + r PROVE vector_buf'[j] = CurrentBytes[10 + j]
      <4>1. CASE j \in 1 .. got
        BY <4>1, <1>4, <1>16, <2>1 DEF Buffered
      <4>2. CASE ~(j \in 1 .. got)
        <5>. DEFINE i == j - got
        <5>1. i \in 1 .. r /\ got + i = j /\ Taken + i = 10 + j
          BY <4>2, <1>e, <1>6, <2>1 DEF Before
        <5>. HIDE DEF i
        <5>2. vector_buf'[got + i] = stream[i] /\ stream[i] = CurrentBytes[Taken + i]
          BY <5>1, <1>9, <1>16, <2>1
        <5>. QED
          BY <5>1, <5>2
      <4>. QED
        BY <4>1, <4>2
    <3>3. got' <= Len(vector_buf') /\ got' = got + r
      BY <1>a, <1>e, <1>6, <1>16, <2>1
    <3>. QED
      BY <1>1, <1>4, <1>10, <1>14, <2>1, <3>1, <3>2, <3>3 DEF Buffered
  <2>2. CASE pc # "data"
    <3>1. Stored = Taken /\ Stored' = Taken + r /\ Offset = Before /\ Taken + r <= 16
      <4>1. Stored = Taken /\ Stored' = Taken + r
        BY <1>1, <1>10, <2>2 DEF Stored
      <4>2. Offset = Before /\ Before + Wanted <= 16
        <5>1. pc \in {"cmd", "getinfo", "settck", "shift", "length"}
          BY <1>2, <1>4, <2>2 DEF IType
        <5>2. Offset = Before
          BY <5>1 DEF Offset, Before
        <5>3. CASE pc \in {"cmd", "getinfo", "settck"}
          BY <5>2, <5>3 DEF Before, Wanted
        <5>4. CASE pc \in {"shift", "length"}
          BY <5>2, <5>4 DEF Before, Wanted
        <5>. QED
          BY <5>1, <5>2, <5>3, <5>4
      <4>. QED
        BY <4>1, <4>2, <1>e, <1>6
    <3>2. ASSUME NEW j \in 1 .. Taken + r PROVE cmd_buf'[j - 1] = CurrentBytes[j]
      <4>1. j \in Nat /\ j - 1 \in 0 .. 15 /\ (j - 1) - Offset - got + 1 = j - Taken
        BY <1>e, <1>6, <3>1
      <4>2. cmd_buf'[j - 1] = IF j - Taken \in 1 .. r THEN stream[j - Taken] ELSE cmd_buf[j - 1]
        BY <1>12, <4>1
      <4>3. CASE j \in 1 .. Taken
        BY <4>1, <4>2, <4>3, <1>4, <3>1 DEF Buffered
      <4>4. CASE ~(j \in 1 .. Taken)
        <5>. DEFINE i == j - Taken
        <5>1. i \in 1 .. r /\ Taken + i = j
          BY <4>1, <4>4, <1>e, <1>6
        <5>2. stream[i] = CurrentBytes[Taken + i] /\ cmd_buf'[j - 1] = stream[i]
          BY <5>1, <4>2, <1>9
        <5>. QED
          BY <5>1, <5>2
      <4>. QED
        BY <4>3, <4>4
    <3>. QED
      BY <1>1, <1>10, <2>2, <3>1, <3>2 DEF Buffered
  <2>. QED
    BY <2>1, <2>2
<1>20. (\E o : Layout(o))'
  <2>. DEFINE n == Len(requests)
  <2>1. PICK o : o = [k \in 1 .. n + 1 |-> off[k] - r]
    OBVIOUS
  <2>2. /\ off \in [1 .. n + 1 -> Int] /\ off[Current] = -Taken /\ off[n + 1] = Len(stream)
        /\ n \in Nat /\ Current \in 1 .. n + 1
    BY <1>4, <1>5, Lengthwise DEF Layout
  <2>3. o \in [1 .. n + 1 -> Int] /\ \A k \in 1 .. n + 1 : o[k] = off[k] - r
    BY <1>6, <2>1, <2>2
  <2>4. o[Current] = -(Taken + r) /\ o[n + 1] = Len(stream')
    <3>1. n + 1 \in 1 .. n + 1 /\ o[Current] = off[Current] - r
      BY <2>2, <2>3
    <3>2. o[n + 1] = off[n + 1] - r
      BY <3>1, <2>3
    <3>. QED
      BY <3>1, <3>2, <1>e, <1>6, <1>11, <2>2
  <2>5. ASSUME NEW k \in Current .. n
        PROVE  /\ o[k + 1] = o[k] + Len(Bytes(requests[k]))
               /\ \A j \in 1 .. Len(Bytes(requests[k])) :
                    o[k] + j >= 1 => /\ o[k] + j <= Len(stream')
                                     /\ stream'[o[k] + j] = Bytes(requests[k])[j]
    <3>1. k \in 1 .. n /\ k \in 1 .. n + 1 /\ k + 1 \in 1 .. n + 1
      BY <2>2
    <3>2. o[k] = off[k] - r /\ o[k + 1] = off[k + 1] - r /\ off[k] \in Int /\ off[k + 1] \in Int
      BY <3>1, <2>2, <2>3
    <3>3. /\ off[k + 1] = off[k] + Len(Bytes(requests[k]))
          /\ \A j \in 1 .. Len(Bytes(requests[k])) :
               off[k] + j >= 1 => /\ off[k] + j <= Len(stream)
                                  /\ stream[off[k] + j] = Bytes(requests[k])[j]
      BY <1>5, <2>5, Zenon DEF Layout
    <3>4. Len(Bytes(requests[k])) \in Nat
      <4>1. requests[k] \in Requests
        <5>1. requests \in Seq(Requests)
          BY <1>4 DEF IType
        <5>. QED
          BY ONLY <3>1, <5>1
      <4>. QED
        BY <4>1, RequestBytes
    <3>5. ASSUME NEW j \in 1 .. Len(Bytes(requests[k])), o[k] + j >= 1
          PROVE  o[k] + j <= Len(stream') /\ stream'[o[k] + j] = Bytes(requests[k])[j]
      <4>. DEFINE i == o[k] + j
      <4>1. j \in Int /\ i \in Int /\ off[k] + j = i + r /\ off[k] + j >= 1
        <5>1. j \in Int
          BY <3>4
        <5>2. o[k] \in Int /\ off[k] = o[k] + r /\ r \in Nat
          BY <3>2, <1>6
        <5>. QED
          BY <5>1, <5>2, <3>5
      <4>2. i + r <= Len(stream) /\ stream[i + r] = Bytes(requests[k])[j]
        <5>. HIDE DEF i
        <5>. QED
          BY <3>3, <3>5, <4>1
      <4>3. i \in 1 .. Len(stream) - r
        BY <4>1, <4>2, <3>5, <1>e, <1>6
      <4>. HIDE DEF i
      <4>4. i <= Len(stream') /\ stream'[i] = stream[i + r]
        BY <4>3, <1>e, <1>6, <1>11
      <4>. QED
        BY <4>2, <4>4 DEF i
    <3>. QED
      BY <3>2, <3>3, <3>4, <3>5, <1>6
  <2>6. Layout(o)'
    BY <1>1, <1>10, <2>3, <2>4, <2>5 DEF Layout
  <2>. QED
    BY <2>6
<1>21. NeverLosesItsPlace' /\ TckTruthful' /\ got' \in 0 .. Wanted'
  BY <1>1, <1>2, <1>a, <1>e, <1>6, <1>15 DEF IInv, NeverLosesItsPlace, TckTruthful, Open
<1>. QED
  BY <1>17, <1>18, <1>19, <1>20, <1>21 DEF IInv, Tracks

\* A client that has gone away leaves no command half read.
LEMMA EofBetween ==
    ASSUME NewForm, IInv, ReadEof
    PROVE  pc = "cmd" /\ got = 0
<1>1. got < Wanted /\ eof /\ stream = <<>>
  BY DEF ReadEof
<1>2. pc \notin {"closed", "crashed"}
  <2>1. SUFFICES ASSUME pc \in {"closed", "crashed"} PROVE FALSE
    OBVIOUS
  <2>2. Wanted = 0 /\ got \in Nat
    BY <2>1 DEF Wanted, IInv, IType
  <2>. QED
    BY <1>1, <2>2
<1>3. IType /\ InCommand /\ Buffered /\ got \in Nat /\ Before \in Nat /\ Taken \in Nat /\ Taken = Before + got
  BY <1>2, UnderWay
<1>4. PICK off : Layout(off)
  BY <1>2, UnderWay
<1>5. ~(Current <= Len(requests))
  <2>1. SUFFICES ASSUME Current <= Len(requests) PROVE FALSE
    OBVIOUS
  <2>2. Wanted \in Nat /\ Before + Wanted <= Len(CurrentBytes) /\ Len(CurrentBytes) \in Nat
    BY <1>2, <1>3, <2>1, ReadsWithin, CurrentRequest, RequestBytes DEF CurrentBytes
  <2>3. Taken + 1 <= Len(CurrentBytes)
    BY <1>1, <1>3, <2>2
  <2>4. 1 <= Len(stream)
    BY <1>3, <1>4, <2>1, <2>3, StreamIsCurrent, 1 \in Nat, 1 <= 1
  <2>. QED
    BY <1>1, <2>4
<1>6. pc = "cmd"
  BY <1>2, <1>3, <1>5 DEF InCommand
<1>7. Len(stream) = 0 /\ Current = Len(requests) + 1
  BY <1>1, <1>3, <1>5, Lengthwise
<1>8. -Taken = 0
  BY <1>4, <1>7 DEF Layout
<1>9. got = 0
  BY <1>3, <1>8
<1>. QED
  BY <1>6, <1>9

LEMMA EofStep ==
    ASSUME NewForm, IInv, ReadEof, UNCHANGED frequency
    PROVE  IInv'
<1>1. Go("closed") /\ eof /\ UNCHANGED <<answers, frequency>> /\ divisor' = divisor /\ faults' = faults
  BY DEF ReadEof
<1>2. divisor' \in 0 .. MaxDivisor /\ faults' \in 0 .. MaxFaults
  BY <1>1 DEF IInv, IType
<1>. QED
  BY <1>1, <1>2, CloseStep

\* Two bytes of a command have been read: they are its first two.
LEMMA CommandRead ==
    ASSUME NewForm, IInv, Complete("cmd")
    PROVE  /\ Current <= Len(requests) /\ Taken = 2
           /\ (IF IsGetinfo THEN "getinfo" ELSE IF IsSettck THEN "settck" ELSE IF IsShift THEN "shift" ELSE "closed")
                = requests[Current].op
<1>1. pc = "cmd" /\ got = 2 /\ Before = 0
  BY DEF Complete, Wanted, Before
<1>2. IType /\ InCommand /\ Buffered /\ Taken = 2
  BY <1>1, UnderWay
<1>3. Current <= Len(requests)
  <2>1. SUFFICES ASSUME Current = Len(requests) + 1 PROVE FALSE
    BY <1>2, Lengthwise
  <2>2. PICK off : Layout(off)
    BY <1>1, UnderWay
  <2>3. Len(stream) = -2 /\ Len(stream) \in Nat
    BY <1>2, <2>1, <2>2, Lengthwise DEF Layout
  <2>. QED
    BY <2>3
<1>. DEFINE r == requests[Current]
<1>4. r \in Requests
  BY <1>2, <1>3, CurrentRequest
<1>5. cmd_buf[0] = CurrentBytes[1] /\ cmd_buf[1] = CurrentBytes[2]
  <2>1. \A j \in 1 .. 2 : cmd_buf[j - 1] = CurrentBytes[j]
    BY <1>1, <1>2 DEF Buffered, Stored
  <2>. QED
    BY <2>1
<1>6. CASE r.op = "getinfo"
  <2>1. CurrentBytes[1] = 103 /\ CurrentBytes[2] = 101
    BY <1>4, <1>6, RequestBytes DEF CurrentBytes, GetinfoShape
  <2>. QED
    BY <1>2, <1>3, <1>5, <1>6, <2>1 DEF IsGetinfo
<1>7. CASE r.op = "settck"
  <2>1. CurrentBytes[1] = 115 /\ CurrentBytes[2] = 101
    BY <1>4, <1>7, RequestBytes DEF CurrentBytes, SettckShape
  <2>. QED
    BY <1>2, <1>3, <1>5, <1>7, <2>1 DEF IsGetinfo, IsSettck
<1>8. CASE r.op = "shift"
  <2>1. CurrentBytes[1] = 115 /\ CurrentBytes[2] = 104
    BY <1>4, <1>8, RequestBytes DEF CurrentBytes, ShiftShape
  <2>. QED
    BY <1>2, <1>3, <1>5, <1>8, <2>1 DEF IsGetinfo, IsSettck, IsShift
<1>. QED
  BY <1>4, <1>6, <1>7, <1>8, RequestBytes

LEMMA CommandStep ==
    ASSUME NewForm, IInv, Command, UNCHANGED frequency
    PROVE  IInv'
<1>. DEFINE op == requests[Current].op
<1>1. pc = "cmd" /\ Complete("cmd") /\ Current <= Len(requests) /\ Taken = 2
  BY CommandRead DEF Command, Complete
<1>2. Go(op) /\ UNCHANGED <<answers, divisor, faults, frequency>>
  BY CommandRead DEF Command
<1>3. op \in {"getinfo", "settck", "shift"}
  BY <1>1, UnderWay, CurrentRequest, RequestBytes
<1>. HIDE DEF op
<1>4. PICK next : next = op
  OBVIOUS
<1>5. next \in {"getinfo", "settck", "shift"} /\ Go(next) /\ next = requests[Current].op
  BY <1>2, <1>3, <1>4 DEF op
<1>6. Before' = Taken
  BY <1>1, <1>5 DEF Before, Go
<1>. QED
  BY <1>1, <1>2, <1>5, <1>6, GoStep

LEMMA GetinfoStep ==
    ASSUME NewForm, IInv, HandleGetinfo, UNCHANGED frequency
    PROVE  IInv'
<1>. DEFINE a == [op |-> "getinfo", size |-> max_vector_size]
<1>1. pc = "getinfo" /\ got = Wanted /\ Write(a) /\ divisor' = divisor /\ faults' = faults
  BY DEF HandleGetinfo, Complete
<1>2. divisor' \in 0 .. MaxDivisor /\ faults' \in 0 .. MaxFaults
  BY <1>1 DEF IInv, IType
<1>3. a \in AnswerType /\ a.op # "settck"
  BY DEF AnswerType
<1>. HIDE DEF a
<1>4. CASE answers' = Append(answers, a) /\ Go("cmd")
  <2>1. PICK b : b = a
    OBVIOUS
  <2>. QED
    BY <1>1, <1>2, <1>3, <1>4, <2>1, AnswerStep
<1>5. CASE eof /\ UNCHANGED answers /\ Go("closed")
  BY <1>2, <1>5, CloseStep
<1>. QED
  BY <1>1, <1>4, <1>5 DEF Write

\* The period that settck works with is the one that is meant, a number of 32 bits.
LEMMA PeriodRead ==
    ASSUME NewForm, IInv, Complete("settck")
    PROVE  period = Meant(requests[Current]).arg /\ period \in Int32
<1>1. pc = "settck" /\ got = 9 /\ Before = 2
  BY DEF Complete, Wanted, Before
<1>2. IType /\ InCommand /\ Buffered /\ Taken = 11
  BY <1>1, UnderWay
<1>. DEFINE r == requests[Current]
<1>3. r \in Requests /\ r.op = "settck"
  BY <1>1, <1>2, CurrentRequest DEF InCommand
<1>4. SettckShape(CurrentBytes, r.arg) /\ r.arg \in Int32 /\ r = [op |-> r.op, arg |-> r.arg]
  BY <1>3, RequestBytes DEF CurrentBytes
<1>5. \A j \in 1 .. 11 : cmd_buf[j - 1] = CurrentBytes[j]
  BY <1>1, <1>2 DEF Buffered, Stored
<1>. HIDE DEF r
<1>6. ASSUME NEW j \in 1 .. 4 PROVE cmd_buf[7 + (j - 1)] = Encode(r.arg)[j]
  <2>1. j \in Int /\ 7 + j \in 1 .. 11 /\ (7 + j) - 1 = 7 + (j - 1)
    OBVIOUS
  <2>2. cmd_buf[(7 + j) - 1] = CurrentBytes[7 + j]
    BY <2>1, <1>5
  <2>3. CurrentBytes[7 + j] = Encode(r.arg)[j]
    BY <1>4 DEF SettckShape
  <2>. QED
    BY <2>1, <2>2, <2>3
<1>7. xvc_get_int32(7) = r.arg
  BY <1>4, <1>6, FieldRead, 7 \in Nat
<1>8. frequency \in Nat
  BY <1>2, FramingAssumption DEF IType
<1>9. CASE frequency = 0
  <2>1. Meant(r) = r
    BY <1>9 DEF Meant
  <2>. QED
    BY <1>4, <1>7, <1>9, <2>1 DEF period, r
<1>10. CASE frequency # 0
  <2>1. NsPerSecond \in Nat /\ NsPerSecond = 1000000000
    BY SMT DEF NsPerSecond
  <2>2. NsPerSecond \div frequency \in Nat /\ frequency * (NsPerSecond \div frequency) <= NsPerSecond
    BY <1>8, <1>10, <2>1, Quotient, SMT
  <2>3. NsPerSecond \div frequency \in Int32
    <3>. DEFINE q == NsPerSecond \div frequency
    <3>1. q \in Nat /\ 1 * q <= frequency * q
      BY <1>8, <1>10, <2>2, Monotone
    <3>2. q <= NsPerSecond
      <4>. DEFINE p == frequency * q
      <4>1. p \in Nat /\ p <= NsPerSecond /\ q <= p
        BY <1>8, <2>2, <3>1
      <4>. HIDE DEF p
      <4>. QED
        BY <2>1, <3>1, <4>1, SMT
    <3>. HIDE DEF q
    <3>3. q \in Int32
      BY <2>1, <3>1, <3>2, SMT DEF Int32
    <3>. QED
      BY <3>3 DEF q
  <2>4. Meant(r).arg = NsPerSecond \div frequency
    <3>. DEFINE q == NsPerSecond \div frequency
    <3>. HIDE DEF q
    <3>1. Meant(r) = [r EXCEPT !.arg = q]
      BY <1>3, <1>10 DEF Meant, q, r
    <3>2. Meant(r).arg = q
      BY <1>4, <3>1
    <3>. QED
      BY <3>2 DEF q
  <2>. QED
    BY <1>10, <2>3, <2>4, Zenon DEF period, r
<1>. QED
  BY <1>9, <1>10

\* What a settck is answered with decodes to the period set, and that is the chip's.
LEMMA PeriodSet ==
    ASSUME NEW p \in Int32
    PROVE  LET d == DivisorOf(FrequencyOf(p))
               b == xvc_put_int32(ActualPeriod(d))
           IN d \in 0 .. MaxDivisor /\ b \in Seq(Int) /\ Decode(b) = ActualPeriod(d) /\ TruePeriod(Decode(b), d)
<1>. DEFINE d == DivisorOf(FrequencyOf(p))
<1>1. p \in Int
  BY SMT DEF Int32
<1>2. d \in 0 .. MaxDivisor
  BY <1>1, FrequencyType, DivisorType
<1>. HIDE DEF d
<1>3. ActualPeriod(d) \in Int32 /\ TruePeriod(ActualPeriod(d), d)
  BY <1>2, PeriodIsTrue
<1>4. /\ xvc_put_int32(ActualPeriod(d)) \in Seq(Int)
      /\ Decode(xvc_put_int32(ActualPeriod(d))) = ActualPeriod(d)
  BY <1>3, PutDecodes
<1>. QED
  BY <1>2, <1>3, <1>4 DEF d

LEMMA SettckStep ==
    ASSUME NewForm, IInv, HandleSettck, UNCHANGED frequency
    PROVE  IInv'
<1>1. pc = "settck" /\ got = Wanted /\ period \in Int32
  BY PeriodRead DEF HandleSettck, Complete
<1>2. divisor \in 0 .. MaxDivisor /\ faults \in Nat /\ faults <= MaxFaults /\ MaxFaults \in Nat
  BY FramingAssumption DEF IInv, IType
<1>3. CASE /\ divisor' = DivisorOf(FrequencyOf(period)) /\ faults' = faults
           /\ Write([op |-> "settck", bytes |-> xvc_put_int32(ActualPeriod(divisor'))])
  <2>1. PICK b : b = xvc_put_int32(ActualPeriod(divisor'))
    OBVIOUS
  <2>2. divisor' \in 0 .. MaxDivisor /\ b \in Seq(Int) /\ TruePeriod(Decode(b), divisor')
    BY <1>1, <1>3, <2>1, PeriodSet
  <2>3. PICK a : a = [op |-> "settck", bytes |-> b]
    OBVIOUS
  <2>4. a \in AnswerType /\ a.op = "settck" /\ a.bytes = b
    BY <2>2, <2>3 DEF AnswerType
  <2>5. faults' \in 0 .. MaxFaults
    BY <1>2, <1>3
  <2>6. Write(a)
    BY <1>3, <2>1, <2>3
  <2>7. CASE answers' = Append(answers, a) /\ Go("cmd")
    BY <1>1, <2>2, <2>4, <2>5, <2>7, AnswerStep
  <2>8. CASE eof /\ UNCHANGED answers /\ Go("closed")
    BY <2>2, <2>5, <2>8, CloseStep
  <2>. QED
    BY <2>6, <2>7, <2>8 DEF Write
<1>4. CASE /\ faults < MaxFaults /\ faults' = faults + 1 /\ divisor' = divisor
           /\ Write([op |-> "settck", bytes |-> xvc_put_int32(period)])
  <2>1. PICK b : b = xvc_put_int32(period)
    OBVIOUS
  <2>2. b \in Seq(Int)
    BY <1>1, <2>1, PutDecodes
  <2>3. PICK a : a = [op |-> "settck", bytes |-> b]
    OBVIOUS
  <2>4. a \in AnswerType
    BY <2>2, <2>3 DEF AnswerType
  <2>5. faults' \in 0 .. MaxFaults /\ faults' # 0 /\ divisor' \in 0 .. MaxDivisor
    BY <1>2, <1>4
  <2>6. Write(a)
    BY <1>4, <2>1, <2>3
  <2>7. CASE answers' = Append(answers, a) /\ Go("cmd")
    BY <1>1, <2>4, <2>5, <2>7, AnswerStep
  <2>8. CASE eof /\ UNCHANGED answers /\ Go("closed")
    BY <2>5, <2>8, CloseStep
  <2>. QED
    BY <2>6, <2>7, <2>8 DEF Write
<1>. QED
  BY <1>3, <1>4 DEF HandleSettck

\* Byte 4 of "shift:" is its t, so that the new form is taken.
LEMMA ShiftStep ==
    ASSUME NewForm, IInv, HandleShift, UNCHANGED frequency
    PROVE  IInv'
<1>1. pc = "shift" /\ got = 4 /\ Before = 2
  BY DEF HandleShift, Complete, Wanted, Before
<1>2. IType /\ InCommand /\ Buffered /\ Taken = 6
  BY <1>1, UnderWay
<1>3. requests[Current] \in Requests /\ requests[Current].op = "shift" /\ Current <= Len(requests)
  BY <1>1, <1>2, CurrentRequest DEF InCommand
<1>4. CurrentBytes[5] = 116
  BY <1>3, RequestBytes DEF CurrentBytes, ShiftShape
<1>5. cmd_buf[4] = 116
  <2>1. \A j \in 1 .. 6 : cmd_buf[j - 1] = CurrentBytes[j]
    BY <1>1, <1>2 DEF Buffered, Stored
  <2>2. cmd_buf[5 - 1] = CurrentBytes[5]
    BY <2>1
  <2>. QED
    BY <1>4, <2>2
<1>6. Go("length") /\ UNCHANGED <<answers, divisor, faults, frequency>>
  BY <1>5 DEF HandleShift, OldForm
<1>7. Before' = Taken
  BY <1>2, <1>6 DEF Before, Go
<1>. QED
  BY <1>1, <1>3, <1>6, <1>7, GoStep

LEMMA LengthStep ==
    ASSUME NewForm, IInv, HandleLength, UNCHANGED frequency
    PROVE  IInv'
<1>1. pc = "length" /\ got = 4 /\ Before = 6
  BY DEF HandleLength, IInv, IType, Wanted, Before
<1>2. IType /\ InCommand /\ Buffered /\ Taken = 10
  BY <1>1, UnderWay
<1>3. requests[Current].op = "shift" /\ Current <= Len(requests)
  BY <1>1, <1>2 DEF InCommand
<1>4. /\ nr_bytes = SizeOf(requests[Current].arg) /\ nr_bytes \in Int /\ VectorLength \in Nat
      /\ ~(nr_bytes <= max_vector_size) => RightAnswers(requests[Current]) = {}
  BY <1>1, <1>2, SizeRead
<1>a. max_vector_size \in Int
  BY FramingAssumption
<1>5. CASE TooLarge
  <2>1. Go("closed") /\ UNCHANGED <<answers, divisor, faults, frequency>>
    BY <1>1, <1>5 DEF HandleLength
  <2>2. RightAnswers(requests[Current]) = {}
    BY <1>4, <1>5, <1>a DEF TooLarge
  <2>3. divisor' \in 0 .. MaxDivisor /\ faults' \in 0 .. MaxFaults
    BY <2>1 DEF IInv, IType
  <2>. QED
    BY <1>3, <2>1, <2>2, <2>3, CloseStep
<1>6. CASE ~TooLarge
  <2>1. Go("data") /\ UNCHANGED <<answers, divisor, faults, frequency>>
    BY <1>1, <1>6 DEF HandleLength
  <2>2. Before' = Taken
    BY <1>2, <2>1 DEF Before, Go
  <2>3. VectorLength \in Nat /\ SizeOf(requests[Current].arg) <= max_vector_size
    BY <1>4, <1>6, <1>a DEF TooLarge
  <2>. QED
    BY <1>1, <1>3, <2>1, <2>2, <2>3, GoStep
<1>. QED
  BY <1>5, <1>6

\* The whole vector has been read: TMS and TDI are the client's.
LEMMA VectorRead ==
    ASSUME NewForm, IInv, Complete("data"), len > 0, nr_bytes >= 0
    PROVE  /\ Current <= Len(requests) /\ requests[Current].op = "shift" /\ requests[Current].arg \in Int
           /\ BytesFor(requests[Current].arg) <= max_vector_size
           /\ len = requests[Current].arg /\ TmsPart = Tms(len) /\ TdiPart = Tdi(len)
           /\ TmsPart \in Seq(Int) /\ TdiPart \in Seq(Int)
<1>a. pc = "data" /\ got = VectorLength
  BY DEF Complete, Wanted
<1>2. IType /\ InCommand /\ Buffered
  BY <1>a, UnderWay
<1>1. pc = "data" /\ got = 2 * nr_bytes
  BY <1>a, <1>2, SizeRead
<1>. DEFINE r == requests[Current]
            N == nr_bytes
<1>3. r \in Requests /\ r.op = "shift" /\ Current <= Len(requests) /\ SizeOf(r.arg) <= max_vector_size
  BY <1>1, <1>2, CurrentRequest DEF InCommand
<1>4. len = r.arg /\ N = BytesFor(r.arg) /\ N \in Nat /\ r.arg \in Int /\ N = SizeOf(r.arg)
  BY <1>1, <1>2, SizeRead
<1>5. ShiftShape(CurrentBytes, r.arg)
  BY <1>3, RequestBytes DEF CurrentBytes
<1>6. r.arg \in Int
  BY <1>4
<1>b. \A j \in 1 .. N : CurrentBytes[10 + j] = Tms(r.arg)[j] /\ CurrentBytes[10 + N + j] = Tdi(r.arg)[j]
  <2>. HIDE DEF r, N
  <2>1. \A j \in 1 .. BytesFor(r.arg) :
           CurrentBytes[10 + j] = Tms(r.arg)[j] /\ CurrentBytes[10 + BytesFor(r.arg) + j] = Tdi(r.arg)[j]
    BY ONLY <1>5, Zenon DEF ShiftShape
  <2>2. N = BytesFor(r.arg)
    BY ONLY <1>4
  <2>. QED
    BY ONLY <2>1, <2>2, Zenon
<1>. HIDE DEF r, N
<1>7. /\ vector_buf \in Seq(Int) /\ got <= Len(vector_buf)
      /\ \A j \in 1 .. got : vector_buf[j] = CurrentBytes[10 + j]
  BY <1>1, <1>2 DEF IType, Buffered
<1>8. got = 2 * N
  BY <1>1 DEF N
<1>9. TmsPart = Tms(r.arg)
  <2>. DEFINE p == SubSeq(vector_buf, 1, N)
  <2>1. N <= Len(vector_buf) /\ 2 * N <= Len(vector_buf)
    BY <1>4, <1>7, <1>8
  <2>2. p \in Seq(Int) /\ Len(p) = N /\ \A j \in 1 .. N : p[j] = vector_buf[j]
    BY <1>4, <1>7, <2>1, PrefixOf
  <2>3. Tms(r.arg) \in Seq(Int) /\ Len(Tms(r.arg)) = N
    BY <1>4, <1>6, VectorBytes
  <2>4. ASSUME NEW j \in 1 .. N PROVE p[j] = Tms(r.arg)[j]
    <3>1. j \in 1 .. got
      BY <1>4, <1>8
    <3>2. CurrentBytes[10 + j] = Tms(r.arg)[j]
      BY <1>b
    <3>. QED
      BY <1>7, <2>2, <3>1, <3>2
  <2>. HIDE DEF p
  <2>5. p = Tms(r.arg)
    BY <2>2, <2>3, <2>4, SeqEqual
  <2>. QED
    BY <2>5 DEF p, TmsPart, N
<1>10. TdiPart = Tdi(r.arg)
  <2>. DEFINE p == SubSeq(vector_buf, N + 1, 2 * N)
  <2>1. p \in Seq(Int) /\ Len(p) = N /\ \A j \in 1 .. N : p[j] = vector_buf[N + j]
    <3>1. \A i \in (N + 1) .. 2 * N : vector_buf[i] \in Int
      BY <1>4, <1>7, <1>8
    <3>2. N + 1 \in Int /\ 2 * N \in Int /\ 2 * N - (N + 1) + 1 = N /\ (~(N + 1 <= 2 * N) => N = 0)
      BY <1>4
    <3>3. /\ p \in Seq(Int)
          /\ Len(p) = IF N + 1 <= 2 * N THEN 2 * N - (N + 1) + 1 ELSE 0
          /\ \A i \in 1 .. 2 * N - (N + 1) + 1 : p[i] = vector_buf[N + 1 + i - 1]
      BY <3>1, <3>2, SubSeqProperties
    <3>. HIDE DEF p
    <3>4. Len(p) = N
      BY <3>2, <3>3, <1>4
    <3>5. ASSUME NEW j \in 1 .. N PROVE p[j] = vector_buf[N + j]
      <4>1. N + 1 + j - 1 = N + j
        BY <1>4
      <4>. QED
        BY <3>2, <3>3, <4>1
    <3>. QED
      BY <3>3, <3>4, <3>5
  <2>2. Tdi(r.arg) \in Seq(Int) /\ Len(Tdi(r.arg)) = N
    BY <1>4, <1>6, VectorBytes
  <2>3. ASSUME NEW j \in 1 .. N PROVE p[j] = Tdi(r.arg)[j]
    <3>1. N + j \in 1 .. got /\ 10 + (N + j) = 10 + N + j
      BY <1>4, <1>8
    <3>2. CurrentBytes[10 + N + j] = Tdi(r.arg)[j]
      BY <1>b
    <3>3. vector_buf[N + j] = CurrentBytes[10 + (N + j)]
      BY <1>7, <3>1
    <3>. HIDE DEF p
    <3>. QED
      BY <2>1, <3>1, <3>2, <3>3
  <2>. HIDE DEF p
  <2>4. p = Tdi(r.arg)
    BY <2>1, <2>2, <2>3, SeqEqual
  <2>. QED
    BY <2>4 DEF p, TdiPart, N
<1>. QED
  BY <1>3, <1>4, <1>6, <1>9, <1>10, VectorBytes DEF r

LEMMA DataStep ==
    ASSUME NewForm, IInv, HandleData, UNCHANGED frequency
    PROVE  IInv'
<1>1. Complete("data") /\ pc = "data" /\ got = Wanted /\ divisor' = divisor
  BY DEF HandleData, Complete
<1>2. divisor' \in 0 .. MaxDivisor /\ faults \in Nat /\ faults <= MaxFaults /\ MaxFaults \in Nat
  BY <1>1, FramingAssumption DEF IInv, IType
<1>3. CASE /\ nr_bytes >= 0 /\ len > 0 /\ faults' = faults
           /\ Write([op |-> "shift", bits |-> len, tms |-> TmsPart, tdi |-> TdiPart])
  <2>1. PICK a : a = [op |-> "shift", bits |-> len, tms |-> TmsPart, tdi |-> TdiPart]
    OBVIOUS
  <2>2. a \in AnswerType /\ a.op # "settck"
    BY <1>1, <1>3, <2>1, VectorRead DEF AnswerType
  <2>3. faults' \in 0 .. MaxFaults /\ Write(a)
    BY <1>2, <1>3, <2>1
  <2>4. CASE answers' = Append(answers, a) /\ Go("cmd")
    BY <1>1, <1>2, <1>3, <2>2, <2>3, <2>4, AnswerStep
  <2>5. CASE eof /\ UNCHANGED answers /\ Go("closed")
    BY <1>2, <2>3, <2>5, CloseStep
  <2>. QED
    BY <2>3, <2>4, <2>5 DEF Write
<1>4. CASE nr_bytes >= 0 /\ len <= 0 /\ Go("closed") /\ UNCHANGED <<answers, faults>>
  <2>1. Current <= Len(requests) /\ RightAnswers(requests[Current]) = {}
    BY <1>1, <1>4, SizeRead, UnderWay DEF InCommand
  <2>2. faults' \in 0 .. MaxFaults
    BY <1>2, <1>4
  <2>. QED
    BY <1>2, <1>4, <2>1, <2>2, CloseStep
<1>6. CASE nr_bytes < 0 /\ Go("crashed") /\ UNCHANGED <<answers, faults>>
  <2>1. Current <= Len(requests) /\ RightAnswers(requests[Current]) = {}
    BY <1>1, <1>6, SizeRead, UnderWay DEF InCommand
  <2>2. faults' \in 0 .. MaxFaults
    BY <1>2, <1>6
  <2>. QED
    BY <1>2, <1>6, <2>1, <2>2, CloseStep
<1>5. CASE faults < MaxFaults /\ faults' = faults + 1 /\ Go("closed") /\ UNCHANGED answers
  <2>1. faults' \in 0 .. MaxFaults /\ faults' # 0
    BY <1>2, <1>5
  <2>. QED
    BY <1>2, <1>5, <2>1, CloseStep
<1>. QED
  BY <1>3, <1>4, <1>5, <1>6 DEF HandleData

-----------------------------------------------------------------------------
(* The theorems. *)

LEMMA InitInv ==
    ASSUME NewForm, Init
    PROVE  IInv
<1>1. /\ frequency \in Frequencies /\ requests = <<>> /\ stream = <<>> /\ eof = FALSE /\ pc = "cmd" /\ got = 0
      /\ cmd_buf = [k \in 0 .. 15 |-> 0] /\ vector_buf = <<>> /\ answers = <<>> /\ faults = 0
  BY DEF Init
<1>2. divisor \in 0 .. MaxDivisor
  <2>1. 29 \in 0 .. MaxDivisor
    BY SMT DEF MaxDivisor
  <2>2. frequency \in Nat
    BY <1>1, FramingAssumption
  <2>3. DivisorOf(frequency) \in 0 .. MaxDivisor
    BY <2>2, DivisorType
  <2>4. divisor = 29 \/ divisor = DivisorOf(frequency)
    BY Zenon DEF Init
  <2>. QED
    BY <2>1, <2>3, <2>4
<1>a. Len(requests) = 0 /\ Len(answers) = 0 /\ Len(vector_buf) = 0 /\ Len(stream) = 0
  BY <1>1
<1>3. IType
  <2>1. requests \in Seq(Requests) /\ stream \in Seq(Int) /\ vector_buf \in Seq(Int) /\ answers \in Seq(AnswerType)
    BY <1>1, EmptySeq
  <2>2. Len(vector_buf) <= 2 * max_vector_size /\ Len(answers) <= Len(requests) /\ faults \in 0 .. MaxFaults
    BY <1>1, <1>a, FramingAssumption
  <2>3. cmd_buf \in [0 .. 15 -> Int]
    BY <1>1
  <2>. QED
    BY <1>1, <1>2, <2>1, <2>2, <2>3 DEF IType
<1>4. Current = 1 /\ Taken = 0 /\ Stored = 0
  BY <1>1 DEF Current, Taken, Stored, Before
<1>5. InCommand /\ Buffered
  BY <1>1, <1>4 DEF InCommand, Buffered
<1>6. \E off : Layout(off)
  <2>1. PICK off : off = [k \in 1 .. Len(requests) + 1 |-> 0]
    OBVIOUS
  <2>2. /\ off \in [1 .. Len(requests) + 1 -> Int] /\ off[Current] = -Taken
        /\ off[Len(requests) + 1] = Len(stream) /\ Current .. Len(requests) = {}
    <3>1. Len(requests) + 1 = 1 /\ 1 \in 1 .. Len(requests) + 1
      BY <1>a
    <3>4. -Taken = 0
      <4>1. \A x \in Int : 0 <= x /\ x <= 0 => -x = 0
        OBVIOUS
      <4>2. Taken \in Int /\ 0 <= Taken /\ Taken <= 0
        BY <1>4
      <4>. QED
        BY <4>1, <4>2, Zenon
    <3>2. off \in [1 .. Len(requests) + 1 -> Int]
      BY <2>1
    <3>3. off[1] = 0
      BY <2>1, <3>1
    <3>. QED
      BY <1>a, <1>4, <3>1, <3>2, <3>3, <3>4
  <2>3. Layout(off)
    BY <2>2 DEF Layout
  <2>. QED
    BY <2>3
<1>7. NeverLosesItsPlace /\ TckTruthful /\ got \in 0 .. Wanted
  BY <1>1 DEF NeverLosesItsPlace, TckTruthful, Open, Wanted
<1>. QED
  BY <1>3, <1>5, <1>6, <1>7 DEF IInv, Tracks

LEMMA NextInv ==
    ASSUME NewForm, IInv, [Next]_<<vars, frequency>>
    PROVE  IInv'
<1>1. CASE UNCHANGED <<vars, frequency>>
  <2>1. /\ requests' = requests /\ stream' = stream /\ eof' = eof /\ cmd_buf' = cmd_buf /\ vector_buf' = vector_buf
        /\ pc' = pc /\ got' = got /\ answers' = answers /\ divisor' = divisor /\ faults' = faults
        /\ frequency' = frequency
    BY <1>1 DEF vars
  <2>2. IType'
    BY <2>1 DEF IInv, IType, AnswerType
  <2>3. got' \in 0 .. Wanted' /\ NeverLosesItsPlace' /\ TckTruthful'
    BY <2>1 DEF IInv, NeverLosesItsPlace, TckTruthful, Open, Wanted, VectorLength, nr_bytes, len, xvc_get_int32, RightAnswers
  <2>4. ASSUME pc \notin {"closed", "crashed"} PROVE Tracks'
    <3>1. InCommand' /\ Buffered'
      BY <2>1, <2>4, UnderWay DEF InCommand, Buffered, Stored, Taken, Before, Current, CurrentBytes
    <3>2. PICK off : Layout(off)
      BY <2>4, UnderWay
    <3>3. Layout(off)'
      BY <2>1, <3>2 DEF Layout, Taken, Before, Current
    <3>. QED
      BY <3>1, <3>3 DEF Tracks
  <2>. QED
    BY <2>1, <2>2, <2>3, <2>4 DEF IInv, Open
<1>2. CASE Next
  <2>1. UNCHANGED frequency
    BY <1>2 DEF Next
  <2>2. CASE Handler
    BY <2>1, <2>2, ReadStep, EofStep, CommandStep, GetinfoStep, SettckStep, ShiftStep, LengthStep, DataStep
    DEF Handler
  <2>3. CASE Closed
    BY <1>1, <2>1, <2>3 DEF Closed
  <2>. QED
    BY <1>2, <2>1, <2>2, <2>3, SendStep, HangUpStep DEF Next
<1>. QED
  BY <1>1, <1>2

\* The inductive invariant holds in every behaviour.
THEOREM BytesTracked ==
    ASSUME NewForm
    PROVE  Spec => []IInv
<1>1. Init => IInv
  BY InitInv
<1>2. IInv /\ [Next]_<<vars, frequency>> => IInv'
  BY NextInv
<1>. QED
  BY <1>1, <1>2, PTL DEF Spec

\* xvc_handle answers settck with the period that the chip uses, within one percent,
\* for every period and every configured frequency.
THEOREM TckIsTruthful ==
    ASSUME NewForm
    PROVE  Spec => []TckTruthful
<1>1. IInv => TckTruthful
  BY DEF IInv
<1>. QED
  BY <1>1, BytesTracked, PTL

\* However the bytes are cut into reads, xvc_handle never takes data for a command:
\* it closes a connection of its own accord only for a vector without an answer or
\* after a failing transfer.
THEOREM KeepsItsPlace ==
    ASSUME NewForm
    PROVE  Spec => []NeverLosesItsPlace
<1>1. IInv => NeverLosesItsPlace
  BY DEF IInv
<1>. QED
  BY <1>1, BytesTracked, PTL

-----------------------------------------------------------------------------
(* The refinement of the service. *)

\* The requests and the answers as the service has them.
MeantRequests == [k \in DOMAIN requests |-> Meant(requests[k])]
ReadAnswers == [k \in DOMAIN answers |-> Read(answers[k])]

\* A sequence that continues another by one element.
LEMMA Continues ==
    ASSUME NEW S, NEW s \in Seq(S), NEW n \in Nat, Len(s) = n, NEW x \in S, NEW f \in [1 .. n + 1 -> S],
           \A k \in 1 .. n : f[k] = s[k], f[n + 1] = x
    PROVE  f = Append(s, x)
<1>1. Append(s, x) \in Seq(S) /\ Len(Append(s, x)) = n + 1
  OBVIOUS
<1>2. f \in Seq(S) /\ Len(f) = n + 1
  OBVIOUS
<1>3. \A k \in 1 .. n + 1 : f[k] = Append(s, x)[k]
  OBVIOUS
<1>. QED
  BY <1>1, <1>2, <1>3, SeqEqual

LEMMA InitMaps ==
    ASSUME Init
    PROVE  Service!Init
<1>1. requests = <<>> /\ answers = <<>> /\ pc = "cmd"
  BY DEF Init
<1>. QED
  BY <1>1 DEF Service!Init, Open

LEMMA StayMaps ==
    ASSUME UNCHANGED <<requests, answers, frequency>>, Open' = Open
    PROVE  UNCHANGED Service!vars
  BY DEF Service!vars, Meant, Read

LEMMA CloseMaps ==
    ASSUME UNCHANGED <<requests, answers, frequency>>, pc \notin {"closed", "crashed"}, pc' \in {"closed", "crashed"}
    PROVE  Service!Close
  BY DEF Service!Close, Meant, Read, Open

\* What a request means is a request of the service.
LEMMA MeantType ==
    ASSUME NewForm, frequency \in Frequencies, NEW r \in Requests
    PROVE  Meant(r) \in Meanings
<1>1. CASE r.op = "settck" /\ frequency # 0
  <2>. DEFINE q == NsPerSecond \div frequency
  <2>1. q \in {NsPerSecond \div f : f \in Frequencies \ {0}}
    BY <1>1, Zenon
  <2>2. r = [op |-> "settck", arg |-> r.arg]
    BY <1>1, RequestBytes
  <2>. HIDE DEF q
  <2>3. [r EXCEPT !.arg = q] = [op |-> "settck", arg |-> q]
    BY <2>2
  <2>4. Meant(r) = [r EXCEPT !.arg = q]
    BY <1>1, Zenon DEF Meant, q
  <2>. QED
    BY <2>1, <2>3, <2>4 DEF Meanings
<1>2. CASE ~(r.op = "settck" /\ frequency # 0)
  BY <1>2, Zenon DEF Meant, Meanings
<1>. QED
  BY <1>1, <1>2

LEMMA SendMaps ==
    ASSUME NewForm, IInv, Send, UNCHANGED frequency
    PROVE  Service!Send
<1>1. PICK r \in Requests : requests' = Append(requests, r)
  BY DEF Send
<1>2. answers' = answers /\ pc' = pc /\ frequency' = frequency
  BY DEF Send
<1>3. requests \in Seq(Requests) /\ frequency \in Frequencies
  BY DEF IInv, IType
<1>4. PICK n : n = Len(requests)
  OBVIOUS
<1>5. n \in Nat /\ DOMAIN requests = 1 .. n /\ \A k \in 1 .. n : requests[k] \in Requests
  BY <1>3, <1>4
<1>6. /\ DOMAIN requests' = 1 .. n + 1 /\ requests'[n + 1] = r
      /\ \A k \in 1 .. n : requests'[k] = requests[k]
  BY <1>1, <1>3, <1>4
<1>7. \A x : Meant(x)' = Meant(x)
  BY <1>2 DEF Meant
<1>8. Meant(r) \in Meanings /\ \A k \in 1 .. n : Meant(requests[k]) \in Meanings
  BY <1>3, <1>5, MeantType
<1>9. PICK s : s = MeantRequests
  OBVIOUS
<1>10. PICK f : f = MeantRequests'
  OBVIOUS
<1>11. s = [k \in 1 .. n |-> Meant(requests[k])]
  BY <1>5, <1>9 DEF MeantRequests
<1>12. s \in Seq(Meanings) /\ Len(s) = n
  BY <1>5, <1>8, <1>11
<1>13. f = [k \in 1 .. n + 1 |-> Meant(requests'[k])]
  BY <1>6, <1>7, <1>10 DEF MeantRequests
<1>14. \A k \in 1 .. n + 1 : requests'[k] = IF k = n + 1 THEN r ELSE requests[k]
  BY <1>5, <1>6
<1>15. \A k \in 1 .. n + 1 : Meant(requests'[k]) \in Meanings
  BY <1>5, <1>8, <1>14
<1>16. f \in [1 .. n + 1 -> Meanings] /\ f[n + 1] = Meant(r) /\ \A k \in 1 .. n : f[k] = s[k]
  BY <1>5, <1>6, <1>11, <1>13, <1>15
<1>17. f = Append(s, Meant(r))
  BY <1>5, <1>8, <1>12, <1>16, Continues
<1>18. MeantRequests' = Append(MeantRequests, Meant(r))
  BY <1>9, <1>10, <1>17
<1>19. \E m \in Meanings : MeantRequests' = Append(MeantRequests, m)
  BY <1>8, <1>18
<1>. QED
  BY <1>2, <1>19 DEF Service!Send, MeantRequests, Open

LEMMA AnswerMaps ==
    ASSUME NewForm, IInv, pc \notin {"closed", "crashed"}, Current <= Len(requests),
           UNCHANGED <<requests, frequency>>, pc' = "cmd",
           NEW a, answers' = Append(answers, a), Read(a) \in RightAnswers(Meant(requests[Current]))
    PROVE  Service!Answer
<1>1. IType /\ answers \in Seq(AnswerType) /\ Len(answers) \in Nat /\ Len(requests) \in Nat
      /\ Current \in 1 .. Len(requests)
  BY UnderWay, Lengthwise, CurrentRequest DEF IType
<1>2. PICK n : n = Len(answers)
  OBVIOUS
<1>3. PICK s : s = ReadAnswers
  OBVIOUS
<1>4. PICK f : f = ReadAnswers'
  OBVIOUS
<1>. DEFINE S == {Read(answers[k]) : k \in 1 .. n} \cup {Read(a)}
<1>5. n \in Nat /\ DOMAIN answers = 1 .. n
  BY <1>1, <1>2
<1>6. s = [k \in 1 .. n |-> Read(answers[k])]
  BY <1>3, <1>5 DEF ReadAnswers
<1>7. s \in Seq(S) /\ Len(s) = n
  <2>1. \A k \in 1 .. n : Read(answers[k]) \in S
    BY Zenon
  <2>. HIDE DEF S
  <2>. QED
    BY <1>5, <1>6, <2>1
<1>8. DOMAIN answers' = 1 .. n + 1 /\ answers'[n + 1] = a /\ \A k \in 1 .. n : answers'[k] = answers[k]
  <2>1. answers \in Seq(AnswerType \cup {a}) /\ a \in AnswerType \cup {a}
    BY <1>1, SeqMonotonic
  <2>. QED
    BY <1>2, <2>1
<1>9. f = [k \in 1 .. n + 1 |-> Read(answers'[k])]
  BY <1>4, <1>8 DEF ReadAnswers, Read
<1>10. Read(a) \in S /\ \A k \in 1 .. n : Read(answers[k]) \in S
  BY Zenon
<1>. HIDE DEF S
<1>11. \A k \in 1 .. n + 1 : Read(answers'[k]) \in S
  <2>1. \A k \in 1 .. n + 1 : answers'[k] = IF k = n + 1 THEN a ELSE answers[k]
    BY <1>5, <1>8
  <2>. QED
    BY <1>5, <1>10, <2>1
<1>12. f \in [1 .. n + 1 -> S] /\ f[n + 1] = Read(a) /\ \A k \in 1 .. n : f[k] = s[k]
  BY <1>5, <1>6, <1>8, <1>9, <1>11
<1>13. f = Append(s, Read(a))
  BY <1>5, <1>7, <1>10, <1>12, Continues
<1>14. ReadAnswers' = Append(ReadAnswers, Read(a))
  BY <1>3, <1>4, <1>13
<1>15. Len(ReadAnswers) = Len(answers)
  BY <1>2, <1>3, <1>7
<1>16. Len(MeantRequests) = Len(requests) /\ MeantRequests[Current] = Meant(requests[Current])
  <2>1. DOMAIN requests = 1 .. Len(requests)
    BY <1>1, LenProperties DEF IType
  <2>2. MeantRequests = [k \in 1 .. Len(requests) |-> Meant(requests[k])]
    BY <2>1 DEF MeantRequests
  <2>. QED
    BY <1>1, <2>2
<1>17. Len(ReadAnswers) < Len(MeantRequests)
  BY <1>1, <1>15, <1>16 DEF Current
<1>18. \E x \in RightAnswers(MeantRequests[Len(ReadAnswers) + 1]) : ReadAnswers' = Append(ReadAnswers, x)
  BY <1>14, <1>15, <1>16 DEF Current
<1>19. MeantRequests' = MeantRequests
  BY DEF MeantRequests, Meant
<1>. QED
  BY <1>17, <1>18, <1>19 DEF Service!Answer, MeantRequests, ReadAnswers, Open

\* An answer is written, and it is right, or the connection ends.
LEMMA WriteMaps ==
    ASSUME NewForm, IInv, pc \in {"getinfo", "settck", "data"}, UNCHANGED frequency,
           NEW a, Write(a), Read(a) \in RightAnswers(Meant(requests[Current]))
    PROVE  Service!Next
<1>1. Current <= Len(requests) /\ pc \notin {"closed", "crashed"}
  BY UnderWay DEF InCommand
<1>2. CASE answers' = Append(answers, a) /\ Go("cmd")
  BY <1>1, <1>2, AnswerMaps DEF Go, Service!Next
<1>3. CASE UNCHANGED answers /\ Go("closed")
  BY <1>1, <1>3, CloseMaps DEF Go, Service!Next
<1>. QED
  BY <1>2, <1>3 DEF Write

LEMMA GetinfoMaps ==
    ASSUME NewForm, IInv, HandleGetinfo, UNCHANGED frequency
    PROVE  Service!Next
<1>1. PICK a : a = [op |-> "getinfo", size |-> max_vector_size]
  OBVIOUS
<1>2. pc = "getinfo" /\ Write(a)
  BY <1>1 DEF HandleGetinfo, Complete
<1>3. requests[Current].op = "getinfo"
  BY <1>2, UnderWay DEF InCommand
<1>4. Meant(requests[Current]) = requests[Current] /\ Read(a) = a
  BY <1>1, <1>3 DEF Meant, Read
<1>5. RightAnswers(requests[Current]) = {a}
  BY <1>1, <1>3 DEF RightAnswers
<1>. QED
  BY <1>2, <1>4, <1>5, WriteMaps

LEMMA SettckMaps ==
    ASSUME NewForm, IInv, HandleSettck, UNCHANGED frequency
    PROVE  Service!Next
<1>1. pc = "settck" /\ period = Meant(requests[Current]).arg /\ period \in Int32
  BY PeriodRead DEF HandleSettck, Complete
<1>2. Meant(requests[Current]).op = "settck"
  <2>1. requests[Current].op = "settck" /\ requests[Current] = [op |-> requests[Current].op, arg |-> requests[Current].arg]
    BY <1>1, UnderWay, CurrentRequest, RequestBytes DEF InCommand
  <2>. DEFINE q == NsPerSecond \div frequency
  <2>. HIDE DEF q
  <2>2. [requests[Current] EXCEPT !.arg = q].op = "settck"
    BY <2>1
  <2>. QED
    BY <2>1, <2>2, Zenon DEF Meant, q
<1>. DEFINE actual == ActualPeriod(DivisorOf(FrequencyOf(period)))
<1>3. RightAnswers(Meant(requests[Current])) = [op : {"settck"}, period : {period, actual}]
  BY <1>1, <1>2 DEF RightAnswers
<1>. HIDE DEF actual
<1>4. ASSUME NEW b, Decode(b) = period \/ Decode(b) = actual, NEW a, a = [op |-> "settck", bytes |-> b]
      PROVE  Read(a) \in RightAnswers(Meant(requests[Current]))
  <2>1. Read(a) = [op |-> "settck", period |-> Decode(b)]
    BY <1>4 DEF Read
  <2>. QED
    BY <1>3, <1>4, <2>1
<1>5. CASE /\ divisor' = DivisorOf(FrequencyOf(period))
           /\ Write([op |-> "settck", bytes |-> xvc_put_int32(ActualPeriod(divisor'))])
  <2>1. PICK b : b = xvc_put_int32(ActualPeriod(divisor'))
    OBVIOUS
  <2>2. Decode(b) = actual
    BY <1>1, <1>5, <2>1, PeriodSet DEF actual
  <2>3. PICK a : a = [op |-> "settck", bytes |-> b]
    OBVIOUS
  <2>. QED
    BY <1>1, <1>4, <1>5, <2>1, <2>2, <2>3, WriteMaps
<1>6. CASE Write([op |-> "settck", bytes |-> xvc_put_int32(period)])
  <2>1. PICK b : b = xvc_put_int32(period)
    OBVIOUS
  <2>2. Decode(b) = period
    BY <1>1, <2>1, PutDecodes
  <2>3. PICK a : a = [op |-> "settck", bytes |-> b]
    OBVIOUS
  <2>. QED
    BY <1>1, <1>4, <1>6, <2>1, <2>2, <2>3, WriteMaps
<1>. QED
  BY <1>5, <1>6 DEF HandleSettck

LEMMA DataMaps ==
    ASSUME NewForm, IInv, HandleData, UNCHANGED frequency
    PROVE  Service!Next
<1>1. Complete("data") /\ pc = "data"
  BY DEF HandleData, Complete
<1>2. CASE nr_bytes >= 0 /\ len > 0 /\ Write([op |-> "shift", bits |-> len, tms |-> TmsPart, tdi |-> TdiPart])
  <2>1. PICK a : a = [op |-> "shift", bits |-> len, tms |-> TmsPart, tdi |-> TdiPart]
    OBVIOUS
  <2>. DEFINE r == requests[Current]
  <2>2. /\ r.op = "shift" /\ r.arg = len /\ r.arg > 0 /\ BytesFor(r.arg) <= max_vector_size
        /\ TmsPart = Tms(r.arg) /\ TdiPart = Tdi(r.arg)
    BY <1>1, <1>2, VectorRead
  <2>3. Meant(r) = r /\ Read(a) = a
    BY <2>1, <2>2 DEF Meant, Read
  <2>4. RightAnswers(r) = {[op |-> "shift", bits |-> r.arg, tms |-> Tms(r.arg), tdi |-> Tdi(r.arg)]}
    BY <2>2 DEF RightAnswers
  <2>5. Read(a) \in RightAnswers(Meant(r)) /\ Write(a)
    BY <1>2, <2>1, <2>2, <2>3, <2>4
  <2>. QED
    BY <1>1, <2>5, WriteMaps
<1>3. CASE (Go("closed") \/ Go("crashed")) /\ UNCHANGED answers
  BY <1>1, <1>3, CloseMaps DEF Go, Service!Next
<1>. QED
  BY <1>2, <1>3 DEF HandleData

\* A step of the handler or of its client is a step of the service or changes
\* nothing that the client sees.
LEMMA NextMaps ==
    ASSUME NewForm, IInv, [Next]_<<vars, frequency>>
    PROVE  [Service!Next]_(Service!vars)
<1>1. CASE UNCHANGED <<vars, frequency>>
  BY <1>1, StayMaps DEF vars, Open
<1>2. CASE Next
  <2>1. UNCHANGED frequency
    BY <1>2 DEF Next
  <2>2. CASE Send
    BY <2>1, <2>2, SendMaps DEF Service!Next
  <2>3. CASE HangUp
    BY <2>1, <2>3, StayMaps DEF HangUp, Open
  <2>4. CASE xvc_read_exact
    BY <2>1, <2>4, StayMaps DEF xvc_read_exact, Open
  <2>5. CASE ReadEof
    <3>1. pc \notin {"closed", "crashed"} /\ pc' = "closed" /\ UNCHANGED <<requests, answers, frequency>>
      BY <2>1, <2>5, EofBetween DEF ReadEof, Go
    <3>. QED
      BY <3>1, CloseMaps DEF Service!Next
  <2>6. CASE Command
    <3>1. pc = "cmd" /\ Current <= Len(requests) /\ Go(requests[Current].op)
      BY <2>6, CommandRead DEF Command, Complete
    <3>2. requests[Current].op \in {"getinfo", "settck", "shift"}
      BY <3>1, UnderWay, CurrentRequest, RequestBytes
    <3>3. Open /\ Open' /\ UNCHANGED <<requests, answers, frequency>>
      BY <2>1, <2>6, <3>1, <3>2 DEF Go, Command, Open
    <3>. QED
      BY <3>3, StayMaps
  <2>7. CASE HandleGetinfo
    BY <2>1, <2>7, GetinfoMaps
  <2>8. CASE HandleSettck
    BY <2>1, <2>8, SettckMaps
  <2>9. CASE HandleShift
    <3>1. Open /\ Open' /\ UNCHANGED <<requests, answers, frequency>>
      BY <2>1, <2>9 DEF HandleShift, Complete, Go, Open
    <3>. QED
      BY <3>1, StayMaps
  <2>10. CASE HandleLength
    <3>1. pc \in {"colon", "length"} /\ pc' \in {"length", "closed", "data"} /\ UNCHANGED <<requests, answers, frequency>>
      BY <2>1, <2>10 DEF HandleLength, Go
    <3>2. CASE pc' = "closed"
      BY <3>1, <3>2, CloseMaps DEF Service!Next
    <3>3. CASE pc' # "closed"
      BY <3>1, <3>3, StayMaps DEF Open
    <3>. QED
      BY <3>2, <3>3
  <2>11. CASE HandleData
    BY <2>1, <2>11, DataMaps
  <2>12. CASE Closed
    BY <1>1, <2>1, <2>12 DEF Closed
  <2>. QED
    BY <1>2, <2>2, <2>3, <2>4, <2>5, <2>6, <2>7, <2>8, <2>9, <2>10, <2>11, <2>12 DEF Next, Handler
<1>. QED
  BY <1>1, <1>2

\* The safety of ImplementsService: xvc_handle answers the requests in their order,
\* each with a right answer of its own, however the bytes are cut into reads.
THEOREM HandlerImplementsService ==
    ASSUME NewForm
    PROVE  Spec => Service!Init /\ [][Service!Next]_(Service!vars)
<1>1. Init => Service!Init
  BY InitMaps
<1>2. IInv /\ [Next]_<<vars, frequency>> => [Service!Next]_(Service!vars)
  BY NextMaps
<1>. QED
  BY <1>1, <1>2, BytesTracked, PTL DEF Spec
-----------------------------------------------------------------------------
(* The type correctness, for either form of shift and for fields of any value. *)

\* TypeOK with what it needs: the buffers' contents are numbers, and a vector that is
\* being read has passed the size check.
TypeInv ==
    /\ TypeOK /\ got \in Nat
    /\ frequency \in Frequencies /\ stream \in Seq(Int) /\ cmd_buf \in [0 .. 15 -> Int] /\ vector_buf \in Seq(Int)
    /\ pc = "data" => got <= Len(vector_buf) /\ nr_bytes <= max_vector_size

\* The bytes of a request of any kind.
LEMMA AnyBytes ==
    ASSUME NEW r \in Requests
    PROVE  Bytes(r) \in Seq(Int)
<1>1. Getinfo \in Seq(Int) /\ Settck \in Seq(Int) /\ ShiftNew \in Seq(Int) /\ ShiftOld \in Seq(Int)
  BY DEF Getinfo, Settck, ShiftNew, ShiftOld
<1>2. \/ r = [op |-> "getinfo", arg |-> 0]
      \/ r.op \in {"settck", "shift", "shifte"} /\ r.arg \in Int32
  BY FramingAssumption DEF Requests
<1>3. CASE r = [op |-> "getinfo", arg |-> 0]
  BY <1>1, <1>3 DEF Bytes
<1>4. CASE r.op \in {"settck", "shift", "shifte"} /\ r.arg \in Int32
  <2>1. PICK n : n = r.arg
    OBVIOUS
  <2>2. n \in Int
    BY <1>4, <2>1, SMT DEF Int32
  <2>3. Encode(n) \in Seq(Int) /\ Tms(n) \in Seq(Int) /\ Tdi(n) \in Seq(Int)
    BY <1>4, <2>1, <2>2, EncodeBytes, VectorBytes
  <2>4. CASE r.op = "settck"
    <3>1. Settck \o Encode(n) \in Seq(Int)
      BY <1>1, <2>3, Concatenation
    <3>. QED
      BY <2>1, <2>4, <3>1 DEF Bytes
  <2>5. ASSUME NEW s \in Seq(Int) PROVE s \o Encode(n) \o Tms(n) \o Tdi(n) \in Seq(Int)
    <3>1. s \o Encode(n) \in Seq(Int)
      BY <2>3, Concatenation
    <3>2. s \o Encode(n) \o Tms(n) \in Seq(Int)
      BY <2>3, <3>1, Concatenation
    <3>. QED
      BY <2>3, <3>2, Concatenation
  <2>6. CASE r.op = "shift"
    <3>1. Bytes(r) = ShiftNew \o Encode(n) \o Tms(n) \o Tdi(n)
      BY <2>1, <2>6 DEF Bytes
    <3>. QED
      BY <1>1, <2>5, <3>1
  <2>7. CASE r.op = "shifte"
    <3>1. Bytes(r) = ShiftOld \o Encode(n) \o Tms(n) \o Tdi(n)
      BY <2>1, <2>7 DEF Bytes
    <3>. QED
      BY <1>1, <2>5, <3>1
  <2>. QED
    BY <1>4, <2>4, <2>6, <2>7
<1>. QED
  BY <1>2, <1>3, <1>4

\* Any four bytes are a number, and any number has a size.
LEMMA AnyField ==
    ASSUME cmd_buf \in [0 .. 15 -> Int]
    PROVE  xvc_get_int32(7) \in Int /\ nr_bytes \in Int /\ VectorLength \in Nat
<1>1. \A k \in 0 .. 15 : cmd_buf[k] \in Int
  OBVIOUS
<1>2. xvc_get_int32(6) \in Int /\ xvc_get_int32(7) \in Int
  BY <1>1 DEF xvc_get_int32
<1>3. ASSUME NEW n \in Int PROVE Eighth(n) \in Int /\ PlusSeven(n) \in Int
  BY SMT DEF Eighth, PlusSeven
<1>4. nr_bytes \in Int
  <2>1. PICK n : n = len
    OBVIOUS
  <2>2. n \in Int
    BY <1>2, <2>1 DEF len
  <2>3. PICK m : m = PlusSeven(n)
    OBVIOUS
  <2>. QED
    BY <1>3, <2>1, <2>2, <2>3 DEF nr_bytes
<1>. QED
  BY <1>2, <1>4 DEF VectorLength

\* The length of every read is a number, for the size of the vector being read.
LEMMA WantedType ==
    ASSUME VectorLength \in Nat
    PROVE  Wanted \in Nat
  BY DEF Wanted

\* The period to set is a number.
LEMMA AnyPeriod ==
    ASSUME cmd_buf \in [0 .. 15 -> Int], frequency \in Frequencies
    PROVE  period \in Int
<1>1. frequency \in Nat
  BY FramingAssumption
<1>2. CASE frequency = 0
  BY <1>2, AnyField DEF period
<1>3. CASE frequency # 0
  <2>1. NsPerSecond \div frequency \in Int
    BY <1>1, <1>3, SMT DEF NsPerSecond
  <2>. QED
    BY <1>3, <2>1 DEF period
<1>. QED
  BY <1>2, <1>3

\* On to another read, or to the end.
LEMMA GoType ==
    ASSUME TypeInv, NEW next, Go(next), UNCHANGED frequency,
           next \in {"cmd", "getinfo", "settck", "shift", "colon", "length", "data", "closed", "crashed"},
           next = "data" => nr_bytes <= max_vector_size,
           divisor' \in 0 .. MaxDivisor, faults' \in 0 .. MaxFaults
    PROVE  TypeInv'
<1>1. /\ pc' = next /\ got' = 0 /\ stream' = stream /\ cmd_buf' = cmd_buf /\ vector_buf' = vector_buf
  BY DEF Go
<1>2. VectorLength' \in Nat /\ nr_bytes' = nr_bytes
  BY <1>1, AnyField DEF TypeInv, VectorLength, nr_bytes, len, xvc_get_int32
<1>3. Wanted' \in Nat
  BY <1>2 DEF Wanted
<1>4. Len(vector_buf) \in Nat
  BY DEF TypeInv
<1>5. TypeOK'
  BY <1>1, <1>3 DEF TypeInv, TypeOK
<1>. QED
  BY <1>1, <1>2, <1>4, <1>5 DEF TypeInv

\* A read takes numbers into a buffer that has room for them.
LEMMA ReadType ==
    ASSUME TypeInv, xvc_read_exact, UNCHANGED frequency
    PROVE  TypeInv'
<1>1. pc' = pc /\ divisor' = divisor /\ faults' = faults /\ frequency' = frequency
  BY DEF xvc_read_exact
<1>2. PICK r :
        /\ r \in 1 .. Wanted - got /\ r <= Len(stream) /\ got' = got + r /\ stream' = SubSeq(stream, r + 1, Len(stream))
        /\ cmd_buf' = [k \in DOMAIN cmd_buf |-> LET j == k - Offset - got + 1
                                                IN IF j \in 1 .. r THEN stream[j] ELSE cmd_buf[k]]
        /\ vector_buf' = IF pc = "data" THEN SubSeq(vector_buf, 1, got) \o SubSeq(stream, 1, r) ELSE vector_buf
  BY DEF xvc_read_exact
<1>a. r \in 1 .. Wanted - got /\ r <= Len(stream) /\ got' = got + r /\ stream' = SubSeq(stream, r + 1, Len(stream))
  BY <1>2
<1>b. cmd_buf' = [k \in DOMAIN cmd_buf |-> LET j == k - Offset - got + 1
                                           IN IF j \in 1 .. r THEN stream[j] ELSE cmd_buf[k]]
  BY <1>2
<1>c. vector_buf' = IF pc = "data" THEN SubSeq(vector_buf, 1, got) \o SubSeq(stream, 1, r) ELSE vector_buf
  BY <1>2
<1>3. /\ stream \in Seq(Int) /\ cmd_buf \in [0 .. 15 -> Int] /\ vector_buf \in Seq(Int) /\ got \in Nat
      /\ Len(stream) \in Nat /\ Len(vector_buf) \in Nat
  <2>1. stream \in Seq(Int) /\ cmd_buf \in [0 .. 15 -> Int] /\ vector_buf \in Seq(Int) /\ got \in Nat
    BY DEF TypeInv
  <2>. QED
    BY <2>1, LenProperties
<1>4. nr_bytes \in Int /\ VectorLength \in Nat /\ Wanted \in Nat
  BY <1>3, AnyField, WantedType
<1>5. r \in Nat /\ 1 <= r /\ got + r <= Wanted /\ got' \in Nat
  BY <1>3, <1>4, <1>a
<1>6. stream' \in Seq(Int)
  BY <1>3, <1>5, <1>a, RestOf
<1>7. cmd_buf' \in [0 .. 15 -> Int]
  <2>1. \A j \in 1 .. r : stream[j] \in Int
    <3>1. stream \in Seq(Int) /\ r <= Len(stream) /\ r \in Nat
      BY <1>3, <1>5, <1>a
    <3>. QED
      BY ONLY <3>1
  <2>. QED
    BY <1>3, <1>b, <2>1
<1>8. CASE pc # "data"
  <2>1. Wanted' = Wanted
    BY <1>1, <1>8 DEF Wanted
  <2>2. vector_buf' = vector_buf
    BY <1>8, <1>c
  <2>. QED
    BY <1>1, <1>5, <1>6, <1>7, <1>8, <1>a, <2>1, <2>2 DEF TypeInv, TypeOK
<1>9. CASE pc = "data"
  <2>1. Offset = 16 /\ Wanted = VectorLength
    BY <1>9 DEF Offset, Wanted
  <2>2. \A k \in 0 .. 15 : cmd_buf'[k] = cmd_buf[k]
    <3>1. SUFFICES ASSUME NEW k \in 0 .. 15 PROVE cmd_buf'[k] = cmd_buf[k]
      OBVIOUS
    <3>2. ~(k - Offset - got + 1 \in 1 .. r)
      BY <1>3, <1>5, <2>1
    <3>. QED
      BY <1>3, <1>b, <3>2
  <2>3. cmd_buf' = cmd_buf
    <3>1. cmd_buf = [k \in 0 .. 15 |-> cmd_buf[k]] /\ cmd_buf' = [k \in 0 .. 15 |-> cmd_buf'[k]]
      BY <1>3, <1>7, Zenon
    <3>. QED
      BY <2>2, <3>1, Zenon
  <2>4. nr_bytes' = nr_bytes /\ Wanted' = Wanted
    BY <1>1, <1>9, <2>3 DEF Wanted, VectorLength, nr_bytes, len, xvc_get_int32
  <2>5. got <= Len(vector_buf) /\ nr_bytes <= max_vector_size
    BY <1>9 DEF TypeInv
  <2>6. SubSeq(vector_buf, 1, got) \in Seq(Int) /\ Len(SubSeq(vector_buf, 1, got)) = got
    BY <1>3, <2>5, PrefixOf
  <2>7. SubSeq(stream, 1, r) \in Seq(Int) /\ Len(SubSeq(stream, 1, r)) = r
    BY <1>3, <1>5, <1>a, PrefixOf
  <2>8. vector_buf' \in Seq(Int) /\ Len(vector_buf') = got + r
    BY <1>9, <1>c, <2>6, <2>7, Concatenation
  <2>9. max_vector_size \in Nat
    BY FramingAssumption
  <2>10. got + r <= 2 * max_vector_size
    <3>1. nr_bytes > 0 /\ VectorLength = 2 * nr_bytes
      BY <1>3, <1>4, <1>5, <2>1 DEF VectorLength
    <3>2. PICK m : m = nr_bytes
      OBVIOUS
    <3>3. m \in Int /\ m <= max_vector_size /\ got + r <= 2 * m
      BY <1>4, <1>5, <2>1, <2>5, <3>1, <3>2
    <3>. QED
      BY <1>3, <1>5, <2>9, <3>3
  <2>11. TypeOK'
    BY <1>1, <1>4, <1>5, <1>a, <2>4, <2>8, <2>10 DEF TypeInv, TypeOK
  <2>. QED
    BY <1>1, <1>5, <1>6, <1>7, <1>a, <2>4, <2>5, <2>8, <2>11 DEF TypeInv
<1>. QED
  BY <1>8, <1>9

LEMMA InitType ==
    ASSUME Init
    PROVE  TypeInv
<1>1. /\ frequency \in Frequencies /\ stream = <<>> /\ pc = "cmd" /\ got = 0
      /\ cmd_buf = [k \in 0 .. 15 |-> 0] /\ vector_buf = <<>> /\ faults = 0
  BY DEF Init
<1>2. divisor \in 0 .. MaxDivisor
  <2>1. 29 \in 0 .. MaxDivisor
    BY SMT DEF MaxDivisor
  <2>2. DivisorOf(frequency) \in 0 .. MaxDivisor
    BY <1>1, FramingAssumption, DivisorType
  <2>3. divisor = 29 \/ divisor = DivisorOf(frequency)
    BY Zenon DEF Init
  <2>. QED
    BY <2>1, <2>2, <2>3
<1>3. Len(vector_buf) = 0 /\ vector_buf \in Seq(Int) /\ stream \in Seq(Int)
  BY <1>1, EmptySeq
<1>4. TypeOK
  BY <1>1, <1>2, <1>3, FramingAssumption DEF TypeOK, Wanted
<1>. QED
  BY <1>1, <1>3, <1>4 DEF TypeInv

\* Every action keeps the type, whatever the bytes are.
LEMMA NextType ==
    ASSUME TypeInv, [Next]_<<vars, frequency>>
    PROVE  TypeInv'
<1>1. /\ divisor \in 0 .. MaxDivisor /\ faults \in 0 .. MaxFaults /\ MaxFaults \in Nat /\ got \in Nat
      /\ max_vector_size \in Nat /\ nr_bytes \in Int
  BY AnyField, FramingAssumption DEF TypeInv, TypeOK
<1>2. CASE UNCHANGED <<vars, frequency>>
  <2>1. /\ stream' = stream /\ pc' = pc /\ got' = got /\ cmd_buf' = cmd_buf /\ vector_buf' = vector_buf
        /\ divisor' = divisor /\ faults' = faults /\ frequency' = frequency
    BY <1>2 DEF vars
  <2>2. Wanted' = Wanted /\ nr_bytes' = nr_bytes
    BY <2>1 DEF Wanted, VectorLength, nr_bytes, len, xvc_get_int32
  <2>. QED
    BY <2>1, <2>2 DEF TypeInv, TypeOK
<1>3. CASE Next
  <2>1. frequency' = frequency
    BY <1>3 DEF Next
  <2>2. CASE Send \/ HangUp
    <3>1. /\ pc' = pc /\ got' = got /\ cmd_buf' = cmd_buf /\ vector_buf' = vector_buf
          /\ divisor' = divisor /\ faults' = faults
      BY <2>2 DEF Send, HangUp
    <3>2. Wanted' = Wanted /\ nr_bytes' = nr_bytes
      BY <3>1 DEF Wanted, VectorLength, nr_bytes, len, xvc_get_int32
    <3>3. stream' \in Seq(Int)
      <4>1. stream \in Seq(Int)
        BY DEF TypeInv
      <4>2. CASE Send
        <5>1. PICK r \in Requests : stream' = stream \o Bytes(r)
          BY <4>2 DEF Send
        <5>. QED
          BY <4>1, <5>1, AnyBytes, Concatenation
      <4>3. CASE HangUp
        BY <4>1, <4>3 DEF HangUp
      <4>. QED
        BY <2>2, <4>2, <4>3
    <3>. QED
      BY <2>1, <3>1, <3>2, <3>3 DEF TypeInv, TypeOK
  <2>3. CASE xvc_read_exact
    BY <2>1, <2>3, ReadType
  <2>4. CASE ReadEof
    BY <1>1, <2>1, <2>4, GoType DEF ReadEof
  <2>5. CASE Command
    BY <1>1, <2>1, <2>5, GoType DEF Command
  <2>6. ASSUME NEW a, Write(a), divisor' \in 0 .. MaxDivisor, faults' \in 0 .. MaxFaults
        PROVE  TypeInv'
    BY <2>1, <2>6, GoType DEF Write
  <2>7. CASE HandleGetinfo
    BY <1>1, <2>6, <2>7 DEF HandleGetinfo
  <2>8. CASE HandleSettck
    <3>1. period \in Int
      BY AnyPeriod DEF TypeInv
    <3>2. DivisorOf(FrequencyOf(period)) \in 0 .. MaxDivisor
      <4>1. PICK p : p = period
        OBVIOUS
      <4>2. FrequencyOf(p) \in Nat
        BY <3>1, <4>1, FrequencyType
      <4>. QED
        BY <4>1, <4>2, DivisorType
    <3>3. CASE /\ divisor' = DivisorOf(FrequencyOf(period)) /\ faults' = faults
               /\ Write([op |-> "settck", bytes |-> xvc_put_int32(ActualPeriod(divisor'))])
      <4>1. divisor' \in 0 .. MaxDivisor /\ faults' \in 0 .. MaxFaults
        BY <1>1, <3>2, <3>3
      <4>2. PICK a : a = [op |-> "settck", bytes |-> xvc_put_int32(ActualPeriod(divisor'))]
        OBVIOUS
      <4>. QED
        BY <2>6, <3>3, <4>1, <4>2
    <3>4. CASE /\ faults < MaxFaults /\ faults' = faults + 1 /\ divisor' = divisor
               /\ Write([op |-> "settck", bytes |-> xvc_put_int32(period)])
      <4>1. divisor' \in 0 .. MaxDivisor /\ faults' \in 0 .. MaxFaults
        BY <1>1, <3>4
      <4>2. PICK a : a = [op |-> "settck", bytes |-> xvc_put_int32(period)]
        OBVIOUS
      <4>. QED
        BY <2>6, <3>4, <4>1, <4>2
    <3>. QED
      BY <2>8, <3>3, <3>4 DEF HandleSettck
  <2>9. CASE HandleShift
    BY <1>1, <2>1, <2>9, GoType DEF HandleShift
  <2>10. CASE HandleLength
    <3>1. PICK next : next = IF pc = "colon" THEN "length" ELSE IF TooLarge THEN "closed" ELSE "data"
      OBVIOUS
    <3>2. Go(next) /\ divisor' = divisor /\ faults' = faults
      BY <2>10, <3>1 DEF HandleLength
    <3>3. next \in {"length", "closed", "data"} /\ (next = "data" => nr_bytes <= max_vector_size)
      BY <1>1, <3>1 DEF TooLarge
    <3>. QED
      BY <1>1, <2>1, <3>2, <3>3, GoType
  <2>11. CASE HandleData
    <3>1. divisor' = divisor /\ faults' \in 0 .. MaxFaults
      BY <1>1, <2>11 DEF HandleData
    <3>2. \/ Go("crashed") \/ Go("closed")
          \/ Write([op |-> "shift", bits |-> len, tms |-> TmsPart, tdi |-> TdiPart])
      BY <2>11 DEF HandleData
    <3>3. CASE Go("crashed") \/ Go("closed")
      BY <1>1, <2>1, <3>1, <3>3, GoType
    <3>4. CASE Write([op |-> "shift", bits |-> len, tms |-> TmsPart, tdi |-> TdiPart])
      <4>1. PICK a : a = [op |-> "shift", bits |-> len, tms |-> TmsPart, tdi |-> TdiPart]
        OBVIOUS
      <4>. QED
        BY <1>1, <2>6, <3>1, <3>4, <4>1
    <3>. QED
      BY <3>2, <3>3, <3>4
  <2>12. CASE Closed
    BY <1>2, <2>1, <2>12 DEF Closed
  <2>. QED
    BY <1>3, <2>2, <2>3, <2>4, <2>5, <2>7, <2>8, <2>9, <2>10, <2>11, <2>12 DEF Next, Handler
<1>. QED
  BY <1>2, <1>3

\* The handler's reads stay within their length and the vector buffer within
\* 2 * max_vector_size, and the divisor is 16 bits wide (xvc_read_exact,
\* mpsse_adapter_set_frequency): for requests in either form and fields of any value.
\* A negative size does not make a read leave its buffer; it ends in "crashed".
THEOREM FramingTypeCorrect == Spec => []TypeOK
<1>1. Init => TypeInv
  BY InitType
<1>2. TypeInv /\ [Next]_<<vars, frequency>> => TypeInv'
  BY NextType
<1>3. TypeInv => TypeOK
  BY DEF TypeInv
<1>. QED
  BY <1>1, <1>2, <1>3, PTL DEF Spec
=============================================================================
