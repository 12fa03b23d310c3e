--------------------------- MODULE JtagTapProofs ---------------------------
(***************************************************************************)
(* What a walk along a TMS vector does, for vectors of any length: facts   *)
(* about jtag_walk, by induction over the vector in the form "a set of     *)
(* places with a least element".                                           *)
(***************************************************************************)
EXTENDS JtagTap, TLAPS, WellFoundedInduction

\* A set of places that is not empty has a first one.
LEMMA FirstPlace ==
    ASSUME NEW places \in SUBSET Nat, places # {}
    PROVE  \E m \in places : \A j \in places : m <= j
<1>1. PICK m \in places : \A j \in places : ~(<<j, m>> \in OpToRel(<, Nat))
  BY NatLessThanWellFounded, WFMin
<1>2. \A j \in places : ~(j < m) BY <1>1 DEF OpToRel
<1>3. \A j \in places : m <= j BY <1>2
<1> QED BY <1>3

\* The two copies of the TAP graph are the same function, so that the tracker of
\* xvc_protocol.c and the adapter of mpsse_adapter.c walk alike.
THEOREM TablesAgree == jtag_next_state = mpsse_next_state
<1>1. \A s \in JtagStates : jtag_next_state[s] = mpsse_next_state[s]
  BY DEF JtagStates, jtag_next_state, mpsse_next_state
<1>. QED
  BY <1>1 DEF jtag_next_state, mpsse_next_state

\* The tables stay within the sixteen states.
LEMMA StepType ==
    ASSUME NEW s \in JtagStates, NEW t \in {0, 1}
    PROVE  jtag_step(jtag_next_state, s, t) \in JtagStates
BY DEF JtagStates, jtag_next_state, jtag_step

\* The states that the first m bits of a vector lead through.
Steps(s, tms, m, at) ==
    at[0] = s /\ \A k \in 1 .. m : at[k] = jtag_step(jtag_next_state, at[k - 1], tms[k])
Path(s, tms, m, at) == at \in [0 .. m -> JtagStates] /\ Steps(s, tms, m, at)

LEMMA PathLonger ==
    ASSUME NEW s \in JtagStates, NEW tms \in Seq({0, 1}), NEW m \in Nat, m < Len(tms),
           NEW at, Path(s, tms, m, at)
    PROVE  \E longer : Path(s, tms, m + 1, longer)
<1> DEFINE next == jtag_step(jtag_next_state, at[m], tms[m + 1])
           longer == [k \in 0 .. m + 1 |-> IF k = m + 1 THEN next ELSE at[k]]
<1>1. at \in [0 .. m -> JtagStates] /\ at[0] = s
      /\ \A k \in 1 .. m : at[k] = jtag_step(jtag_next_state, at[k - 1], tms[k])
  BY DEF Path, Steps
<1>2. tms[m + 1] \in {0, 1} /\ at[m] \in JtagStates BY <1>1
<1>3. next \in JtagStates BY <1>2, StepType
<1> HIDE DEF next
<1>4. longer \in [0 .. m + 1 -> JtagStates] /\ longer[0] = s BY <1>1, <1>3
<1>5. ASSUME NEW k \in 1 .. m + 1 PROVE longer[k] = jtag_step(jtag_next_state, longer[k - 1], tms[k])
  <2>1. CASE k = m + 1
    <3>1. longer[k] = next /\ longer[k - 1] = at[m] BY <2>1
    <3> QED BY <2>1, <3>1 DEF next
  <2>2. CASE k # m + 1
    <3>1. k \in 1 .. m /\ longer[k] = at[k] /\ longer[k - 1] = at[k - 1] BY <2>2
    <3> QED BY <1>1, <3>1
  <2> QED BY <2>1, <2>2
<1> HIDE DEF longer
<1>6. Path(s, tms, m + 1, longer) BY <1>4, <1>5 DEF Path, Steps
<1> QED BY <1>6

LEMMA PathExists ==
    ASSUME NEW s \in JtagStates, NEW tms \in Seq({0, 1}), NEW m \in 0 .. Len(tms)
    PROVE  \E at : Path(s, tms, m, at)
<1> DEFINE without == {j \in 0 .. Len(tms) : ~\E at : Path(s, tms, j, at)}
<1> SUFFICES ASSUME without # {} PROVE FALSE
  OBVIOUS
<1>1. without \in SUBSET Nat OBVIOUS
<1>2. PICK j \in without : \A i \in without : j <= i BY <1>1, FirstPlace
<1>3. j # 0
  <2>1. Path(s, tms, 0, [k \in 0 .. 0 |-> s]) BY DEF Path, Steps
  <2> QED BY <1>2, <2>1
<1>4. j \in 1 .. Len(tms) /\ j - 1 \in 0 .. Len(tms) /\ ~(j <= j - 1) BY <1>3
<1>5. j - 1 \notin without BY <1>2, <1>4
<1>6. PICK at : Path(s, tms, j - 1, at) BY <1>4, <1>5
<1>7. j - 1 \in Nat /\ j - 1 < Len(tms) /\ (j - 1) + 1 = j BY <1>4
<1>8. \E longer : Path(s, tms, (j - 1) + 1, longer) BY <1>6, <1>7, PathLonger
<1> QED BY <1>2, <1>7, <1>8

\* Two vectors have the first n bits in common.
Alike(v, w, n) == \A k \in 1 .. n : v[k] = w[k]

\* There is one path.
LEMMA PathUnique ==
    ASSUME NEW s, NEW v, NEW w, NEW m \in Nat, NEW at, Steps(s, v, m, at), NEW n \in Nat, n <= m,
           NEW bt, Steps(s, w, n, bt), Alike(v, w, n)
    PROVE  \A k \in 0 .. n : at[k] = bt[k]
<1> DEFINE parted == {k \in 0 .. n : at[k] # bt[k]}
<1> SUFFICES ASSUME parted # {} PROVE FALSE
  OBVIOUS
<1>1. parted \in SUBSET Nat OBVIOUS
<1>2. PICK j \in parted : \A i \in parted : j <= i BY <1>1, FirstPlace
<1>3. j # 0 BY <1>2 DEF Steps
<1>4. j \in 1 .. n /\ j \in 1 .. m /\ j - 1 \in 0 .. n /\ ~(j <= j - 1) BY <1>3
<1>5. at[j - 1] = bt[j - 1] BY <1>2, <1>4
<1>6. /\ at[j] = jtag_step(jtag_next_state, at[j - 1], v[j])
      /\ bt[j] = jtag_step(jtag_next_state, bt[j - 1], w[j])
  BY <1>4 DEF Steps
<1>7. at[j] = bt[j] BY <1>4, <1>5, <1>6 DEF Alike
<1> QED BY <1>2, <1>7

LEMMA SamePath ==
    ASSUME NEW s, NEW w, NEW n \in Nat, NEW at, Steps(s, w, n, at), NEW bt, Steps(s, w, n, bt)
    PROVE  \A k \in 0 .. n : at[k] = bt[k]
<1>1. Alike(w, w, n) /\ n <= n BY DEF Alike
<1> QED BY <1>1, PathUnique

\* jtag_path is the path.
LEMMA PathIsPath ==
    ASSUME NEW s \in JtagStates, NEW tms \in Seq({0, 1})
    PROVE  Path(s, tms, Len(tms), jtag_path(jtag_next_state, s, tms))
<1> DEFINE Def(g) == [k \in 0 .. Len(tms) |-> IF k = 0 THEN s ELSE jtag_step(jtag_next_state, g[k - 1], tms[k])]
           f == CHOOSE g : g = Def(g)
<1>1. Len(tms) \in Nat OBVIOUS
<1>2. PICK at : Path(s, tms, Len(tms), at) BY <1>1, PathExists
<1>3. at = Def(at)
  <2>1. at \in [0 .. Len(tms) -> JtagStates] BY <1>2 DEF Path, Steps
  <2>2. \A k \in 0 .. Len(tms) : at[k] = IF k = 0 THEN s ELSE jtag_step(jtag_next_state, at[k - 1], tms[k])
    BY <1>1, <1>2 DEF Path, Steps
  <2> QED BY <2>1, <2>2
<1>4. f = Def(f) BY <1>3
<1>5. jtag_path(jtag_next_state, s, tms) = f BY DEF jtag_path
<1> HIDE DEF f
<1>6. Steps(s, tms, Len(tms), f) BY <1>1, <1>4 DEF Steps
<1>7. Steps(s, tms, Len(tms), at) BY <1>2 DEF Path
<1>8. \A k \in 0 .. Len(tms) : at[k] = f[k]
  <2>1. Alike(tms, tms, Len(tms)) BY DEF Alike
  <2> QED BY <1>1, <1>6, <1>7, <2>1, PathUnique
<1>9. f \in [0 .. Len(tms) -> JtagStates]
  <2>1. \A k \in 0 .. Len(tms) : f[k] \in JtagStates BY <1>2, <1>8 DEF Path
  <2> QED BY <1>4, <2>1
<1> QED BY <1>5, <1>6, <1>9 DEF Path

\* The walk is the end of the path.
LEMMA WalkIsPath ==
    ASSUME NEW s \in JtagStates, NEW tms \in Seq({0, 1})
    PROVE  \E at : Path(s, tms, Len(tms), at) /\ jtag_walk(jtag_next_state, s, tms) = at[Len(tms)]
BY PathIsPath DEF jtag_walk

\* A walk from a TAP state along any vector ends in a TAP state, in either copy of the
\* graph (xvc_handle's tracker, mpsse_adapter_scan's state).
THEOREM WalkType ==
    ASSUME NEW s \in JtagStates, NEW tms \in Seq({0, 1})
    PROVE  /\ jtag_walk(jtag_next_state, s, tms) \in JtagStates
           /\ jtag_walk(mpsse_next_state, s, tms) \in JtagStates
<1>1. PICK at : Path(s, tms, Len(tms), at) /\ jtag_walk(jtag_next_state, s, tms) = at[Len(tms)]
  BY WalkIsPath
<1>2. Len(tms) \in 0 .. Len(tms) OBVIOUS
<1>3. jtag_walk(jtag_next_state, s, tms) \in JtagStates BY <1>1, <1>2 DEF Path
<1> QED BY <1>3, TablesAgree

\* The walk along the first bits of a vector is on the path along all of it.
LEMMA WalkAlong ==
    ASSUME NEW s \in JtagStates, NEW tms \in Seq({0, 1}), NEW j \in 0 .. Len(tms)
    PROVE  jtag_walk(jtag_next_state, s, SubSeq(tms, 1, j)) = jtag_path(jtag_next_state, s, tms)[j]
<1> DEFINE front == SubSeq(tms, 1, j)
           at == jtag_path(jtag_next_state, s, tms)
<1>1. Path(s, tms, Len(tms), at) BY PathIsPath
<1>2. PICK top \in Nat : top = Len(tms) OBVIOUS
<1>3. front \in Seq({0, 1}) /\ Len(front) = j /\ \A i \in 1 .. j : tms[i] = front[i] OBVIOUS
<1> HIDE DEF front, at
<1>4. PICK bt : Path(s, front, j, bt) /\ jtag_walk(jtag_next_state, s, front) = bt[j]
  BY <1>3, WalkIsPath
<1>5. Steps(s, tms, top, at) /\ Steps(s, front, j, bt) BY <1>1, <1>2, <1>4 DEF Path
<1>6. j \in Nat /\ j <= top /\ j \in 0 .. j BY <1>2
<1>7. Alike(tms, front, j) BY <1>3 DEF Alike
<1>8. \A i \in 0 .. j : at[i] = bt[i] BY <1>5, <1>6, <1>7, PathUnique
<1>9. at[j] = bt[j] BY <1>6, <1>8
<1> QED BY <1>4, <1>9 DEF front, at

\* A path goes on as the path from where it has come to.
LEMMA PathJoin ==
    ASSUME NEW s \in JtagStates, NEW v \in Seq({0, 1}), NEW w \in Seq({0, 1}), NEW c \in Nat, c + Len(w) <= Len(v),
           \A k \in 1 .. Len(w) : w[k] = v[c + k]
    PROVE  \A k \in 0 .. Len(w) :
             jtag_path(jtag_next_state, jtag_path(jtag_next_state, s, v)[c], w)[k] = jtag_path(jtag_next_state, s, v)[c + k]
<1> DEFINE at == jtag_path(jtag_next_state, s, v)
<1>1. PICK n \in Nat, top \in Nat : n = Len(w) /\ top = Len(v) /\ c + n <= top OBVIOUS
<1>2. Path(s, v, top, at) BY <1>1, PathIsPath
<1> HIDE DEF at
<1>3. at \in [0 .. top -> JtagStates] /\ \A k \in 1 .. top : at[k] = jtag_step(jtag_next_state, at[k - 1], v[k])
  BY <1>2 DEF Path, Steps
<1>4. at[c] \in JtagStates BY <1>1, <1>3
<1> DEFINE ct == [k \in 0 .. n |-> at[c + k]]
           bt == jtag_path(jtag_next_state, at[c], w)
<1>5. Steps(at[c], w, n, ct)
  <2>1. ct[0] = at[c] OBVIOUS
  <2>2. ASSUME NEW k \in 1 .. n PROVE ct[k] = jtag_step(jtag_next_state, ct[k - 1], w[k])
    <3>1. c + k \in 1 .. top /\ (c + k) - 1 = c + (k - 1) BY <1>1
    <3>2. ct[k] = at[c + k] /\ ct[k - 1] = at[c + (k - 1)] /\ w[k] = v[c + k] BY <1>1
    <3> QED BY <1>3, <3>1, <3>2
  <2> HIDE DEF ct
  <2> QED BY <2>1, <2>2 DEF Steps
<1>6. Path(at[c], w, n, bt) BY <1>1, <1>4, PathIsPath
<1> HIDE DEF bt
<1>7. Steps(at[c], w, n, bt) BY <1>6 DEF Path
<1>8. PICK from : from = at[c] OBVIOUS
<1>9. \A k \in 0 .. n : bt[k] = ct[k]
  <2> HIDE DEF ct
  <2>1. Steps(from, w, n, bt) /\ Steps(from, w, n, ct) BY <1>5, <1>7, <1>8
  <2> QED BY <2>1, SamePath
<1>10. \A k \in 0 .. n : ct[k] = at[c + k] OBVIOUS
<1> HIDE DEF ct
<1>11. \A k \in 0 .. n : bt[k] = at[c + k] BY <1>9, <1>10
<1>12. \A k \in 0 .. Len(w) : bt[k] = at[c + k] BY <1>1, <1>11, Zenon
<1> QED BY <1>12, Zenon DEF at, bt

\* Clocking TMS high five times resets the TAP from every state.
THEOREM FiveOnesReset ==
    ASSUME NEW s \in JtagStates
    PROVE  LET high(t) == jtag_step(jtag_next_state, t, 1)
           IN high(high(high(high(high(s))))) = "TEST_LOGIC_RESET"
<1>. DEFINE high(t) == jtag_step(jtag_next_state, t, 1)
            Near1 == {"TEST_LOGIC_RESET", "SELECT_IR_SCAN"}
            Near2 == Near1 \cup {"SELECT_DR_SCAN"}
            Near3 == Near2 \cup {"RUN_TEST_IDLE", "UPDATE_DR", "UPDATE_IR"}
            Near4 == Near3 \cup {"EXIT1_DR", "EXIT1_IR", "EXIT2_DR", "EXIT2_IR"}
<1>1. \A t \in JtagStates : high(t) \in Near4
  BY DEF JtagStates, jtag_next_state, jtag_step
<1>2. \A t \in JtagStates : t \in Near4 => high(t) \in Near3
  BY DEF JtagStates, jtag_next_state, jtag_step
<1>3. \A t \in JtagStates : t \in Near3 => high(t) \in Near2
  BY DEF JtagStates, jtag_next_state, jtag_step
<1>4. \A t \in JtagStates : t \in Near2 => high(t) \in Near1
  BY DEF JtagStates, jtag_next_state, jtag_step
<1>5. \A t \in JtagStates : t \in Near1 => high(t) = "TEST_LOGIC_RESET"
  BY DEF JtagStates, jtag_next_state, jtag_step
<1>6. \A t \in JtagStates : high(t) \in JtagStates
  BY StepType
<1>. HIDE DEF high, Near1, Near2, Near3, Near4
<1>7. high(high(high(high(high(s))))) = "TEST_LOGIC_RESET"
  BY <1>1, <1>2, <1>3, <1>4, <1>5, <1>6
<1>. QED
  BY <1>7 DEF high

\* Each bogus movement leads back to the state it starts from, which is why
\* withholding it from both trackers keeps them in step with the client's view.
THEOREM BogusReturns ==
    LET high(s) == jtag_step(jtag_next_state, s, 1)
        low(s) == jtag_step(jtag_next_state, s, 0)
    IN /\ high(low(high(high("EXIT1_DR")))) = "EXIT1_DR"
       /\ high(low(high(high(high("EXIT1_IR"))))) = "EXIT1_IR"
BY DEF JtagStates, jtag_next_state, jtag_step

\* A path is in Test-Logic-Reset after five ones.
LEMMA PathResets ==
    ASSUME NEW s, NEW tms \in Seq({0, 1}), NEW at, Path(s, tms, Len(tms), at),
           NEW i \in 1 .. Len(tms), i + 4 <= Len(tms), \A j \in i .. i + 4 : tms[j] = 1
    PROVE  at[i + 4] = "TEST_LOGIC_RESET"
<1> DEFINE high(t) == jtag_step(jtag_next_state, t, 1)
<1>1. ASSUME NEW j \in i .. i + 4 PROVE at[j] = high(at[j - 1])
  <2>1. j \in 1 .. Len(tms) OBVIOUS
  <2> QED BY <2>1 DEF Path, Steps
<1>2. /\ i \in i .. i + 4 /\ i + 1 \in i .. i + 4 /\ i + 2 \in i .. i + 4 /\ i + 3 \in i .. i + 4
      /\ i + 4 \in i .. i + 4 /\ i - 1 \in 0 .. Len(tms)
      /\ (i + 1) - 1 = i /\ (i + 2) - 1 = i + 1 /\ (i + 3) - 1 = i + 2 /\ (i + 4) - 1 = i + 3
  OBVIOUS
<1> HIDE DEF high
<1>3. /\ at[i] = high(at[i - 1]) /\ at[i + 1] = high(at[i]) /\ at[i + 2] = high(at[i + 1])
      /\ at[i + 3] = high(at[i + 2]) /\ at[i + 4] = high(at[i + 3])
  BY <1>1, <1>2
<1>4. at[i + 4] = high(high(high(high(high(at[i - 1]))))) BY <1>3
<1>5. at[i - 1] \in JtagStates BY <1>2 DEF Path
<1>6. high(high(high(high(high(at[i - 1]))))) = "TEST_LOGIC_RESET" BY <1>5, FiveOnesReset DEF high
<1> QED BY <1>4, <1>6

\* Five ones anywhere in a vector, and walks along it end in the same state wherever
\* they began.
THEOREM ResetJoins ==
    ASSUME NEW s \in JtagStates, NEW t \in JtagStates, NEW tms \in Seq({0, 1}), HoldsReset(tms)
    PROVE  jtag_walk(jtag_next_state, s, tms) = jtag_walk(jtag_next_state, t, tms)
<1>1. PICK at : Path(s, tms, Len(tms), at) /\ jtag_walk(jtag_next_state, s, tms) = at[Len(tms)]
  BY WalkIsPath
<1>2. PICK bt : Path(t, tms, Len(tms), bt) /\ jtag_walk(jtag_next_state, t, tms) = bt[Len(tms)]
  BY WalkIsPath
<1>3. PICK i \in 1 .. Len(tms) : i + 4 <= Len(tms) /\ \A j \in i .. i + 4 : tms[j] = 1
  BY DEF HoldsReset
<1>4. at[i + 4] = "TEST_LOGIC_RESET" /\ bt[i + 4] = "TEST_LOGIC_RESET" BY <1>1, <1>2, <1>3, PathResets
<1> DEFINE parted == {k \in i + 4 .. Len(tms) : at[k] # bt[k]}
<1>5. parted = {}
  <2> SUFFICES ASSUME parted # {} PROVE FALSE
    OBVIOUS
  <2>1. parted \in SUBSET Nat OBVIOUS
  <2>2. PICK j \in parted : \A k \in parted : j <= k BY <2>1, FirstPlace
  <2>3. j # i + 4 BY <1>4, <2>2
  <2>4. j \in 1 .. Len(tms) /\ j - 1 \in i + 4 .. Len(tms) /\ ~(j <= j - 1) BY <2>3
  <2>5. at[j - 1] = bt[j - 1] BY <2>2, <2>4
  <2>6. /\ at[j] = jtag_step(jtag_next_state, at[j - 1], tms[j])
        /\ bt[j] = jtag_step(jtag_next_state, bt[j - 1], tms[j])
    BY <1>1, <1>2, <2>4 DEF Path, Steps
  <2> QED BY <2>2, <2>5, <2>6
<1>6. Len(tms) \in i + 4 .. Len(tms) BY <1>3
<1> QED BY <1>1, <1>2, <1>5, <1>6
=============================================================================
