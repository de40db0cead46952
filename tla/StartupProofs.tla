---------------------------- MODULE StartupProofs ----------------------------
(***************************************************************************)
(* Theorems about start-up: the state machine of main.go, and what the two *)
(* loaders return for every file.  A loader is a fold over the records; as *)
(* with the sums of DataProofs, what it computes is proved by minimal      *)
(* counterexample: first that the fold is one turn after another, then the *)
(* description of the loop after n records, for the least n it fails at.   *)
(***************************************************************************)
EXTENDS StartupProps, DataProofs, SequenceTheorems

----------------------------------------------------------------------------
(* Folds over a file                                                       *)
(*                                                                         *)
(* Three folds run over a file: those of the two loaders, and the sum of   *)
(* the sizes.  They are treated as one, which kind tells apart.            *)

Kinds        == {"replayer", "parity", "bytes"}
States(kind) == IF kind = "bytes" THEN Nat ELSE Loading
Base(kind)   == IF kind = "bytes" THEN 0 ELSE NothingLoaded
Turn(kind, st, r) == IF kind = "replayer" THEN LoadTurn(st, r)
                     ELSE IF kind = "parity" THEN ParityLoadTurn(st, r) ELSE st + Bytes(r)

\* g satisfies the recursive equation of the fold.
Reads(g, kind, f, S) ==
  g = [s \in SUBSET S |-> IF s = {} THEN Base(kind) ELSE Turn(kind, g[s \ {Max(s)}], f[Max(s)])]

\* The fold over the first n records.
After(kind, f, n) == (CHOOSE g : Reads(g, kind, f, DOMAIN f))[1..n]

\* The fields of a record, and its size.
LEMMA RecordFields ==
  ASSUME NEW r \in Record
  PROVE  /\ r.methodLen \in Nat /\ r.payloadLen \in Nat /\ r.cut \in BOOLEAN
         /\ Bytes(r) \in Nat
<1>1. r.methodLen \in Nat /\ r.payloadLen \in Nat /\ r.cut \in BOOLEAN
  BY DEF Record
<1> QED
  BY <1>1, ReplayFileAssumption DEF Bytes

\* A turn leads from states to states.
LEMMA TurnTyped ==
  ASSUME NEW kind \in Kinds
  PROVE  /\ Base(kind) \in States(kind)
         /\ \A st \in States(kind), r \in Record : Turn(kind, st, r) \in States(kind)
<1>1. NothingLoaded \in Loading
  BY DEF NothingLoaded, Loading
<1>2. ASSUME NEW st \in Loading, NEW r \in Record
      PROVE  LoadTurn(st, r) \in Loading /\ ParityLoadTurn(st, r) \in Loading
  <2>1. st.reqs \in Seq(Record) /\ st.totalBytes + Bytes(r) \in Nat
    BY RecordFields DEF Loading
  <2>2. Append(st.reqs, r) \in Seq(Record)
    BY <2>1
  <2>3. \A reqs \in Seq(Record) : [st EXCEPT !.totalBytes = st.totalBytes + Bytes(r), !.reqs = reqs] \in Loading
    BY <2>1 DEF Loading
  <2>4. [st EXCEPT !.err = TRUE] \in Loading
    BY DEF Loading
  <2> QED
    BY <2>1, <2>2, <2>3, <2>4 DEF LoadTurn, ParityLoadTurn
<1>3. \A st \in Nat, r \in Record : st + Bytes(r) \in Nat
  BY RecordFields
<1> QED
  BY <1>1, <1>2, <1>3 DEF Kinds, States, Base, Turn

\* So the fold satisfies its equation: the turn as a function has a solution,
\* which never leaves the states, where the function is the turn.
LEMMA FoldSolved ==
  ASSUME NEW kind \in Kinds, NEW f \in Seq(Record)
  PROVE  Reads(CHOOSE g : Reads(g, kind, f, DOMAIN f), kind, f, DOMAIN f)
<1> DEFINE S == DOMAIN f
           T == [p \in States(kind) \X Record |-> Turn(kind, p[1], p[2])]
<1>1. Positions(S) /\ \A i \in S : f[i] \in Record
  <2>1. S = 1..Len(f) /\ Len(f) \in Nat
    OBVIOUS
  <2> QED
    BY <2>1, FS_Interval DEF Positions
<1>2. T \in [States(kind) \X Record -> States(kind)] /\ Base(kind) \in States(kind)
  BY TurnTyped
<1>3. PICK g : Solved(g, States(kind), Record, T, Base(kind), f, S)
  <2> HIDE DEF S, T
  <2> QED
    BY <1>1, <1>2, SolvedExists
<1>4. ASSUME NEW s \in SUBSET S
      PROVE  g[s] = IF s = {} THEN Base(kind) ELSE Turn(kind, g[s \ {Max(s)}], f[Max(s)])
  <2>1. /\ g[s] = IF s = {} THEN Base(kind) ELSE T[<<g[s \ {Max(s)}], f[Max(s)]>>]
        /\ s # {} => g[s \ {Max(s)}] \in States(kind) /\ f[Max(s)] \in Record
    BY <1>3 DEF Solved
  <2> QED
    BY <2>1
<1>5. g = [s \in SUBSET S |-> g[s]]
  BY <1>3 DEF Solved
<1> HIDE DEF S, T
<1>6. Reads(g, kind, f, S)
  BY <1>4, <1>5 DEF Reads
<1> QED
  BY <1>6 DEF S

\* A fold over n + 1 records is one turn after the fold over n.
LEMMA AfterCases ==
  ASSUME NEW kind \in Kinds, NEW f \in Seq(Record)
  PROVE  /\ After(kind, f, 0) = Base(kind)
         /\ \A n \in Nat : n + 1 \in 1..Len(f) =>
              After(kind, f, n + 1) = Turn(kind, After(kind, f, n), f[n + 1])
<1> DEFINE g == CHOOSE g : Reads(g, kind, f, DOMAIN f)
<1>1. \A s \in SUBSET DOMAIN f :
        g[s] = IF s = {} THEN Base(kind) ELSE Turn(kind, g[s \ {Max(s)}], f[Max(s)])
  <2>1. Reads(g, kind, f, DOMAIN f)
    BY FoldSolved
  <2> HIDE DEF g
  <2> QED
    BY <2>1 DEF Reads
<1>2. \A n : After(kind, f, n) = g[1..n]
  BY DEF After
<1> HIDE DEF g
<1>3. After(kind, f, 0) = Base(kind)
  <2>1. 1..0 = {} /\ {} \in SUBSET DOMAIN f
    OBVIOUS
  <2>2. g[{}] = Base(kind)
    BY <1>1, <2>1
  <2> QED
    BY <1>2, <2>1, <2>2
<1>4. ASSUME NEW n \in Nat, n + 1 \in 1..Len(f)
      PROVE  After(kind, f, n + 1) = Turn(kind, After(kind, f, n), f[n + 1])
  <2> DEFINE s == 1..(n + 1)
  <2>1. s \in SUBSET DOMAIN f
    BY <1>4
  <2>2. Max(s) = n + 1 /\ s \ {n + 1} = 1..n /\ s # {}
    BY LastOfFirst
  <2> HIDE DEF s
  <2>3. g[s] = Turn(kind, g[s \ {Max(s)}], f[Max(s)])
    BY <1>1, <2>1, <2>2
  <2> QED
    BY <1>2, <2>2, <2>3 DEF s
<1> QED
  BY <1>3, <1>4

\* The three folds as the community module defines them.
Replays(g, f, S) ==
  g = [s \in SUBSET S |-> IF s = {} THEN NothingLoaded ELSE LoadTurn(g[s \ {Max(s)}], f[Max(s)])]
Checks(g, f, S) ==
  g = [s \in SUBSET S |-> IF s = {} THEN NothingLoaded
                          ELSE ParityLoadTurn(g[s \ {Max(s)}], f[Max(s)])]
Weighs(g, f, S) ==
  g = [s \in SUBSET S |-> IF s = {} THEN 0 ELSE g[s \ {Max(s)}] + Bytes(f[Max(s)])]

\* Both loaders and BytesOf are one fold over the whole file.
LEMMA FoldsAreAfter ==
  ASSUME NEW f \in Seq(Record)
  PROVE  /\ LoadRequests(f) = After("replayer", f, Len(f))
         /\ FoldLeft(ParityLoadTurn, NothingLoaded, f) = After("parity", f, Len(f))
         /\ BytesOf(f) = After("bytes", f, Len(f))
<1>1. \A g, S : /\ Replays(g, f, S) <=> Reads(g, "replayer", f, S)
                /\ Checks(g, f, S) <=> Reads(g, "parity", f, S)
                /\ Weighs(g, f, S) <=> Reads(g, "bytes", f, S)
  <2>1. \A g, S : Replays(g, f, S) <=> Reads(g, "replayer", f, S)
    BY DEF Replays, Reads, Base, Turn
  <2>2. \A g, S : Checks(g, f, S) <=> Reads(g, "parity", f, S)
    BY DEF Checks, Reads, Base, Turn
  <2>3. \A g, S : Weighs(g, f, S) <=> Reads(g, "bytes", f, S)
    BY DEF Weighs, Reads, Base, Turn
  <2> QED
    BY <2>1, <2>2, <2>3
<1>2. /\ (CHOOSE g : Replays(g, f, DOMAIN f)) = (CHOOSE g : Reads(g, "replayer", f, DOMAIN f))
      /\ (CHOOSE g : Checks(g, f, DOMAIN f)) = (CHOOSE g : Reads(g, "parity", f, DOMAIN f))
      /\ (CHOOSE g : Weighs(g, f, DOMAIN f)) = (CHOOSE g : Reads(g, "bytes", f, DOMAIN f))
  BY <1>1
<1>3. DOMAIN f = 1..Len(f)
  OBVIOUS
<1>4. LoadRequests(f) = (CHOOSE g : Replays(g, f, DOMAIN f))[DOMAIN f]
  BY Zenon DEF LoadRequests, FoldLeft, MapThenFoldSet, Replays
<1>5. FoldLeft(ParityLoadTurn, NothingLoaded, f) = (CHOOSE g : Checks(g, f, DOMAIN f))[DOMAIN f]
  BY Zenon DEF FoldLeft, MapThenFoldSet, Checks
<1>6. BytesOf(f) = (CHOOSE g : Weighs(g, f, DOMAIN f))[DOMAIN f]
  BY Zenon DEF BytesOf, FoldLeft, MapThenFoldSet, Weighs
<1> QED
  BY <1>2, <1>3, <1>4, <1>5, <1>6, Zenon DEF After

----------------------------------------------------------------------------
(* What the folds compute *)

\* What fails at 0 or at some n + 1 only after failing at n never fails.
LEMMA Climb ==
  ASSUME NEW N \in Nat, NEW B \in SUBSET (0..N), 0 \notin B,
         \A n \in 0..N : n + 1 \in B => n \in B
  PROVE  B = {}
<1>1. SUFFICES ASSUME B # {} PROVE FALSE
  OBVIOUS
<1>2. B \in SUBSET Nat
  OBVIOUS
<1>3. PICK m \in B : \A k \in B : m <= k
  BY <1>1, <1>2, LeastElement
<1>4. m # 0 /\ m \in 0..N
  BY <1>3
<1>5. m - 1 \in 0..N /\ (m - 1) + 1 = m
  BY <1>4
<1>6. m - 1 \in B
  BY <1>3, <1>5
<1> QED
  BY <1>3, <1>4, <1>6

\* The size of any part of a file is a natural number.
LEMMA BytesType ==
  ASSUME NEW f \in Seq(Record)
  PROVE  \A n \in 0..Len(f) : After("bytes", f, n) \in Nat
<1> DEFINE B == {n \in 0..Len(f) : After("bytes", f, n) \notin Nat}
<1>1. 0 \notin B
  BY AfterCases DEF Base, Kinds
<1>2. ASSUME NEW n \in 0..Len(f), n + 1 \in B
      PROVE  n \in B
  <2>1. n \in Nat /\ n + 1 \in 1..Len(f)
    BY <1>2
  <2>2. f[n + 1] \in Record
    BY <2>1
  <2>3. Bytes(f[n + 1]) \in Nat
    BY <2>2, RecordFields
  <2>4. After("bytes", f, n + 1) = After("bytes", f, n) + Bytes(f[n + 1])
    BY <2>1, AfterCases DEF Turn, Kinds
  <2>5. After("bytes", f, n + 1) \notin Nat
    BY <1>2
  <2> QED
    BY <2>3, <2>4, <2>5
<1>3. B = {}
  <2>1. Len(f) \in Nat /\ B \in SUBSET (0..Len(f))
    OBVIOUS
  <2> HIDE DEF B
  <2> QED
    BY <2>1, <1>1, <1>2, Climb
<1> QED
  BY <1>3

\* The positions with a payload, one more record at a time.
LEMMA PayloadNext ==
  ASSUME NEW f \in Seq(Record), NEW n \in Nat, n + 1 \in 1..Len(f)
  PROVE  /\ WithPayload(f, n) \subseteq 1..n
         /\ IsFiniteSet(WithPayload(f, n)) /\ Cardinality(WithPayload(f, n)) \in Nat
         /\ f[n + 1].payloadLen = 0 => WithPayload(f, n + 1) = WithPayload(f, n)
         /\ f[n + 1].payloadLen # 0 =>
              /\ WithPayload(f, n + 1) = WithPayload(f, n) \cup {n + 1}
              /\ Cardinality(WithPayload(f, n + 1)) = Cardinality(WithPayload(f, n)) + 1
         /\ \A i \in WithPayload(f, n) :
              Cardinality(WithPayload(f, i)) \in 1..Cardinality(WithPayload(f, n))
<1>1. \A i \in 1..Len(f) : f[i].payloadLen \in Nat
  BY RecordFields
<1>2. \A m \in Nat : IsFiniteSet(WithPayload(f, m)) /\ Cardinality(WithPayload(f, m)) \in Nat
  <2> SUFFICES ASSUME NEW m \in Nat
               PROVE  IsFiniteSet(WithPayload(f, m)) /\ Cardinality(WithPayload(f, m)) \in Nat
    OBVIOUS
  <2>1. IsFiniteSet(1..m) /\ WithPayload(f, m) \subseteq 1..m
    BY FS_Interval DEF WithPayload
  <2>2. IsFiniteSet(WithPayload(f, m))
    BY <2>1, FS_Subset
  <2> QED
    BY <2>2, FS_CardinalityType
<1>3. WithPayload(f, n) \subseteq 1..n
  BY DEF WithPayload
<1>4. f[n + 1].payloadLen = 0 => WithPayload(f, n + 1) = WithPayload(f, n)
  BY <1>1 DEF WithPayload
<1>5. ASSUME f[n + 1].payloadLen # 0
      PROVE  /\ WithPayload(f, n + 1) = WithPayload(f, n) \cup {n + 1}
             /\ Cardinality(WithPayload(f, n + 1)) = Cardinality(WithPayload(f, n)) + 1
  <2>1. WithPayload(f, n + 1) = WithPayload(f, n) \cup {n + 1}
    BY <1>1, <1>5 DEF WithPayload
  <2>2. n + 1 \notin WithPayload(f, n)
    BY <1>3
  <2> QED
    BY <1>2, <2>1, <2>2, FS_AddElement
<1>6. ASSUME NEW i \in WithPayload(f, n)
      PROVE  Cardinality(WithPayload(f, i)) \in 1..Cardinality(WithPayload(f, n))
  <2>1. i \in Nat /\ i \in WithPayload(f, i) /\ WithPayload(f, i) \subseteq WithPayload(f, n)
    BY <1>3 DEF WithPayload
  <2>2. Cardinality(WithPayload(f, i)) <= Cardinality(WithPayload(f, n))
    BY <1>2, <2>1, FS_Subset
  <2>3. Cardinality(WithPayload(f, i)) # 0
    BY <1>2, <2>1, FS_EmptySet
  <2> QED
    BY <1>2, <2>1, <2>2, <2>3
<1> QED
  BY <1>2, <1>3, <1>4, <1>5, <1>6

\* The replayer's loop after n records of f.
LoadedTo(f, n) ==
  LET st == After("replayer", f, n)
      total == After("bytes", f, n)
  IN  /\ st \in Loading
      /\ st.err <=> (\E i \in 1..n : Refused(f[i], MaxMethodLen)) \/ total > MaxTotalReplayBytes
      /\ ~st.err => /\ st.totalBytes = total
                    /\ Len(st.reqs) = Cardinality(WithPayload(f, n))
                    /\ \A i \in WithPayload(f, n) : st.reqs[Cardinality(WithPayload(f, i))] = f[i]
      /\ \A i \in 1..Len(st.reqs) : st.reqs[i].methodLen > 0

\* Nothing is loaded from no records.
LEMMA LoadedZero ==
  ASSUME NEW f \in Seq(Record)
  PROVE  LoadedTo(f, 0)
<1>1. WithPayload(f, 0) = {}
  BY DEF WithPayload
<1>2. After("replayer", f, 0) = NothingLoaded /\ After("bytes", f, 0) = 0
  BY AfterCases DEF Base, Kinds
<1>3. NothingLoaded \in Loading
  BY DEF NothingLoaded, Loading
<1>4. Len(NothingLoaded.reqs) = 0 /\ NothingLoaded.totalBytes = 0 /\ NothingLoaded.err = FALSE
  BY DEF NothingLoaded
<1>5. ~(0 > MaxTotalReplayBytes)
  BY ReplayFileAssumption
<1>6. Cardinality({}) = 0
  BY FS_EmptySet
<1> DEFINE st == After("replayer", f, 0)
<1>7. st \in Loading /\ st.err = FALSE /\ st.totalBytes = 0 /\ Len(st.reqs) = 0
  BY <1>2, <1>3, <1>4, Zenon
<1>8. 1..0 = {}
  OBVIOUS
<1> HIDE DEF st
<1> QED
  BY ONLY <1>1, <1>2, <1>5, <1>6, <1>7, <1>8 DEF LoadedTo, st

\* One turn of loadRequests carries the description over to one more record.
LEMMA LoadedNext ==
  ASSUME NEW f \in Seq(Record), NEW n \in 0..Len(f), n + 1 \in 1..Len(f), LoadedTo(f, n)
  PROVE  LoadedTo(f, n + 1)
<1> DEFINE st == After("replayer", f, n)
           next == After("replayer", f, n + 1)
           sum == After("bytes", f, n)
           total == After("bytes", f, n + 1)
           r == f[n + 1]
           P == WithPayload(f, n)
           Q == WithPayload(f, n + 1)
           count(i) == Cardinality(WithPayload(f, i))
<1>1. n \in Nat /\ r \in Record
  OBVIOUS
<1>2. next = LoadTurn(st, r) /\ total = sum + Bytes(r)
  BY <1>1, AfterCases DEF Turn, Kinds
<1>3. sum \in Nat /\ total \in Nat /\ Bytes(r) \in Nat /\ r.payloadLen \in Nat /\ r.methodLen \in Nat
  <2>1. n \in 0..Len(f) /\ n + 1 \in 0..Len(f)
    OBVIOUS
  <2> QED
    BY <1>1, <2>1, BytesType, RecordFields
<1>4. /\ st \in Loading
      /\ st.err <=> (\E i \in 1..n : Refused(f[i], MaxMethodLen)) \/ sum > MaxTotalReplayBytes
      /\ ~st.err => /\ st.totalBytes = sum
                    /\ Len(st.reqs) = Cardinality(P)
                    /\ \A i \in P : st.reqs[count(i)] = f[i]
      /\ \A i \in 1..Len(st.reqs) : st.reqs[i].methodLen > 0
  BY DEF LoadedTo
<1>5. /\ P \subseteq 1..n
      /\ IsFiniteSet(P) /\ Cardinality(P) \in Nat
      /\ r.payloadLen = 0 => Q = P
      /\ r.payloadLen # 0 => Q = P \cup {n + 1} /\ Cardinality(Q) = Cardinality(P) + 1
      /\ \A i \in P : count(i) \in 1..Cardinality(P)
  BY <1>1, PayloadNext
<1>6. /\ st = [reqs |-> st.reqs, totalBytes |-> st.totalBytes, err |-> st.err]
      /\ st.reqs \in Seq(Record) /\ st.totalBytes \in Nat /\ st.err \in BOOLEAN
  BY <1>4 DEF Loading
<1> DEFINE refused(i) == Refused(f[i], MaxMethodLen)
<1>7. (\E i \in 1..(n + 1) : refused(i)) <=> (\E i \in 1..n : refused(i)) \/ refused(n + 1)
  <2>1. \A i : i \in 1..(n + 1) <=> i \in 1..n \/ i = n + 1
    BY <1>1
  <2> HIDE DEF refused
  <2> QED
    BY <2>1
<1> HIDE DEF st, next, sum, total, r, P, Q, count, refused
<1>8. CASE st.err \/ Refused(r, MaxMethodLen) \/ st.totalBytes + Bytes(r) > MaxTotalReplayBytes
  <2>1. next = [reqs |-> st.reqs, totalBytes |-> st.totalBytes, err |-> TRUE]
    BY <1>2, <1>6, <1>8 DEF LoadTurn
  <2>2. next \in Loading /\ next.err /\ next.reqs = st.reqs
    BY <1>6, <2>1 DEF Loading
  <2>3. (\E i \in 1..(n + 1) : refused(i)) \/ total > MaxTotalReplayBytes
    <3>1. CASE st.err
      BY <1>2, <1>3, <1>4, <1>7, <3>1, ReplayFileAssumption DEF refused
    <3>2. CASE Refused(r, MaxMethodLen)
      BY <1>7, <3>2 DEF refused, r
    <3>3. CASE ~st.err /\ st.totalBytes + Bytes(r) > MaxTotalReplayBytes
      BY <1>2, <1>4, <3>3
    <3> QED
      BY <1>8, <3>1, <3>2, <3>3
  <2> QED
    BY <1>4, <2>2, <2>3 DEF LoadedTo, next, total, refused
<1>9. CASE ~(st.err \/ Refused(r, MaxMethodLen) \/ st.totalBytes + Bytes(r) > MaxTotalReplayBytes)
  <2>1. /\ next = [reqs |-> next.reqs, totalBytes |-> total, err |-> FALSE]
        /\ next.reqs = IF r.payloadLen = 0 THEN st.reqs ELSE Append(st.reqs, r)
    BY <1>2, <1>4, <1>6, <1>9 DEF LoadTurn
  <2>2. next.reqs \in Seq(Record) /\ r.methodLen > 0
    <3>1. r.methodLen \in 1..MaxMethodLen
      BY <1>9 DEF Refused
    <3> QED
      BY <1>1, <1>6, <2>1, <3>1 DEF r
  <2>3. next \in Loading /\ ~next.err /\ next.totalBytes = total
    <3>1. PICK reqs \in Seq(Record) : next = [reqs |-> reqs, totalBytes |-> total, err |-> FALSE]
      BY <2>1, <2>2
    <3> QED
      BY <1>3, <3>1 DEF Loading
  <2>4. ~(\E i \in 1..(n + 1) : refused(i)) /\ ~(total > MaxTotalReplayBytes)
    <3>1. ~(total > MaxTotalReplayBytes)
      BY <1>2, <1>4, <1>9
    <3>2. ~(\E i \in 1..n : refused(i)) /\ ~refused(n + 1)
      BY <1>4, <1>9 DEF refused, r
    <3> QED
      BY <1>7, <3>1, <3>2
  <2>5. /\ Len(next.reqs) = Cardinality(Q)
        /\ \A i \in Q : next.reqs[count(i)] = f[i]
        /\ \A i \in 1..Len(next.reqs) : next.reqs[i].methodLen > 0
    <3>1. CASE r.payloadLen = 0
      BY <1>4, <1>5, <1>9, <2>1, <3>1
    <3>2. CASE r.payloadLen # 0
      <4>1. next.reqs = Append(st.reqs, r) /\ Len(st.reqs) = Cardinality(P)
        BY <1>4, <1>9, <2>1, <3>2
      <4>2. /\ Len(next.reqs) = Cardinality(P) + 1
            /\ \A i \in 1..Cardinality(P) : next.reqs[i] = st.reqs[i]
            /\ next.reqs[Cardinality(P) + 1] = r
        BY <1>6, <4>1
      <4>3. Len(next.reqs) = Cardinality(Q)
        BY <1>5, <3>2, <4>2
      <4>4. ASSUME NEW i \in Q PROVE next.reqs[count(i)] = f[i]
        <5>1. CASE i \in P
          BY <1>4, <1>5, <1>9, <4>2, <5>1
        <5>2. CASE i = n + 1
          <6>1. count(i) = Cardinality(Q)
            BY <5>2 DEF count, Q
          <6> QED
            BY <1>5, <3>2, <4>2, <5>2, <6>1 DEF r
        <5> QED
          BY <1>5, <3>2, <5>1, <5>2
      <4>5. ASSUME NEW i \in 1..Len(next.reqs) PROVE next.reqs[i].methodLen > 0
        BY <1>4, <1>5, <2>2, <4>1, <4>2
      <4> QED
        BY <4>3, <4>4, <4>5
    <3> QED
      BY <3>1, <3>2
  <2> QED
    BY <2>3, <2>4, <2>5 DEF LoadedTo, next, total, refused, Q, count
<1> QED
  BY <1>8, <1>9

\* So it holds of the whole file.
LEMMA LoadedWhole ==
  ASSUME NEW f \in Seq(Record)
  PROVE  LoadedTo(f, Len(f))
<1> DEFINE B == {n \in 0..Len(f) : ~LoadedTo(f, n)}
<1>1. Len(f) \in Nat /\ B \in SUBSET (0..Len(f))
  OBVIOUS
<1>2. 0 \notin B
  BY LoadedZero
<1>3. \A n \in 0..Len(f) : n + 1 \in B => n \in B
  <2> SUFFICES ASSUME NEW n \in 0..Len(f), n + 1 \in B, LoadedTo(f, n) PROVE FALSE
    OBVIOUS
  <2>1. n + 1 \in 1..Len(f) /\ ~LoadedTo(f, n + 1)
    OBVIOUS
  <2> QED
    BY <2>1, LoadedNext
<1>4. B = {}
  <2> HIDE DEF B
  <2> QED
    BY ONLY <1>1, <1>2, <1>3, Climb
<1> QED
  BY <1>1, <1>4

\* The parity check's loop after n records of f: it keeps every one of them.
CheckedTo(f, n) ==
  LET st == After("parity", f, n)
      total == After("bytes", f, n)
  IN  /\ st \in Loading
      /\ st.err <=> (\E i \in 1..n : Refused(f[i], ParityMaxMethodLen)) \/ total > MaxTotalReplayBytes
      /\ ~st.err => /\ st.totalBytes = total
                    /\ Len(st.reqs) = n
                    /\ \A i \in 1..n : st.reqs[i] = f[i]

\* Nothing is loaded from no records.
LEMMA CheckedZero ==
  ASSUME NEW f \in Seq(Record)
  PROVE  CheckedTo(f, 0)
<1>1. After("parity", f, 0) = NothingLoaded /\ After("bytes", f, 0) = 0
  BY AfterCases DEF Base, Kinds
<1>2. NothingLoaded \in Loading
  BY DEF NothingLoaded, Loading
<1>3. Len(NothingLoaded.reqs) = 0 /\ NothingLoaded.totalBytes = 0 /\ NothingLoaded.err = FALSE
  BY DEF NothingLoaded
<1>4. ~(0 > MaxTotalReplayBytes)
  BY ReplayFileAssumption
<1> DEFINE st == After("parity", f, 0)
<1>5. st \in Loading /\ st.err = FALSE /\ st.totalBytes = 0 /\ Len(st.reqs) = 0
  BY <1>1, <1>2, <1>3, Zenon
<1>6. 1..0 = {}
  OBVIOUS
<1> HIDE DEF st
<1> QED
  BY ONLY <1>1, <1>4, <1>5, <1>6 DEF CheckedTo, st

\* One turn of the parity check's loop carries its description over.
LEMMA CheckedNext ==
  ASSUME NEW f \in Seq(Record), NEW n \in 0..Len(f), n + 1 \in 1..Len(f), CheckedTo(f, n)
  PROVE  CheckedTo(f, n + 1)
<1> DEFINE st == After("parity", f, n)
           next == After("parity", f, n + 1)
           sum == After("bytes", f, n)
           total == After("bytes", f, n + 1)
           r == f[n + 1]
           refused(i) == Refused(f[i], ParityMaxMethodLen)
<1>1. n \in Nat /\ r \in Record
  OBVIOUS
<1>2. next = ParityLoadTurn(st, r) /\ total = sum + Bytes(r)
  BY <1>1, AfterCases DEF Turn, Kinds
<1>3. sum \in Nat /\ total \in Nat /\ Bytes(r) \in Nat
  <2>1. n \in 0..Len(f) /\ n + 1 \in 0..Len(f)
    OBVIOUS
  <2> QED
    BY <1>1, <2>1, BytesType, RecordFields
<1>4. /\ st \in Loading
      /\ st.err <=> (\E i \in 1..n : refused(i)) \/ sum > MaxTotalReplayBytes
      /\ ~st.err => /\ st.totalBytes = sum
                    /\ Len(st.reqs) = n
                    /\ \A i \in 1..n : st.reqs[i] = f[i]
  BY DEF CheckedTo
<1>5. /\ st = [reqs |-> st.reqs, totalBytes |-> st.totalBytes, err |-> st.err]
      /\ st.reqs \in Seq(Record) /\ st.totalBytes \in Nat /\ st.err \in BOOLEAN
  BY <1>4 DEF Loading
<1>6. (\E i \in 1..(n + 1) : refused(i)) <=> (\E i \in 1..n : refused(i)) \/ refused(n + 1)
  <2>1. \A i : i \in 1..(n + 1) <=> i \in 1..n \/ i = n + 1
    BY <1>1
  <2> HIDE DEF refused
  <2> QED
    BY <2>1
<1> HIDE DEF st, next, sum, total, r, refused
<1>7. CASE st.err \/ Refused(r, ParityMaxMethodLen) \/ st.totalBytes + Bytes(r) > MaxTotalReplayBytes
  <2>1. next = [reqs |-> st.reqs, totalBytes |-> st.totalBytes, err |-> TRUE]
    BY <1>2, <1>5, <1>7 DEF ParityLoadTurn
  <2>2. next \in Loading /\ next.err
    BY <1>5, <2>1 DEF Loading
  <2>3. (\E i \in 1..(n + 1) : refused(i)) \/ total > MaxTotalReplayBytes
    <3>1. CASE st.err
      BY <1>2, <1>3, <1>4, <1>6, <3>1, ReplayFileAssumption
    <3>2. CASE Refused(r, ParityMaxMethodLen)
      BY <1>6, <3>2 DEF refused, r
    <3>3. CASE ~st.err /\ st.totalBytes + Bytes(r) > MaxTotalReplayBytes
      BY <1>2, <1>4, <3>3
    <3> QED
      BY <1>7, <3>1, <3>2, <3>3
  <2> QED
    BY <2>2, <2>3 DEF CheckedTo, next, total, refused
<1>8. CASE ~(st.err \/ Refused(r, ParityMaxMethodLen) \/ st.totalBytes + Bytes(r) > MaxTotalReplayBytes)
  <2>1. next = [reqs |-> Append(st.reqs, r), totalBytes |-> total, err |-> FALSE]
    BY <1>2, <1>4, <1>5, <1>8 DEF ParityLoadTurn
  <2>2. next \in Loading /\ ~next.err /\ next.totalBytes = total /\ next.reqs = Append(st.reqs, r)
    BY <1>1, <1>3, <1>5, <2>1 DEF Loading
  <2>3. ~(\E i \in 1..(n + 1) : refused(i)) /\ ~(total > MaxTotalReplayBytes)
    <3>1. ~(total > MaxTotalReplayBytes)
      BY <1>2, <1>4, <1>8
    <3>2. ~(\E i \in 1..n : refused(i)) /\ ~refused(n + 1)
      BY <1>4, <1>8 DEF refused, r
    <3> QED
      BY <1>6, <3>1, <3>2
  <2>4. Len(next.reqs) = n + 1 /\ \A i \in 1..(n + 1) : next.reqs[i] = f[i]
    <3>1. Len(st.reqs) = n /\ \A i \in 1..n : st.reqs[i] = f[i]
      BY <1>4, <1>8
    <3>2. /\ Len(next.reqs) = n + 1
          /\ \A i \in 1..n : next.reqs[i] = st.reqs[i]
          /\ next.reqs[n + 1] = r
      BY <1>1, <1>5, <2>2, <3>1
    <3> QED
      BY <1>1, <3>1, <3>2 DEF r
  <2> QED
    BY <2>2, <2>3, <2>4 DEF CheckedTo, next, total, refused
<1> QED
  BY <1>7, <1>8

\* So it holds of the whole file.
LEMMA CheckedWhole ==
  ASSUME NEW f \in Seq(Record)
  PROVE  CheckedTo(f, Len(f))
<1> DEFINE B == {n \in 0..Len(f) : ~CheckedTo(f, n)}
<1>1. Len(f) \in Nat /\ B \in SUBSET (0..Len(f))
  OBVIOUS
<1>2. 0 \notin B
  BY CheckedZero
<1>3. \A n \in 0..Len(f) : n + 1 \in B => n \in B
  <2> SUFFICES ASSUME NEW n \in 0..Len(f), n + 1 \in B, CheckedTo(f, n) PROVE FALSE
    OBVIOUS
  <2>1. n + 1 \in 1..Len(f) /\ ~CheckedTo(f, n + 1)
    OBVIOUS
  <2> QED
    BY <2>1, CheckedNext
<1>4. B = {}
  <2> HIDE DEF B
  <2> QED
    BY ONLY <1>1, <1>2, <1>3, Climb
<1> QED
  BY <1>1, <1>4

\* What the two loaders return.
LEMMA ReplayerLoads ==
  ASSUME NEW f \in Seq(Record)
  PROVE  LET end == LoadRequests(f)
         IN  /\ end \in Loading
             /\ end.err <=> \/ \E i \in 1..Len(f) : Refused(f[i], MaxMethodLen)
                            \/ BytesOf(f) > MaxTotalReplayBytes
             /\ ~end.err => IsSelection(end.reqs, f)
             /\ \A i \in 1..Len(end.reqs) : end.reqs[i].methodLen > 0
<1>1. LoadRequests(f) = After("replayer", f, Len(f)) /\ BytesOf(f) = After("bytes", f, Len(f))
  BY FoldsAreAfter
<1> QED
  BY <1>1, LoadedWhole DEF LoadedTo, IsSelection

\* A file that the parity check accepts is returned record for record.
LEMMA ParityLoads ==
  ASSUME NEW f \in Seq(Record)
  PROVE  LET end == ParityLoadRequests(f)
         IN  ~end.err => /\ ~(\E i \in 1..Len(f) : Refused(f[i], ParityMaxMethodLen))
                         /\ ~(BytesOf(f) > MaxTotalReplayBytes)
                         /\ end.reqs = f
<1> DEFINE st == FoldLeft(ParityLoadTurn, NothingLoaded, f)
           end == ParityLoadRequests(f)
<1>1. st = After("parity", f, Len(f)) /\ BytesOf(f) = After("bytes", f, Len(f))
  BY FoldsAreAfter
<1>2. CheckedTo(f, Len(f))
  BY CheckedWhole
<1>3. end = [st EXCEPT !.err = st.err \/ st.reqs = <<>>]
  BY DEF ParityLoadRequests
<1> HIDE DEF st, end
<1>4. st \in Loading
  BY <1>1, <1>2 DEF CheckedTo
<1>5. end.reqs = st.reqs /\ (~end.err => ~st.err)
  BY <1>3, <1>4 DEF Loading
<1>6. ASSUME ~st.err
      PROVE  /\ ~(\E i \in 1..Len(f) : Refused(f[i], ParityMaxMethodLen))
             /\ ~(BytesOf(f) > MaxTotalReplayBytes)
             /\ Len(st.reqs) = Len(f) /\ \A i \in 1..Len(f) : st.reqs[i] = f[i]
  BY <1>1, <1>2, <1>6 DEF CheckedTo
<1>7. ASSUME ~st.err PROVE st.reqs = f
  BY <1>4, <1>6, <1>7 DEF Loading
<1> QED
  BY <1>5, <1>6, <1>7 DEF end

----------------------------------------------------------------------------
(* The inductive invariant: what each step of start-up leaves behind       *)

Discovering == {"takeover", "root", "file", "cert", "key", "ca", "fill"}
Opening == {"dialOptions", "connections", "csv", "jsonl", "running"}
PastBurst == Opening \cup {"load"}
PastPairing == PastBurst \cup {"burst"}
PastNumbers == PastPairing \cup {"credentials"}

\* The path flags whose artifacts are resolved when takeover is at step p.
Behind(p) == {f \in PathFlags : \/ p = "fill"
                                \/ f = "file" /\ p \in {"cert", "key", "ca"}
                                \/ f = "cert" /\ p \in {"key", "ca"}
                                \/ f = "key" /\ p = "ca"}

FlagNames == {"target", "file", "cert", "key", "ca", "tls", "qps", "connections", "workers", "queue"}

\* While takeover looks for its artifacts, the flags are untouched, and the
\* overrides that were accepted are the artifacts.
DiscoveryInv ==
  /\ FlagNames \subseteq DOMAIN flags
  /\ DOMAIN artifacts = PathFlags \cup {"root"}
  /\ ~takeOver => pc \notin Discovering /\ asked = {}
  /\ pc \in Discovering =>
       /\ flags = given
       /\ asked \subseteq Behind(pc)
       /\ \A f \in asked : artifacts[f] = "override"
       /\ "cert" \in Behind(pc) => artifacts["cert"] # Unset

\* From then on every path is where Precedence wants it.
PathsInv ==
  pc \notin Discovering \cup {"exited"} =>
    /\ \A f \in PathFlags :
         /\ given[f] # Unset => flags[f] = given[f]
         /\ given[f] = Unset /\ f \in asked => flags[f] = "override"
         /\ ~takeOver => flags[f] = given[f]
    /\ takeOver => flags.tls /\ flags["cert"] # Unset

\* Each check holds of the flags from its step on.
ChecksInv ==
  /\ pc \in PastNumbers => flags.qps > 0 /\ flags.connections > 0 /\ flags.workers > 0 /\ flags.queue > 0
  /\ pc \in PastPairing => Paired
  /\ pc \in PastBurst => Valid(burst) /\ Fits(burst)

LoadInv ==
  /\ \/ file = <<>> /\ loading = NothingLoaded
     \/ file \in Files /\ loading = LoadRequests(file)
  /\ pc \in Opening => loading.reqs # <<>>

OutputsInv ==
  /\ pc \notin {"jsonl", "running", "exited"} => outputs = {}
  /\ pc = "jsonl" => outputs \subseteq {"csv"}
  /\ OutputsTouchedLast

IInv == TypeOK /\ DiscoveryInv /\ PathsInv /\ ChecksInv /\ LoadInv /\ OutputsInv

\* The artifacts by name.
LEMMA ArtifactFacts ==
  /\ Range(Artifacts) = {"root", "file", "cert", "key", "ca"}
  /\ Len(Artifacts) = 5 /\ 1..Len(Artifacts) = {1, 2, 3, 4, 5}
  /\ Artifacts[1] = "root" /\ Artifacts[2] = "file" /\ Artifacts[3] = "cert"
  /\ Artifacts[4] = "key" /\ Artifacts[5] = "ca"
<1>1. /\ Len(Artifacts) = 5 /\ 1..Len(Artifacts) = {1, 2, 3, 4, 5}
      /\ Artifacts[1] = "root" /\ Artifacts[2] = "file" /\ Artifacts[3] = "cert"
      /\ Artifacts[4] = "key" /\ Artifacts[5] = "ca"
  BY DEF Artifacts
<1>2. DOMAIN Artifacts = {1, 2, 3, 4, 5}
  BY <1>1 DEF Artifacts
<1>3. Range(Artifacts) = {"root", "file", "cert", "key", "ca"}
  BY <1>1, <1>2 DEF Range
<1> QED
  BY <1>1, <1>3

Steps == {"root", "file", "cert", "key", "ca", "takeover", "fill", "required", "target", "numbers",
          "credentials", "burst", "load", "dialOptions", "connections", "csv", "jsonl", "running",
          "exited"}

\* The steps of TypeOK, listed.
LEMMA StepsOfType ==
  Range(Artifacts) \cup {"takeover", "fill", "required", "target", "numbers", "credentials", "burst",
                         "load", "dialOptions", "connections", "csv", "jsonl", "running", "exited"}
    = Steps
BY ArtifactFacts DEF Steps

\* What Load may assign to loading.
LEMMA LoadingType ==
  /\ NothingLoaded \in Loading
  /\ \A f \in Files : f \in Seq(Record) /\ LoadRequests(f) \in Loading
<1>1. NothingLoaded \in Loading
  BY DEF NothingLoaded, Loading
<1>2. \A f \in Files : f \in Seq(Record)
  BY StartupAssumption
<1> QED
  BY <1>1, <1>2, ReplayerLoads

\* A command line has all the flags.
LEMMA GivenFields ==
  ASSUME NEW c \in CommandLines
  PROVE  /\ FlagNames \subseteq DOMAIN c /\ c.tls \in BOOLEAN
         /\ {c.qps, c.queue, c.connections, c.workers} \subseteq Int
<1>1. c \in CommandLine
  BY StartupAssumption
<1> QED
  BY <1>1 DEF CommandLine, FlagNames

\* A step that only checks something keeps whatever does not depend on pc.
KeptByCheck == <<takeOver, flags, given, artifacts, asked, runVars>>

\* The invariant holds before the first step.
LEMMA InitInv == Init => IInv
<1> SUFFICES ASSUME Init PROVE IInv
  OBVIOUS
<1> USE DEF Init
<1>1. TypeOK
  <2>1. pc \in Steps
    BY DEF Steps
  <2>2. failedAt # Unset <=> pc = "exited"
    BY DEF Unset
  <2>3. flags.tls \in BOOLEAN /\ {flags.qps, flags.queue, flags.connections, flags.workers} \subseteq Int
    BY GivenFields
  <2>4. burst \in Bursts \cup {NoBurst} /\ loading \in Loading
    BY LoadingType
  <2> QED
    BY <2>1, <2>2, <2>3, <2>4, StepsOfType DEF TypeOK
<1>2. DiscoveryInv
  <2>1. FlagNames \subseteq DOMAIN flags
    BY GivenFields
  <2>2. DOMAIN artifacts = PathFlags \cup {"root"}
    BY DEF NoArtifacts
  <2>3. ~takeOver => pc \notin Discovering /\ asked = {}
    BY DEF Discovering
  <2>4. pc \in Discovering => "cert" \notin Behind(pc)
    BY DEF Discovering, Behind
  <2> QED
    BY <2>1, <2>2, <2>3, <2>4 DEF DiscoveryInv
<1>3. PathsInv
  BY DEF PathsInv, Discovering
<1>4. ChecksInv
  BY DEF ChecksInv, PastNumbers, PastPairing, PastBurst, Opening
<1>5. LoadInv
  BY DEF LoadInv, Opening
<1>6. OutputsInv
  BY DEF OutputsInv, OutputsTouchedLast
<1> QED
  BY <1>1, <1>2, <1>3, <1>4, <1>5, <1>6 DEF IInv

\* The step may only change pc and failedAt, and its check need not be known.
LEMMA PlainStep ==
  ASSUME IInv, UNCHANGED KeptByCheck,
         NEW step, NEW next, NEW passes \in BOOLEAN, Check(step, passes, next),
         \/ step = "takeover" /\ next = "root"
         \/ step = "required" /\ next = "target"
         \/ step = "target" /\ next = "numbers"
         \/ step = "credentials" /\ next = "burst" /\ (passes => Paired)
         \/ step = "dialOptions" /\ next = "connections"
         \/ step = "connections" /\ next = "csv"
  PROVE  IInv'
<1> USE DEF IInv, KeptByCheck, runVars, Check
<1>1. TypeOK'
  <2>1. pc' \in Steps /\ (failedAt' # Unset <=> pc' = "exited")
    BY DEF TypeOK, Steps, Unset
  <2> QED
    BY <2>1, StepsOfType DEF TypeOK
<1>2. DiscoveryInv'
  BY DEF DiscoveryInv, Discovering, Behind
<1>3. PathsInv'
  BY DEF PathsInv, Discovering
<1>4. ChecksInv'
  BY DEF ChecksInv, PastNumbers, PastPairing, PastBurst, Opening, Paired, Valid, Fits, ExceedsQPS
<1>5. LoadInv'
  BY DEF LoadInv, Opening
<1>6. OutputsInv'
  BY DEF OutputsInv, OutputsTouchedLast
<1> QED
  BY <1>1, <1>2, <1>3, <1>4, <1>5, <1>6

\* An override that passes is the artifact; none of the others is given up.
LEMMA ResolveStep ==
  ASSUME IInv, NEW i \in 1..Len(Artifacts), ResolveArtifact(i)
  PROVE  IInv'
<1> DEFINE a == Artifacts[i]
           next == IF i = Len(Artifacts) THEN "fill" ELSE Artifacts[i + 1]
<1>1. PICK override \in {Unset, "override"}, there \in SUBSET ({"override"} \cup Range(Candidates[a])) :
        LET path == ResolvesTo(a, override, there) IN
        /\ Check(a, path # Unset \/ (a = "ca" /\ override = Unset), next)
        /\ artifacts' = [artifacts EXCEPT ![a] = path]
        /\ asked' = IF override = Unset THEN asked ELSE asked \cup ({a} \cap PathFlags)
        /\ UNCHANGED <<takeOver, flags, given, runVars>>
  BY DEF ResolveArtifact
<1> DEFINE path == ResolvesTo(a, override, there)
<1>2. override # Unset /\ path # Unset => path = "override" /\ override = "override"
  BY DEF ResolvesTo, ChoosePath
<1>3. \/ a = "root" /\ next = "file"
      \/ a = "file" /\ next = "cert"
      \/ a = "cert" /\ next = "key"
      \/ a = "key" /\ next = "ca"
      \/ a = "ca" /\ next = "fill"
  BY ArtifactFacts
<1> HIDE DEF a, next, path
<1>4. /\ pc = a
      /\ pc' = IF path # Unset \/ (a = "ca" /\ override = Unset) THEN next ELSE "exited"
      /\ failedAt' = IF path # Unset \/ (a = "ca" /\ override = Unset) THEN failedAt ELSE a
      /\ artifacts' = [artifacts EXCEPT ![a] = path]
      /\ asked' = IF override = Unset THEN asked ELSE asked \cup ({a} \cap PathFlags)
      /\ takeOver' = takeOver /\ flags' = flags /\ given' = given /\ burst' = burst
      /\ loading' = loading /\ file' = file /\ outputs' = outputs
  BY <1>1 DEF Check, runVars, path
<1>5. TypeOK'
  <2>1. pc' \in Steps /\ (failedAt' # Unset <=> pc' = "exited")
    BY <1>3, <1>4 DEF IInv, TypeOK, Steps, Unset
  <2>2. asked' \subseteq PathFlags
    BY <1>4 DEF IInv, TypeOK
  <2> QED
    BY <1>4, <2>1, <2>2, StepsOfType DEF TypeOK, IInv
<1>6. DiscoveryInv'
  <2>1. FlagNames \subseteq DOMAIN flags' /\ DOMAIN artifacts' = PathFlags \cup {"root"}
    BY <1>4 DEF IInv, DiscoveryInv
  <2>2. takeOver /\ a \in Discovering /\ a # "fill"
    BY <1>3, <1>4 DEF IInv, DiscoveryInv, Discovering
  <2>3. ASSUME pc' \in Discovering
        PROVE  /\ flags' = given'
               /\ asked' \subseteq Behind(pc')
               /\ \A f \in asked' : artifacts'[f] = "override"
               /\ "cert" \in Behind(pc') => artifacts'["cert"] # Unset
    <3>1. pc' = next /\ (path # Unset \/ (a = "ca" /\ override = Unset))
      BY <1>4, <2>3 DEF Discovering
    <3>2. /\ flags = given /\ asked \subseteq Behind(a)
          /\ \A f \in asked : artifacts[f] = "override"
          /\ "cert" \in Behind(a) => artifacts["cert"] # Unset
      BY <1>4, <2>2 DEF IInv, DiscoveryInv
    <3>3. a \in PathFlags \cup {"root"} /\ artifacts'[a] = path
      BY <1>3, <1>4 DEF PathFlags, IInv, DiscoveryInv
    <3>4. a \notin Behind(a) /\ Behind(next) = Behind(a) \cup ({a} \cap PathFlags)
      BY <1>3 DEF Behind, PathFlags
    <3>5. asked' \subseteq Behind(next)
      BY <1>4, <3>2, <3>4
    <3>6. ASSUME NEW f \in asked' PROVE artifacts'[f] = "override"
      <4>1. CASE f \in asked
        <5>1. f # a
          BY <3>2, <3>4, <4>1
        <5> QED
          BY <1>4, <3>2, <4>1, <5>1
      <4>2. CASE f \notin asked
        <5>1. f = a /\ override # Unset
          BY <1>4, <4>2, <3>6
        <5> QED
          BY <1>2, <3>1, <3>3, <5>1
      <4> QED
        BY <4>1, <4>2
    <3>7. ASSUME "cert" \in Behind(next) PROVE artifacts'["cert"] # Unset
      <4>1. CASE a = "cert"
        BY <3>1, <3>3, <4>1
      <4>2. CASE a # "cert"
        BY <1>4, <3>2, <3>4, <3>7, <4>2
      <4> QED
        BY <4>1, <4>2
    <3> QED
      BY <1>4, <3>1, <3>2, <3>5, <3>6, <3>7
  <2> QED
    BY <1>4, <2>1, <2>2, <2>3 DEF DiscoveryInv
<1>7. pc' \in Discovering \cup {"exited"} /\ pc \in Discovering
  BY <1>3, <1>4 DEF Discovering
<1>8. PathsInv'
  BY <1>7 DEF PathsInv
<1>9. ChecksInv'
  BY <1>7 DEF ChecksInv, PastNumbers, PastPairing, PastBurst, Opening, Discovering
<1>10. LoadInv'
  BY <1>4, <1>7 DEF IInv, LoadInv, Opening, Discovering
<1>11. OutputsInv'
  BY <1>4, <1>7 DEF IInv, OutputsInv, OutputsTouchedLast, Discovering
<1> QED
  BY <1>5, <1>6, <1>8, <1>9, <1>10, <1>11 DEF IInv

\* Filling the flags puts each path where Precedence wants it.
LEMMA FillStep ==
  ASSUME IInv, FillFlags
  PROVE  IInv'
<1> DEFINE connections == IF flags.connections = 4 THEN MaxInt(32, NumCPU * 4) ELSE flags.connections
           workers     == IF flags.workers = 0 THEN MaxInt(128, connections * 4) ELSE flags.workers
           queue       == IF flags.queue = 0 THEN MaxInt(4096, workers * 32) ELSE flags.queue
<1>1. /\ pc = "fill" /\ pc' = "required" /\ failedAt' = failedAt
      /\ flags' = [target |-> flags.target, tls |-> TRUE, qps |-> flags.qps,
                   file |-> Filled("file"), cert |-> Filled("cert"),
                   key |-> Filled("key"), ca |-> Filled("ca"),
                   connections |-> connections, workers |-> workers, queue |-> queue]
      /\ artifacts' = NoArtifacts
      /\ takeOver' = takeOver /\ given' = given /\ asked' = asked /\ burst' = burst
      /\ loading' = loading /\ file' = file /\ outputs' = outputs
  BY DEF FillFlags, Check, runVars
<1>2. connections \in Int /\ workers \in Int /\ queue \in Int /\ flags.qps \in Int
  <2>1. {flags.qps, flags.queue, flags.connections, flags.workers} \subseteq Int /\ NumCPU \in Int
    BY StartupAssumption DEF IInv, TypeOK
  <2> QED
    BY <2>1 DEF MaxInt
<1> HIDE DEF connections, workers, queue
<1>3. takeOver /\ flags = given /\ (\A f \in asked : artifacts[f] = "override") /\ artifacts["cert"] # Unset
  <2>1. "fill" \in Discovering /\ "cert" \in Behind("fill")
    BY DEF Discovering, Behind, PathFlags
  <2> QED
    BY <1>1, <2>1 DEF IInv, DiscoveryInv
<1>4. /\ \A f \in PathFlags : flags'[f] = Filled(f)
      /\ flags'.tls = TRUE /\ flags'.qps = flags.qps /\ flags'.connections = connections
      /\ flags'.workers = workers /\ flags'.queue = queue
      /\ FlagNames \subseteq DOMAIN flags'
  BY <1>1 DEF PathFlags, FlagNames
<1>5. TypeOK'
  <2>1. pc' \in Steps /\ (failedAt' # Unset <=> pc' = "exited")
    BY <1>1 DEF IInv, TypeOK, Steps
  <2> QED
    BY <1>1, <1>2, <1>4, <2>1, StepsOfType DEF IInv, TypeOK
<1>6. DiscoveryInv'
  <2>1. DOMAIN artifacts' = PathFlags \cup {"root"}
    BY <1>1 DEF NoArtifacts
  <2>2. pc' \notin Discovering
    BY <1>1 DEF Discovering
  <2> QED
    BY <1>1, <1>3, <1>4, <2>1, <2>2 DEF DiscoveryInv
<1>7. PathsInv'
  <2>1. ASSUME NEW f \in PathFlags
        PROVE  /\ given'[f] # Unset => flags'[f] = given'[f]
               /\ given'[f] = Unset /\ f \in asked' => flags'[f] = "override"
    <3>1. flags'[f] = IF flags[f] = Unset THEN artifacts[f] ELSE flags[f]
      BY <1>4 DEF Filled
    <3>2. given' = flags /\ (f \in asked' => artifacts[f] = "override")
      BY <1>1, <1>3
    <3> QED
      BY <3>1, <3>2
  <2>2. flags'["cert"] # Unset
    BY <1>3, <1>4 DEF Filled, PathFlags
  <2> QED
    BY <1>1, <1>3, <1>4, <2>1, <2>2 DEF PathsInv
<1>8. ChecksInv'
  BY <1>1 DEF ChecksInv, PastNumbers, PastPairing, PastBurst, Opening
<1>9. LoadInv'
  BY <1>1 DEF IInv, LoadInv, Opening
<1>10. OutputsInv'
  BY <1>1 DEF IInv, OutputsInv, OutputsTouchedLast
<1> QED
  BY <1>5, <1>6, <1>7, <1>8, <1>9, <1>10 DEF IInv

\* The derived sizes are positive because what they are derived from is.
LEMMA NumbersStep ==
  ASSUME IInv, CheckNumbers
  PROVE  IInv'
<1> DEFINE workers == DerivedWorkers(flags.connections, flags.workers)
           queue   == IF flags.queue <= 0 THEN MaxInt(512, workers * 16) ELSE flags.queue
<1>1. PICK passes \in BOOLEAN :
        /\ passes => flags.qps > 0 /\ flags.connections > 0
        /\ pc = "numbers" /\ pc' = (IF passes THEN "credentials" ELSE "exited")
        /\ failedAt' = IF passes THEN failedAt ELSE "numbers"
  BY DEF CheckNumbers, Check
<1>2. /\ flags' = IF pc' = "exited" THEN flags
                  ELSE [flags EXCEPT !.workers = workers, !.queue = queue]
      /\ takeOver' = takeOver /\ given' = given /\ artifacts' = artifacts /\ asked' = asked
      /\ burst' = burst /\ loading' = loading /\ file' = file /\ outputs' = outputs
  BY DEF CheckNumbers, runVars
<1>3. flags.qps \in Int /\ flags.queue \in Int /\ flags.connections \in Int /\ flags.workers \in Int
  BY DEF IInv, TypeOK
<1>4. workers \in Int /\ workers > 0 /\ queue \in Int /\ queue > 0
  BY <1>3 DEF DerivedWorkers, MaxInt
<1> HIDE DEF workers, queue
<1>5. /\ DOMAIN flags' = DOMAIN flags
      /\ \A f \in PathFlags : flags'[f] = flags[f]
      /\ flags'.tls = flags.tls /\ flags'.qps = flags.qps /\ flags'.connections = flags.connections
      /\ passes => flags'.workers = workers /\ flags'.queue = queue
      /\ ~passes => flags' = flags
  <2>1. "workers" \in DOMAIN flags /\ "queue" \in DOMAIN flags
    BY DEF IInv, DiscoveryInv, FlagNames
  <2> QED
    BY <1>1, <1>2, <2>1 DEF PathFlags
<1>6. TypeOK'
  <2>1. pc' \in Steps /\ (failedAt' # Unset <=> pc' = "exited")
    BY <1>1 DEF IInv, TypeOK, Steps, Unset
  <2>2. {flags'.qps, flags'.queue, flags'.connections, flags'.workers} \subseteq Int
    BY <1>3, <1>4, <1>5
  <2> QED
    BY <1>2, <1>5, <2>1, <2>2, StepsOfType DEF IInv, TypeOK
<1>7. DiscoveryInv'
  BY <1>1, <1>2, <1>5 DEF IInv, DiscoveryInv, Discovering
<1>8. PathsInv'
  <2>1. "numbers" \notin Discovering \cup {"exited"} /\ "cert" \in PathFlags
    BY DEF Discovering, PathFlags
  <2> QED
    BY <1>1, <1>2, <1>5, <2>1 DEF IInv, PathsInv
<1>9. ChecksInv'
  BY <1>1, <1>4, <1>5 DEF ChecksInv, PastNumbers, PastPairing, PastBurst, Opening
<1>10. LoadInv'
  BY <1>1, <1>2 DEF IInv, LoadInv, Opening
<1>11. OutputsInv'
  BY <1>1, <1>2 DEF IInv, OutputsInv, OutputsTouchedLast
<1> QED
  BY <1>6, <1>7, <1>8, <1>9, <1>10, <1>11 DEF IInv

\* A burst configuration that passes is valid and fits the rate.
LEMMA BurstStep ==
  ASSUME IInv, CheckBurst
  PROVE  IInv'
<1>1. PICK b \in Bursts, passes \in BOOLEAN :
        /\ passes => Valid(b) /\ Fits(b)
        /\ pc = "burst" /\ pc' = (IF passes THEN "load" ELSE "exited")
        /\ failedAt' = IF passes THEN failedAt ELSE "burst"
        /\ burst' = b
        /\ takeOver' = takeOver /\ flags' = flags /\ given' = given /\ artifacts' = artifacts
        /\ asked' = asked /\ loading' = loading /\ file' = file /\ outputs' = outputs
  <2>1. PICK b \in Bursts, namesKnown \in BOOLEAN :
          /\ Check("burst", namesKnown /\ Valid(b) /\ Fits(b), "load")
          /\ burst' = b
          /\ UNCHANGED <<takeOver, flags, given, artifacts, asked, loading, file, outputs>>
    BY DEF CheckBurst
  <2> DEFINE passes == namesKnown /\ Valid(b) /\ Fits(b)
  <2>2. passes \in BOOLEAN /\ (passes => Valid(b) /\ Fits(b)) /\ Check("burst", passes, "load")
    BY <2>1
  <2> HIDE DEF passes
  <2> QED
    BY <2>1, <2>2 DEF Check
<1>2. TypeOK'
  <2>1. pc' \in Steps /\ (failedAt' # Unset <=> pc' = "exited")
    BY <1>1 DEF IInv, TypeOK, Steps, Unset
  <2> QED
    BY <1>1, <2>1, StepsOfType DEF IInv, TypeOK
<1>3. DiscoveryInv'
  BY <1>1 DEF IInv, DiscoveryInv, Discovering
<1>4. PathsInv'
  BY <1>1 DEF IInv, PathsInv, Discovering
<1>5. ChecksInv'
  <2>1. pc' \in PastNumbers =>
          flags'.qps > 0 /\ flags'.connections > 0 /\ flags'.workers > 0 /\ flags'.queue > 0
    BY <1>1 DEF IInv, ChecksInv, PastNumbers, PastPairing
  <2>2. pc' \in PastPairing => Paired'
    BY <1>1 DEF IInv, ChecksInv, PastPairing, Paired
  <2>3. pc' \in PastBurst => Valid(burst)' /\ Fits(burst)'
    BY <1>1 DEF PastBurst, Opening, Valid, Fits, ExceedsQPS
  <2> QED
    BY <2>1, <2>2, <2>3 DEF ChecksInv
<1>6. LoadInv'
  BY <1>1 DEF IInv, LoadInv, Opening
<1>7. OutputsInv'
  BY <1>1 DEF IInv, OutputsInv, OutputsTouchedLast
<1> QED
  BY <1>2, <1>3, <1>4, <1>5, <1>6, <1>7 DEF IInv

\* A file that passes is loaded, and is not empty.
LEMMA LoadStep ==
  ASSUME IInv, Load
  PROVE  IInv'
<1>1. PICK passes \in BOOLEAN :
        /\ passes => loading'.reqs # <<>>
        /\ pc = "load" /\ pc' = (IF passes THEN "dialOptions" ELSE "exited")
        /\ failedAt' = IF passes THEN failedAt ELSE "load"
        /\ \/ file' \in Files /\ loading' = LoadRequests(file')
           \/ file' = file /\ loading' = loading
        /\ takeOver' = takeOver /\ flags' = flags /\ given' = given /\ artifacts' = artifacts
        /\ asked' = asked /\ burst' = burst /\ outputs' = outputs
  <2>1. takeOver' = takeOver /\ flags' = flags /\ given' = given /\ artifacts' = artifacts
        /\ asked' = asked /\ burst' = burst /\ outputs' = outputs
    BY DEF Load
  <2>2. CASE \E f \in Files :
               LET end == LoadRequests(f) IN
               /\ Check("load", ~end.err /\ end.reqs # <<>>, "dialOptions")
               /\ file' = f /\ loading' = end
    <3>1. PICK f \in Files :
            /\ Check("load", ~LoadRequests(f).err /\ LoadRequests(f).reqs # <<>>, "dialOptions")
            /\ file' = f /\ loading' = LoadRequests(f)
      BY <2>2
    <3> DEFINE passes == ~LoadRequests(f).err /\ LoadRequests(f).reqs # <<>>
    <3>2. passes \in BOOLEAN /\ (passes => loading'.reqs # <<>>) /\ Check("load", passes, "dialOptions")
      BY <3>1
    <3> HIDE DEF passes
    <3> QED
      BY <2>1, <3>1, <3>2 DEF Check
  <2>3. CASE Check("load", FALSE, "dialOptions") /\ UNCHANGED <<file, loading>>
    BY <2>1, <2>3 DEF Check
  <2> QED
    BY <2>2, <2>3 DEF Load
<1>2. LoadInv'
  <2>1. \/ file' = <<>> /\ loading' = NothingLoaded
        \/ file' \in Files /\ loading' = LoadRequests(file')
    BY <1>1 DEF IInv, LoadInv
  <2> QED
    BY <1>1, <2>1 DEF LoadInv, Opening
<1>3. TypeOK'
  <2>1. pc' \in Steps /\ (failedAt' # Unset <=> pc' = "exited")
    BY <1>1 DEF IInv, TypeOK, Steps, Unset
  <2>2. loading' \in Loading
    BY <1>2, LoadingType DEF LoadInv
  <2> QED
    BY <1>1, <2>1, <2>2, StepsOfType DEF IInv, TypeOK
<1>4. DiscoveryInv'
  BY <1>1 DEF IInv, DiscoveryInv, Discovering
<1>5. PathsInv'
  BY <1>1 DEF IInv, PathsInv, Discovering
<1>6. ChecksInv'
  BY <1>1 DEF IInv, ChecksInv, PastNumbers, PastPairing, PastBurst, Opening, Paired, Valid, Fits, ExceedsQPS
<1>7. OutputsInv'
  BY <1>1 DEF IInv, OutputsInv, OutputsTouchedLast
<1> QED
  BY <1>2, <1>3, <1>4, <1>5, <1>6, <1>7 DEF IInv

\* An output is created only when every earlier step has passed.
LEMMA OutputStep ==
  ASSUME IInv, OpenCSV \/ OpenJSONL
  PROVE  IInv'
<1>1. PICK step \in {"csv", "jsonl"}, passes \in BOOLEAN :
        /\ pc = step
        /\ pc' = IF ~passes THEN "exited" ELSE IF step = "csv" THEN "jsonl" ELSE "running"
        /\ failedAt' = IF passes THEN failedAt ELSE step
        /\ outputs' \in {outputs, outputs \cup {step}} /\ (~passes => outputs' = outputs)
        /\ takeOver' = takeOver /\ flags' = flags /\ given' = given /\ artifacts' = artifacts
        /\ asked' = asked /\ burst' = burst /\ loading' = loading /\ file' = file
  <2>1. ASSUME NEW step \in {"csv", "jsonl"}, NEW next, OpenOutput(step, next)
        PROVE  \E passes \in BOOLEAN :
                 /\ pc = step
                 /\ pc' = IF passes THEN next ELSE "exited"
                 /\ failedAt' = IF passes THEN failedAt ELSE step
                 /\ outputs' \in {outputs, outputs \cup {step}} /\ (~passes => outputs' = outputs)
                 /\ takeOver' = takeOver /\ flags' = flags /\ given' = given /\ artifacts' = artifacts
                 /\ asked' = asked /\ burst' = burst /\ loading' = loading /\ file' = file
    BY <2>1 DEF OpenOutput, Check
  <2>2. CASE OpenCSV
    BY <2>1, <2>2 DEF OpenCSV
  <2>3. CASE OpenJSONL
    BY <2>1, <2>3 DEF OpenJSONL
  <2> QED
    BY <2>2, <2>3
<1>2. TypeOK'
  <2>1. pc' \in Steps /\ (failedAt' # Unset <=> pc' = "exited")
    BY <1>1 DEF IInv, TypeOK, Steps, Unset
  <2>2. outputs' \subseteq {"csv", "jsonl"}
    BY <1>1 DEF IInv, TypeOK
  <2> QED
    BY <1>1, <2>1, <2>2, StepsOfType DEF IInv, TypeOK
<1>3. DiscoveryInv'
  BY <1>1 DEF IInv, DiscoveryInv, Discovering
<1>4. PathsInv'
  BY <1>1 DEF IInv, PathsInv, Discovering
<1>5. ChecksInv'
  BY <1>1 DEF IInv, ChecksInv, PastNumbers, PastPairing, PastBurst, Opening, Paired, Valid, Fits, ExceedsQPS
<1>6. LoadInv'
  BY <1>1 DEF IInv, LoadInv, Opening
<1>7. OutputsInv'
  BY <1>1 DEF IInv, OutputsInv, OutputsTouchedLast
<1> QED
  BY <1>2, <1>3, <1>4, <1>5, <1>6, <1>7 DEF IInv

\* The invariant holds at every step of start-up.
THEOREM Inductive == Spec => []IInv
<1>1. Init => IInv
  BY InitInv
<1>2. IInv /\ [Next]_vars => IInv'
  <2> SUFFICES ASSUME IInv, [Next]_vars PROVE IInv'
    OBVIOUS
  <2>1. CASE RequireTakeoverTarget
    BY <2>1, PlainStep DEF RequireTakeoverTarget, KeptByCheck
  <2>2. CASE \E i \in 1..Len(Artifacts) : ResolveArtifact(i)
    BY <2>2, ResolveStep
  <2>3. CASE FillFlags
    BY <2>3, FillStep
  <2>4. CASE RequireFileAndTarget
    BY <2>4, PlainStep DEF RequireFileAndTarget, KeptByCheck
  <2>5. CASE NormalizeTarget
    BY <2>5, PlainStep DEF NormalizeTarget, KeptByCheck
  <2>6. CASE CheckNumbers
    BY <2>6, NumbersStep
  <2>7. CASE PairCredentials
    BY <2>7, PlainStep DEF PairCredentials, KeptByCheck, Paired
  <2>8. CASE CheckBurst
    BY <2>8, BurstStep
  <2>9. CASE Load
    BY <2>9, LoadStep
  <2>10. CASE BuildDialOptions
    BY <2>10, PlainStep DEF BuildDialOptions, KeptByCheck
  <2>11. CASE OpenConnections
    BY <2>11, PlainStep DEF OpenConnections, KeptByCheck
  <2>12. CASE OpenCSV \/ OpenJSONL
    BY <2>12, OutputStep
  <2>13. CASE UNCHANGED vars
    BY <2>13 DEF vars, runVars, IInv, TypeOK, DiscoveryInv, PathsInv, ChecksInv, LoadInv, OutputsInv,
                 OutputsTouchedLast, Paired, Valid, Fits, ExceedsQPS
  <2> QED
    BY <2>1, <2>2, <2>3, <2>4, <2>5, <2>6, <2>7, <2>8, <2>9, <2>10, <2>11, <2>12, <2>13 DEF Next
<1> QED
  BY <1>1, <1>2, PTL DEF Spec

----------------------------------------------------------------------------
(* What it gives                                                           *)

\* A start that gets through all the checks has usable sizes, its credentials
\* in pairs and a burst that fits the rate.
THEOREM StartAlwaysRunnable == Spec => []StartedRunnable
<1>1. IInv => StartedRunnable
  <2> SUFFICES ASSUME IInv PROVE StartedRunnable
    OBVIOUS
  <2>1. Running => /\ pc \in PastNumbers /\ pc \in PastPairing /\ pc \in PastBurst /\ pc \in Opening
                   /\ pc \notin Discovering \cup {"exited"}
    BY DEF Running, PastNumbers, PastPairing, PastBurst, Opening, Discovering
  <2>2. SizesUsable
    BY <2>1 DEF IInv, ChecksInv, LoadInv, SizesUsable
  <2>3. CredentialsPaired
    BY <2>1 DEF IInv, ChecksInv, PathsInv, Paired, CredentialsPaired
  <2>4. BurstsFitRate
    <3> SUFFICES ASSUME Running
                 PROVE  /\ burst.Size > 0 => burst.Window > 0 /\ burst.Period > 0
                        /\ burst.Size > 0 /\ burst.Mode = "absorbing" =>
                             flags.qps * burst.Period - burst.Size * Second >= 0
      BY DEF BurstsFitRate
    <3>1. Valid(burst) /\ Fits(burst)
      BY <2>1 DEF IInv, ChecksInv
    <3>2. burst.Size \in Int /\ burst.Period \in Int /\ flags.qps \in Int /\ Second \in Int
      BY StartupAssumption DEF IInv, TypeOK, NoBurst
    <3>3. flags.qps * burst.Period \in Int /\ burst.Size * Second \in Int
      BY <3>2
    <3>4. \A p, q \in Int : ~(q > p) => p - q >= 0
      OBVIOUS
    <3> QED
      BY <3>1, <3>3, <3>4 DEF Valid, Fits, ExceedsQPS
  <2> QED
    BY <2>2, <2>3, <2>4 DEF StartedRunnable, IInv
<1> QED
  BY <1>1, Inductive, PTL

\* A flag wins over an override, and an override over every candidate.
THEOREM PrecedenceKept == Spec => []Precedence
<1>1. IInv => Precedence
  BY DEF IInv, PathsInv, Precedence, Running, Discovering
<1> QED
  BY <1>1, Inductive, PTL

\* A start that is refused leaves the results of the earlier run alone, but
\* for a CSV file when the JSONL file cannot be created.
THEOREM OutputsAlwaysLast == Spec => []OutputsTouchedLast
<1>1. IInv => OutputsTouchedLast
  BY DEF IInv, OutputsInv
<1> QED
  BY <1>1, Inductive, PTL

\* After the step "load" the requests are those of the file that was read.
LEMMA LoadedFile ==
  ASSUME IInv, Loaded
  PROVE  file \in Files /\ file \in Seq(Record) /\ loading = LoadRequests(file)
<1>1. file \in Files /\ loading = LoadRequests(file)
  BY DEF IInv, LoadInv, Loaded, Opening, NothingLoaded
<1> QED
  BY <1>1, LoadingType

\* For every file: the replayer's loader is all or nothing, and keeps exactly
\* the records with a payload, in order, each with its own method.
THEOREM LoaderAlwaysSound == Spec => []LoaderSound
<1>1. IInv => LoaderSound
  <2> SUFFICES ASSUME IInv, Loaded
               PROVE  /\ loading.err <=>
                           \/ \E i \in 1..Len(file) : \/ file[i].cut
                                                      \/ file[i].methodLen \notin 1..MaxMethodLen
                                                      \/ file[i].payloadLen > MaxPayloadLen
                           \/ BytesOf(file) > MaxTotalReplayBytes
                      /\ ~loading.err => IsSelection(loading.reqs, file) /\ JobsFaithful
    BY DEF LoaderSound
  <2>1. file \in Seq(Record) /\ loading = LoadRequests(file)
    BY LoadedFile
  <2>2. /\ loading.err <=> \/ \E i \in 1..Len(file) : Refused(file[i], MaxMethodLen)
                           \/ BytesOf(file) > MaxTotalReplayBytes
        /\ ~loading.err => IsSelection(loading.reqs, file)
        /\ \A i \in 1..Len(loading.reqs) : loading.reqs[i].methodLen > 0
    BY <2>1, ReplayerLoads
  <2>3. JobsFaithful
    BY <2>2 DEF JobsFaithful, Job
  <2> QED
    BY <2>2, <2>3 DEF Refused
<1> QED
  BY <1>1, Inductive, PTL

\* For every file: what the parity check accepts, the replayer accepts too,
\* and it sends the same requests but for those without a payload.
THEOREM LoadersAlwaysAgree == Spec => []LoadersAgree
<1>1. IInv => LoadersAgree
  <2> SUFFICES ASSUME IInv, Loaded, ~ParityLoadRequests(file).err
               PROVE  ~loading.err /\ IsSelection(loading.reqs, ParityLoadRequests(file).reqs)
    BY DEF LoadersAgree
  <2>1. file \in Seq(Record) /\ loading = LoadRequests(file)
    BY LoadedFile
  <2>2. /\ ~(\E i \in 1..Len(file) : Refused(file[i], ParityMaxMethodLen))
        /\ ~(BytesOf(file) > MaxTotalReplayBytes)
        /\ ParityLoadRequests(file).reqs = file
    BY <2>1, ParityLoads
  <2>3. ~(\E i \in 1..Len(file) : Refused(file[i], MaxMethodLen))
    <3> SUFFICES ASSUME NEW i \in 1..Len(file), Refused(file[i], MaxMethodLen) PROVE FALSE
      OBVIOUS
    <3>1. file[i].methodLen \in Nat
      BY <2>1, RecordFields
    <3>2. MaxMethodLen \in Nat /\ ParityMaxMethodLen \in Nat /\ ParityMaxMethodLen <= MaxMethodLen
      BY ReplayFileAssumption
    <3>3. Refused(file[i], ParityMaxMethodLen)
      BY <3>1, <3>2 DEF Refused
    <3> QED
      BY <2>2, <3>3
  <2> QED
    BY <2>1, <2>2, <2>3, ReplayerLoads
<1> QED
  BY <1>1, Inductive, PTL

=============================================================================
