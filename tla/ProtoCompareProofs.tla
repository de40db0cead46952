------------------------- MODULE ProtoCompareProofs -------------------------
(***************************************************************************)
(* The comparison of floats, for responses of any length with messages of  *)
(* any length in them and any tolerance: the loops decide what the         *)
(* definition without loops says, and count it.                            *)
(***************************************************************************)
EXTENDS ProtoCompareProps, DataProofs

----------------------------------------------------------------------------
(* The loops as runs: the state after n turns, for every n *)

\* The states of the extraction loops and of the loop over pairs.
Extraction == [floats : Seq(Int), stopped : BOOLEAN]
Pairing == [maxDiff : Nat, mismatches : Nat]

\* A field of a message in a response, and a field of a response.
LEMMA FieldCases ==
  ASSUME NEW f \in Fields
  PROVE  /\ f.kind \in {"varint", "float", "special", "broken", "message"}
         /\ f.kind = "float" => f.v \in Int
         /\ f.kind = "message" => f.fields \in Seq(Scalars)
<1>1. Submessages \subseteq Seq(Scalars)
  BY DEF Submessages, BoundedSeq, SeqOf
<1>2. <<>> \in Seq(Scalars)
  OBVIOUS
<1>3. CASE f \in [kind : {"varint", "float", "special"}, v : Values]
  BY <1>3, ProtoCompareAssumption DEF Fields
<1>4. CASE f \in {[kind |-> "broken"], [kind |-> "message", fields |-> <<>>]}
  <2>1. CASE f = [kind |-> "broken"]
    BY <2>1
  <2>2. CASE f = [kind |-> "message", fields |-> <<>>]
    BY <1>2, <2>2
  <2> QED
    BY <1>4, <2>1, <2>2
<1>5. CASE f \in [kind : {"message"}, fields : Submessages]
  BY <1>1, <1>5 DEF Fields
<1> QED
  BY <1>3, <1>4, <1>5 DEF Fields, Scalars

\* What a turn of the loop over the fields of a message does.
LEMMA ShallowTurnCases ==
  ASSUME NEW acc \in Extraction, NEW f \in Fields
  PROVE  /\ ShallowTurn(acc, f) \in Extraction
         /\ acc.stopped => ShallowTurn(acc, f) = acc
         /\ ~acc.stopped /\ f.kind = "broken" =>
              ShallowTurn(acc, f).stopped /\ ShallowTurn(acc, f).floats = acc.floats
         /\ ~acc.stopped /\ f.kind = "float" =>
              ~ShallowTurn(acc, f).stopped /\ ShallowTurn(acc, f).floats = Append(acc.floats, f.v)
         /\ ~acc.stopped /\ f.kind \notin {"broken", "float"} => ShallowTurn(acc, f) = acc
<1>1. f.kind = "float" => f.v \in Int
  BY FieldCases
<1>2. acc.floats \in Seq(Int) /\ acc.stopped \in BOOLEAN
  BY DEF Extraction
<1>3. CASE acc.stopped
  <2>1. ShallowTurn(acc, f) = acc
    BY <1>3 DEF ShallowTurn
  <2> QED
    BY <1>3, <2>1
<1>4. CASE ~acc.stopped /\ f.kind = "broken"
  <2>1. ShallowTurn(acc, f) = [acc EXCEPT !.stopped = TRUE]
    BY <1>4 DEF ShallowTurn
  <2> QED
    BY <1>2, <1>4, <2>1 DEF Extraction
<1>5. CASE ~acc.stopped /\ f.kind = "float"
  <2>1. ShallowTurn(acc, f) = [acc EXCEPT !.floats = Append(@, f.v)]
    BY <1>5 DEF ShallowTurn
  <2>2. Append(acc.floats, f.v) \in Seq(Int)
    BY <1>1, <1>2, <1>5
  <2> QED
    BY <1>2, <1>5, <2>1, <2>2 DEF Extraction
<1>6. CASE ~acc.stopped /\ f.kind \notin {"broken", "float"}
  <2>1. ShallowTurn(acc, f) = acc
    BY <1>6 DEF ShallowTurn
  <2> QED
    BY <1>6, <2>1
<1> QED
  BY <1>3, <1>4, <1>5, <1>6

LEMMA StartType == Start \in Extraction /\ Start.floats = <<>> /\ ~Start.stopped
BY DEF Start, Extraction

----------------------------------------------------------------------------
(* The loops as runs                                                       *)
(*                                                                         *)
(* There are three loops: over the fields of a message in a response, over *)
(* those of a response, and over pairs of floats.  They are treated as     *)
(* one, which kind tells apart.                                            *)

States(kind) == IF kind = "pairs" THEN Pairing ELSE Extraction
Elements(kind) == IF kind = "pairs" THEN Nat ELSE Fields
First(kind) == IF kind = "pairs" THEN [maxDiff |-> 0, mismatches |-> 0] ELSE Start
Turn(kind, acc, f) == IF kind = "shallow" THEN ShallowTurn(acc, f)
                      ELSE IF kind = "top" THEN TopTurn(acc, f) ELSE PairTurn(acc, f)

\* The recursive equation of a loop.
Loops(x, kind, m, S) ==
  x = [s \in SUBSET S |-> IF s = {} THEN First(kind) ELSE Turn(kind, x[s \ {Max(s)}], m[Max(s)])]

\* The three of them as the community module writes them.
Shallow(x, m, S) ==
  x = [s \in SUBSET S |-> IF s = {} THEN Start ELSE ShallowTurn(x[s \ {Max(s)}], m[Max(s)])]
Top(x, m, S) ==
  x = [s \in SUBSET S |-> IF s = {} THEN Start ELSE TopTurn(x[s \ {Max(s)}], m[Max(s)])]
Pairs(x, m, S) ==
  x = [s \in SUBSET S |-> IF s = {} THEN [maxDiff |-> 0, mismatches |-> 0]
                          ELSE PairTurn(x[s \ {Max(s)}], m[Max(s)])]

LEMMA LoopsAre ==
  ASSUME NEW x, NEW m, NEW S
  PROVE  /\ Shallow(x, m, S) <=> Loops(x, "shallow", m, S)
         /\ Top(x, m, S) <=> Loops(x, "top", m, S)
         /\ Pairs(x, m, S) <=> Loops(x, "pairs", m, S)
<1>1. Shallow(x, m, S) <=> Loops(x, "shallow", m, S)
  BY DEF Shallow, Loops, First, Turn
<1>2. Top(x, m, S) <=> Loops(x, "top", m, S)
  BY DEF Top, Loops, First, Turn
<1>3. Pairs(x, m, S) <=> Loops(x, "pairs", m, S)
  BY DEF Pairs, Loops, First, Turn
<1> QED
  BY <1>1, <1>2, <1>3

\* What a fold with the turn of this kind returns.
Folded(kind, m, S) == (CHOOSE x : Loops(x, kind, m, S))[S]

LEMMA FoldsAre ==
  ASSUME NEW m
  PROVE  /\ ExtractShallowFloats(m) = Folded("shallow", m, DOMAIN m).floats
         /\ ExtractTopLevelFloats(m) = Folded("top", m, DOMAIN m).floats
         /\ FoldLeft(PairTurn, [maxDiff |-> 0, mismatches |-> 0], m) = Folded("pairs", m, DOMAIN m)
<1>1. /\ (CHOOSE x : Shallow(x, m, DOMAIN m)) = (CHOOSE x : Loops(x, "shallow", m, DOMAIN m))
      /\ (CHOOSE x : Top(x, m, DOMAIN m)) = (CHOOSE x : Loops(x, "top", m, DOMAIN m))
      /\ (CHOOSE x : Pairs(x, m, DOMAIN m)) = (CHOOSE x : Loops(x, "pairs", m, DOMAIN m))
  BY LoopsAre
<1>2. FoldLeft(ShallowTurn, Start, m) = (CHOOSE x : Shallow(x, m, DOMAIN m))[DOMAIN m]
  BY Zenon DEF FoldLeft, MapThenFoldSet, Shallow
<1>3. FoldLeft(TopTurn, Start, m) = (CHOOSE x : Top(x, m, DOMAIN m))[DOMAIN m]
  BY Zenon DEF FoldLeft, MapThenFoldSet, Top
<1>4. FoldLeft(PairTurn, [maxDiff |-> 0, mismatches |-> 0], m)
        = (CHOOSE x : Pairs(x, m, DOMAIN m))[DOMAIN m]
  BY Zenon DEF FoldLeft, MapThenFoldSet, Pairs
<1> QED
  BY <1>1, <1>2, <1>3, <1>4, Zenon DEF Folded, ExtractShallowFloats, ExtractTopLevelFloats

\* r is the run of a loop over m: its state after n turns, for every n.
Runs(r, kind, m) ==
  /\ r[0] = First(kind)
  /\ \A n \in 0..(Len(m) - 1) : r[n + 1] = Turn(kind, r[n], m[n + 1])
  /\ r[Len(m)] = Folded(kind, m, DOMAIN m)

LEMMA LoopRuns ==
  ASSUME NEW kind, NEW m \in Seq(Elements(kind)), First(kind) \in States(kind),
         \A acc \in States(kind), f \in Elements(kind) : Turn(kind, acc, f) \in States(kind)
  PROVE  \E r : Runs(r, kind, m)
<1> DEFINE S == 1..Len(m)
           T == [p \in States(kind) \X Elements(kind) |-> Turn(kind, p[1], p[2])]
           h == CHOOSE x : Loops(x, kind, m, S)
<1>1. Positions(S) /\ DOMAIN m = S /\ Len(m) \in Nat
  BY FS_Interval DEF Positions
<1>2. \A i \in S : m[i] \in Elements(kind)
  BY ElementOfSeq
<1>3. T \in [States(kind) \X Elements(kind) -> States(kind)]
  OBVIOUS
<1>4. \E x : Loops(x, kind, m, S)
  <2> HIDE DEF S
  <2>1. PICK g : Solved(g, States(kind), Elements(kind), T, First(kind), m, S)
    <3> HIDE DEF T
    <3> QED
      BY <1>1, <1>2, <1>3, SolvedExists
  <2>2. ASSUME NEW s \in SUBSET S
        PROVE  g[s] = IF s = {} THEN First(kind) ELSE Turn(kind, g[s \ {Max(s)}], m[Max(s)])
    <3>1. /\ g[s] = IF s = {} THEN First(kind) ELSE T[<<g[s \ {Max(s)}], m[Max(s)]>>]
          /\ s # {} => g[s \ {Max(s)}] \in States(kind) /\ m[Max(s)] \in Elements(kind)
      BY <2>1 DEF Solved
    <3> QED
      BY <3>1
  <2>3. g = [s \in SUBSET S |-> g[s]]
    BY <2>1 DEF Solved
  <2> HIDE DEF T
  <2>4. Loops(g, kind, m, S)
    BY <2>2, <2>3 DEF Loops
  <2> QED
    BY <2>4
<1>5. Loops(h, kind, m, S)
  BY <1>4
<1>6. Folded(kind, m, DOMAIN m) = h[S]
  BY <1>1 DEF Folded
<1> HIDE DEF h, T
<1> DEFINE r == [n \in 0..Len(m) |-> h[1..n]]
<1>7. \A s \in SUBSET S :
        h[s] = IF s = {} THEN First(kind) ELSE Turn(kind, h[s \ {Max(s)}], m[Max(s)])
  BY <1>5 DEF Loops
<1>8. r[0] = First(kind)
  <2>1. 1..0 = {} /\ {} \in SUBSET S /\ 0 \in 0..Len(m)
    BY <1>1
  <2>2. h[{}] = First(kind)
    BY <1>7, <2>1
  <2> QED
    BY <2>1, <2>2
<1>9. ASSUME NEW n \in 0..(Len(m) - 1) PROVE r[n + 1] = Turn(kind, r[n], m[n + 1])
  <2> DEFINE s == 1..(n + 1)
  <2>1. s \in SUBSET S /\ n \in Nat /\ n \in 0..Len(m) /\ n + 1 \in 0..Len(m)
    BY <1>1
  <2>2. Max(s) = n + 1 /\ s \ {n + 1} = 1..n /\ s # {}
    BY <2>1, LastOfFirst
  <2>3. r[n + 1] = h[s] /\ r[n] = h[1..n]
    BY <2>1
  <2> HIDE DEF s, S, r
  <2>4. h[s] = Turn(kind, h[s \ {Max(s)}], m[Max(s)])
    BY <1>7, <2>1, <2>2
  <2> QED
    BY <2>2, <2>3, <2>4
<1>10. r[Len(m)] = h[S]
  BY <1>1
<1> HIDE DEF r
<1>11. Runs(r, kind, m)
  BY <1>6, <1>8, <1>9, <1>10 DEF Runs
<1> QED
  BY <1>11

----------------------------------------------------------------------------
(* The definition without loops *)

\* Flattening is a run as well: one sequence is appended after the other.
Flattens(x, s) == x = [i \in 1..Len(s) |-> IF i = 1 THEN s[i] ELSE x[i - 1] \o s[i]]

LEMMA FlattenRuns ==
  ASSUME NEW s \in Seq(Seq(Int))
  PROVE  \E r \in [0..Len(s) -> Seq(Int)] :
           /\ r[0] = <<>>
           /\ \A n \in 0..(Len(s) - 1) : r[n + 1] = r[n] \o s[n + 1]
           /\ FlattenSeq(s) = r[Len(s)]
<1> DEFINE N == Len(s)
           T == [p \in Seq(Int) \X Seq(Int) |-> p[1] \o p[2]]
           Run(r) == r[0] = <<>> /\ \A n \in 0..(N - 1) : r[n + 1] = r[n] \o s[n + 1]
           x == CHOOSE y : Flattens(y, s)
<1>1. N \in Nat /\ \A i \in 1..N : s[i] \in Seq(Int)
  BY ElementOfSeq
<1>2. PICK r \in [0..N -> Seq(Int)] : Run(r)
  <2> DEFINE Q == Seq(Int)
             none == <<>>
  <2>1. T \in [Q \X Q -> Q]
    OBVIOUS
  <2>2. none \in Q /\ N \in Nat /\ \A i \in 1..N : s[i] \in Q
    BY <1>1
  <2> HIDE DEF N, Q, none
  <2>3. PICK r : RunOver(r, Q, T, none, s, N)
    <3> HIDE DEF T
    <3> QED
      BY <2>1, <2>2, RunExists
  <2>4. ASSUME NEW n \in 0..(N - 1) PROVE r[n + 1] = r[n] \o s[n + 1]
    <3>1. r[n] \in Seq(Int) /\ s[n + 1] \in Seq(Int)
      BY <2>2, <2>3 DEF Q, RunOver
    <3>2. r[n + 1] = T[<<r[n], s[n + 1]>>]
      BY <2>3 DEF RunOver
    <3> QED
      BY <3>1, <3>2
  <2> QED
    BY <2>3, <2>4 DEF Q, none, RunOver
<1>3. CASE N = 0
  <2>1. s = <<>>
    BY <1>3
  <2>2. FlattenSeq(s) = <<>>
    BY <1>3, <2>1 DEF FlattenSeq
  <2> QED
    BY <1>2, <1>3, <2>2
<1>4. CASE N # 0
  <2> DEFINE e == [i \in 1..N |-> r[i]]
  <2>1. Flattens(e, s)
    <3>1. ASSUME NEW i \in 1..N
          PROVE  e[i] = IF i = 1 THEN s[i] ELSE e[i - 1] \o s[i]
      <4>1. i - 1 \in 0..(N - 1) /\ (i - 1) + 1 = i
        BY <1>1
      <4>2. r[i] = r[i - 1] \o s[i]
        BY <1>2, <4>1
      <4>3. CASE i = 1
        <5>1. i - 1 = 0 /\ r[0] = <<>>
          BY <1>2, <4>3
        <5>2. r[i] = <<>> \o s[i]
          BY <4>2, <5>1
        <5> QED
          BY <1>1, <4>3, <5>2, ConcatEmptySeq
      <4>4. CASE i # 1
        <5>1. i - 1 \in 1..N
          BY <1>1, <4>4
        <5> QED
          BY <4>2, <4>4, <5>1
      <4> QED
        BY <4>3, <4>4
    <3> HIDE DEF e
    <3>2. e = [i \in 1..N |-> e[i]]
      BY DEF e
    <3> QED
      BY <3>1, <3>2 DEF Flattens
  <2>2. Flattens(x, s)
    BY <2>1
  <2>3. FlattenSeq(s) = x[N]
    BY <1>4, Zenon DEF FlattenSeq, Flattens
  <2> HIDE DEF x
  <2>4. \A i \in 1..N : x[i] = IF i = 1 THEN s[i] ELSE x[i - 1] \o s[i]
    BY <2>2 DEF Flattens
  <2>5. \A i \in 1..N : e[i] = IF i = 1 THEN s[i] ELSE e[i - 1] \o s[i]
    <3> HIDE DEF e
    <3> QED
      BY <2>1 DEF Flattens
  <2> DEFINE Bad == {i \in Nat : i \in 1..N /\ x[i] # e[i]}
  <2>6. Bad = {}
    <3> SUFFICES ASSUME Bad # {} PROVE FALSE
      OBVIOUS
    <3>1. PICK i \in Bad : \A k \in Bad : i <= k
      <4>1. Bad \in SUBSET Nat
        OBVIOUS
      <4> HIDE DEF Bad
      <4> QED
        BY <4>1, LeastElement
    <3>2. i \in 1..N /\ x[i] # e[i]
      BY <3>1
    <3>3. i # 1
      BY <2>4, <2>5, <3>2
    <3>4. i - 1 \in Nat /\ i - 1 \in 1..N /\ ~(i <= i - 1)
      BY <1>1, <3>2, <3>3
    <3>5. x[i - 1] = e[i - 1]
      BY <3>1, <3>4
    <3> HIDE DEF e
    <3> QED
      BY <2>4, <2>5, <3>2, <3>3, <3>5
  <2>7. N \in 1..N /\ N \in Nat
    BY <1>1, <1>4
  <2>8. e[N] = r[N]
    BY <2>7
  <2>9. x[N] = e[N]
    <3> HIDE DEF e, N
    <3> QED
      BY <2>6, <2>7
  <2> QED
    BY <1>2, <2>3, <2>8, <2>9
<1> QED
  BY <1>3, <1>4

\* The number of fields before the first broken one.
Cut(m) == CHOOSE n \in 0..Len(m) :
            /\ \A k \in 1..n : m[k].kind # "broken"
            /\ n < Len(m) => m[n + 1].kind = "broken"

LEMMA CutIs ==
  ASSUME NEW m \in Seq(Fields)
  PROVE  /\ Cut(m) \in 0..Len(m) /\ Len(Readable(m)) = Cut(m)
         /\ \A k \in 1..Cut(m) : m[k].kind # "broken" /\ Readable(m)[k] = m[k]
         /\ Cut(m) < Len(m) => m[Cut(m) + 1].kind = "broken"
<1> DEFINE Ends == {n \in Nat : n <= Len(m) /\ (n < Len(m) => m[n + 1].kind = "broken")}
<1>1. PICK n \in Ends : \A k \in Ends : n <= k
  <2>1. Ends \in SUBSET Nat /\ Len(m) \in Ends
    OBVIOUS
  <2> HIDE DEF Ends
  <2> QED
    BY <2>1, LeastElement
<1>2. n \in 0..Len(m) /\ (n < Len(m) => m[n + 1].kind = "broken")
  BY <1>1
<1>3. ASSUME NEW k \in 1..n PROVE m[k].kind # "broken"
  <2>1. k - 1 \in Nat /\ k - 1 < Len(m) /\ ~(n <= k - 1) /\ (k - 1) + 1 = k
    BY <1>2
  <2>2. k - 1 \notin Ends
    BY <1>1, <2>1
  <2> QED
    BY <2>1, <2>2
<1>4. /\ Cut(m) \in 0..Len(m)
      /\ \A k \in 1..Cut(m) : m[k].kind # "broken"
      /\ Cut(m) < Len(m) => m[Cut(m) + 1].kind = "broken"
  BY <1>2, <1>3 DEF Cut
<1>5. Readable(m) = SubSeq(m, 1, Cut(m))
  BY Zenon DEF Readable, Cut
<1> HIDE DEF Ends
<1>6. Len(Readable(m)) = Cut(m) /\ \A k \in 1..Cut(m) : Readable(m)[k] = m[k]
  BY <1>4, <1>5
<1> QED
  BY <1>4, <1>6

----------------------------------------------------------------------------
(* The extraction finds the floats of the definition *)

\* The floats in a field, for a loop of this kind, and those of all fields up
\* to the first broken one.
Own(f) == IF f.kind = "float" THEN <<f.v>> ELSE <<>>
FlatFloats(s) == FlattenSeq([k \in 1..Len(s) |-> Own(s[k])])
Piece(kind, f) == IF kind = "top" /\ f.kind = "message" THEN FlatFloats(Readable(f.fields)) ELSE Own(f)
Pieces(kind, m) == [k \in 1..Len(Readable(m)) |-> Piece(kind, m[k])]

\* A turn goes on with the floats of the field added, or stops for good.
Adds(kind, acc, f) ==
  LET next == Turn(kind, acc, f)
  IN  /\ Piece(kind, f) \in Seq(Int)
      /\ next \in Extraction
      /\ acc.stopped => next = acc
      /\ ~acc.stopped /\ f.kind = "broken" => next.floats = acc.floats /\ next.stopped
      /\ ~acc.stopped /\ f.kind # "broken" =>
           next.floats = acc.floats \o Piece(kind, f) /\ ~next.stopped

\* Therefore the loop returns the floats of all fields up to the first broken one.
LEMMA LoopFinds ==
  ASSUME NEW kind \in {"shallow", "top"},
         \A acc \in Extraction, f \in Fields : Adds(kind, acc, f),
         NEW m \in Seq(Fields)
  PROVE  /\ Folded(kind, m, DOMAIN m).floats = FlattenSeq(Pieces(kind, m))
         /\ FlattenSeq(Pieces(kind, m)) \in Seq(Int)
<1> DEFINE C == Cut(m)
           P == Pieces(kind, m)
<1>1. PICK r : Runs(r, kind, m)
  <2>1. States(kind) = Extraction /\ Elements(kind) = Fields /\ First(kind) = Start
    BY DEF States, Elements, First
  <2>2. \A acc \in Extraction, f \in Fields : Turn(kind, acc, f) \in Extraction
    BY DEF Adds
  <2> QED
    BY <2>1, <2>2, StartType, LoopRuns
<1>2. /\ r[0] = Start
      /\ \A n \in 0..(Len(m) - 1) : r[n + 1] = Turn(kind, r[n], m[n + 1])
      /\ r[Len(m)] = Folded(kind, m, DOMAIN m)
  BY <1>1 DEF Runs, First
<1>3. /\ C \in 0..Len(m) /\ Len(m) \in Nat
      /\ \A k \in 1..C : m[k].kind # "broken"
      /\ C < Len(m) => m[C + 1].kind = "broken"
      /\ Len(Readable(m)) = C
  BY CutIs
<1>4. \A i \in 1..Len(m) : m[i] \in Fields
  BY ElementOfSeq
<1>5. \A k \in 1..C : P[k] = Piece(kind, m[k]) /\ P[k] \in Seq(Int)
  <2> SUFFICES ASSUME NEW k \in 1..C PROVE P[k] = Piece(kind, m[k]) /\ P[k] \in Seq(Int)
    OBVIOUS
  <2>1. P[k] = Piece(kind, m[k])
    BY <1>3 DEF Pieces
  <2>2. m[k] \in Fields
    BY <1>3, <1>4
  <2>3. Adds(kind, Start, m[k])
    BY <2>2, StartType
  <2> QED
    BY <2>1, <2>3 DEF Adds
<1>6. P \in Seq(Seq(Int)) /\ Len(P) = C
  <2>1. P \in [1..C -> Seq(Int)]
    BY <1>3, <1>5 DEF Pieces
  <2> QED
    BY <1>3, <2>1
<1> HIDE DEF C, P
<1>7. PICK fl \in [0..C -> Seq(Int)] :
        /\ fl[0] = <<>>
        /\ \A n \in 0..(C - 1) : fl[n + 1] = fl[n] \o P[n + 1]
        /\ FlattenSeq(P) = fl[C]
  BY <1>6, FlattenRuns
<1> DEFINE Good(n) == /\ r[n] \in Extraction
                      /\ n <= C => r[n].floats = fl[n] /\ ~r[n].stopped
                      /\ n > C => r[n].floats = fl[C] /\ r[n].stopped
           Bad == {n \in Nat : n <= Len(m) /\ ~Good(n)}
<1>8. Good(0)
  BY <1>2, <1>3, <1>7, StartType
<1>9. ASSUME NEW n \in Nat, n < Len(m), Good(n) PROVE Good(n + 1)
  <2>1. n \in 0..(Len(m) - 1) /\ m[n + 1] \in Fields /\ n + 1 \in Nat
    BY <1>3, <1>4, <1>9
  <2>2. r[n + 1] = Turn(kind, r[n], m[n + 1])
    BY <1>2, <2>1
  <2>3. Adds(kind, r[n], m[n + 1])
    BY <1>9, <2>1
  <2>4. /\ r[n + 1] \in Extraction
        /\ r[n].stopped => r[n + 1] = r[n]
        /\ ~r[n].stopped /\ m[n + 1].kind = "broken" =>
             r[n + 1].floats = r[n].floats /\ r[n + 1].stopped
        /\ ~r[n].stopped /\ m[n + 1].kind # "broken" =>
             r[n + 1].floats = r[n].floats \o Piece(kind, m[n + 1]) /\ ~r[n + 1].stopped
    BY <2>2, <2>3 DEF Adds
  <2>5. CASE n < C
    <3>1. n + 1 \in 1..C /\ n \in 0..(C - 1) /\ n <= C
      BY <1>3, <2>5
    <3>2. m[n + 1].kind # "broken" /\ P[n + 1] = Piece(kind, m[n + 1])
      BY <1>3, <1>5, <3>1
    <3>3. r[n + 1].floats = fl[n] \o P[n + 1] /\ ~r[n + 1].stopped
      BY <1>9, <2>4, <3>1, <3>2
    <3>4. fl[n + 1] = fl[n] \o P[n + 1]
      BY <1>7, <3>1
    <3> QED
      BY <1>3, <2>4, <3>1, <3>3, <3>4
  <2>6. CASE n = C
    <3>1. m[n + 1].kind = "broken"
      BY <1>3, <1>9, <2>6
    <3>2. r[n + 1].floats = fl[C] /\ r[n + 1].stopped
      BY <1>3, <1>9, <2>4, <2>6, <3>1
    <3> QED
      BY <1>3, <2>4, <2>6, <3>2
  <2>7. CASE n > C
    <3>1. r[n + 1] = r[n] /\ r[n].floats = fl[C] /\ r[n].stopped
      BY <1>3, <1>9, <2>4, <2>7
    <3> QED
      BY <1>3, <2>4, <2>7, <3>1
  <2> QED
    BY <1>3, <2>5, <2>6, <2>7
<1>10. Bad = {}
  <2> SUFFICES ASSUME Bad # {} PROVE FALSE
    OBVIOUS
  <2> HIDE DEF Good
  <2>1. PICK n \in Bad : \A k \in Bad : n <= k
    <3>1. Bad \in SUBSET Nat
      OBVIOUS
    <3> HIDE DEF Bad
    <3> QED
      BY <3>1, LeastElement
  <2>2. n \in Nat /\ n <= Len(m) /\ ~Good(n)
    BY <2>1
  <2>3. n # 0
    BY <1>8, <2>2
  <2>4. n - 1 \in Nat /\ n - 1 < Len(m) /\ (n - 1) + 1 = n /\ ~(n <= n - 1)
    BY <1>3, <2>2, <2>3
  <2>5. Good(n - 1)
    BY <1>3, <2>1, <2>4
  <2>6. Good((n - 1) + 1)
    BY <1>9, <2>4, <2>5
  <2> QED
    BY <2>2, <2>4, <2>6
<1>11. Good(Len(m))
  <2> HIDE DEF Good
  <2> QED
    BY <1>3, <1>10
<1>12. r[Len(m)].floats = fl[C]
  BY <1>3, <1>11
<1>13. fl[C] \in Seq(Int)
  BY <1>3
<1> QED
  BY <1>2, <1>7, <1>12, <1>13 DEF P

\* A message in a response.
LEMMA ShallowAdds ==
  ASSUME NEW acc \in Extraction, NEW f \in Fields
  PROVE  Adds("shallow", acc, f)
<1>1. /\ Turn("shallow", acc, f) = ShallowTurn(acc, f)
      /\ Piece("shallow", f) = Own(f)
  BY DEF Turn, Piece
<1>2. acc.floats \in Seq(Int)
  BY DEF Extraction
<1>3. CASE f.kind = "float"
  <2>1. Own(f) = <<f.v>> /\ f.v \in Int
    BY <1>3, FieldCases DEF Own
  <2>2. Append(acc.floats, f.v) = acc.floats \o <<f.v>>
    BY <1>2, <2>1, AppendIsConcat
  <2>3. <<f.v>> \in Seq(Int)
    BY <2>1
  <2>4. /\ ShallowTurn(acc, f) \in Extraction
        /\ acc.stopped => ShallowTurn(acc, f) = acc
        /\ ~acc.stopped => /\ ~ShallowTurn(acc, f).stopped
                           /\ ShallowTurn(acc, f).floats = acc.floats \o <<f.v>>
    BY <1>3, <2>2, ShallowTurnCases
  <2> QED
    BY <1>1, <1>3, <2>1, <2>3, <2>4, Zenon DEF Adds
<1>4. CASE f.kind # "float"
  <2>1. Own(f) = <<>> /\ <<>> \in Seq(Int)
    BY <1>4 DEF Own
  <2>2. acc.floats \o <<>> = acc.floats
    BY <1>2, ConcatEmptySeq
  <2> QED
    BY <1>1, <1>4, <2>1, <2>2, ShallowTurnCases DEF Adds
<1> QED
  BY <1>3, <1>4

LEMMA ShallowFinds ==
  ASSUME NEW m \in Seq(Fields)
  PROVE  /\ ExtractShallowFloats(m) = FlatFloats(Readable(m))
         /\ FlatFloats(Readable(m)) \in Seq(Int)
<1>1. /\ Folded("shallow", m, DOMAIN m).floats = FlattenSeq(Pieces("shallow", m))
      /\ FlattenSeq(Pieces("shallow", m)) \in Seq(Int)
  BY ShallowAdds, LoopFinds
<1>2. Pieces("shallow", m) = [k \in 1..Len(Readable(m)) |-> Own(Readable(m)[k])]
  <2>1. \A k \in 1..Len(Readable(m)) : Piece("shallow", m[k]) = Own(Readable(m)[k])
    BY CutIs DEF Piece
  <2> QED
    BY <2>1 DEF Pieces
<1> QED
  BY <1>1, <1>2, FoldsAre DEF FlatFloats

\* A response.
LEMMA TopAdds ==
  ASSUME NEW acc \in Extraction, NEW f \in Fields
  PROVE  Adds("top", acc, f)
<1>1. Turn("top", acc, f) = TopTurn(acc, f)
  BY DEF Turn
<1>2. acc.floats \in Seq(Int) /\ acc.stopped \in BOOLEAN
  BY DEF Extraction
<1>3. CASE f.kind # "message"
  <2>1. TopTurn(acc, f) = ShallowTurn(acc, f) /\ Piece("top", f) = Piece("shallow", f)
    BY <1>3 DEF TopTurn, Piece
  <2>2. Adds("shallow", acc, f) /\ Turn("shallow", acc, f) = ShallowTurn(acc, f)
    BY ShallowAdds DEF Turn
  <2> QED
    BY <1>1, <2>1, <2>2 DEF Adds
<1>4. CASE f.kind = "message"
  <2>1. f.fields \in Seq(Fields)
    <3>1. Scalars \subseteq Fields
      BY DEF Fields
    <3>2. f.fields \in Seq(Scalars)
      BY <1>4, FieldCases
    <3> QED
      BY <3>1, <3>2
  <2> DEFINE part == FlatFloats(Readable(f.fields))
  <2>2. /\ Piece("top", f) = part /\ part \in Seq(Int)
        /\ ExtractShallowFloats(f.fields) = part
    BY <1>4, <2>1, ShallowFinds DEF Piece
  <2> HIDE DEF part
  <2>3. CASE acc.stopped
    <3>1. TopTurn(acc, f) = ShallowTurn(acc, f)
      BY <2>3 DEF TopTurn
    <3>2. ShallowTurn(acc, f) = acc
      BY <2>3, ShallowTurnCases
    <3> QED
      BY <1>1, <2>2, <2>3, <3>1, <3>2 DEF Adds
  <2>4. CASE ~acc.stopped
    <3>1. TopTurn(acc, f) = [acc EXCEPT !.floats = @ \o part]
      BY <1>4, <2>2, <2>4 DEF TopTurn
    <3>2. acc.floats \o part \in Seq(Int)
      BY <1>2, <2>2
    <3>3. /\ TopTurn(acc, f) \in Extraction
          /\ TopTurn(acc, f).floats = acc.floats \o part
          /\ ~TopTurn(acc, f).stopped
      BY <2>4, <3>1, <3>2 DEF Extraction
    <3> QED
      BY <1>1, <1>4, <2>2, <2>4, <3>3 DEF Adds
  <2> QED
    BY <2>3, <2>4
<1> QED
  BY <1>3, <1>4

LEMMA TopFinds ==
  ASSUME NEW m \in Seq(Fields)
  PROVE  ExtractTopLevelFloats(m) = FloatsOf(m) /\ FloatsOf(m) \in Seq(Int)
<1>1. /\ Folded("top", m, DOMAIN m).floats = FlattenSeq(Pieces("top", m))
      /\ FlattenSeq(Pieces("top", m)) \in Seq(Int)
  BY TopAdds, LoopFinds
<1>2. FloatsOf(m) = FlattenSeq([k \in 1..Len(Readable(m)) |->
                       IF m[k].kind = "message" THEN FlatFloats(Readable(m[k].fields)) ELSE Own(m[k])])
  BY Zenon DEF FloatsOf, FlatFloats, Own
<1>3. \A k : Piece("top", m[k]) = IF m[k].kind = "message" THEN FlatFloats(Readable(m[k].fields))
                                  ELSE Own(m[k])
  BY DEF Piece
<1>4. FloatsOf(m) = FlattenSeq(Pieces("top", m))
  BY <1>2, <1>3, Zenon DEF Pieces
<1> QED
  BY <1>1, <1>4, FoldsAre

----------------------------------------------------------------------------
(* The comparison *)

\* The loop over pairs: its count is zero exactly if all are within the
\* tolerance, and then its maximum is as well.
LEMMA PairsCount ==
  ASSUME NEW d \in Seq(Nat), NEW end,
         end = FoldLeft(PairTurn, [maxDiff |-> 0, mismatches |-> 0], d)
  PROVE  /\ end \in Pairing /\ end.mismatches <= Len(d)
         /\ end.mismatches = 0 <=> \A k \in 1..Len(d) : d[k] <= Tolerance
         /\ end.mismatches = 0 => end.maxDiff <= Tolerance
<1> DEFINE zero == [maxDiff |-> 0, mismatches |-> 0]
<1>1. zero \in Pairing /\ Tolerance \in Nat /\ Len(d) \in Nat /\ \A k \in 1..Len(d) : d[k] \in Nat
  BY ProtoCompareAssumption, ElementOfSeq DEF Pairing
<1>2. ASSUME NEW acc \in Pairing, NEW x \in Nat
      PROVE  /\ PairTurn(acc, x) \in Pairing
             /\ PairTurn(acc, x).maxDiff = IF x > acc.maxDiff THEN x ELSE acc.maxDiff
             /\ PairTurn(acc, x).mismatches = acc.mismatches + IF x > Tolerance THEN 1 ELSE 0
  <2> DEFINE top == IF x > acc.maxDiff THEN x ELSE acc.maxDiff
             more == acc.mismatches + IF x > Tolerance THEN 1 ELSE 0
  <2>1. acc.maxDiff \in Nat /\ acc.mismatches \in Nat
    BY DEF Pairing
  <2>2. top \in Nat /\ more \in Nat
    BY <1>1, <2>1
  <2>3. PairTurn(acc, x) = [maxDiff |-> top, mismatches |-> more]
    BY Zenon DEF PairTurn
  <2> HIDE DEF top, more
  <2>4. /\ PairTurn(acc, x) \in Pairing
        /\ PairTurn(acc, x).maxDiff = top /\ PairTurn(acc, x).mismatches = more
    BY <2>2, <2>3 DEF Pairing
  <2> QED
    BY <2>4 DEF top, more
<1>3. PICK r : Runs(r, "pairs", d)
  <2>1. /\ States("pairs") = Pairing /\ Elements("pairs") = Nat /\ First("pairs") = zero
        /\ \A acc \in Pairing, x \in Nat : Turn("pairs", acc, x) = PairTurn(acc, x)
    BY DEF States, Elements, First, Turn
  <2>2. d \in Seq(Elements("pairs")) /\ First("pairs") \in States("pairs")
    BY <1>1, <2>1
  <2>3. \A acc \in States("pairs"), x \in Elements("pairs") : Turn("pairs", acc, x) \in States("pairs")
    BY <1>2, <2>1
  <2> QED
    BY <2>2, <2>3, LoopRuns
<1>4. /\ r[0] = zero
      /\ \A n \in 0..(Len(d) - 1) : r[n + 1] = PairTurn(r[n], d[n + 1])
      /\ r[Len(d)] = end
  BY <1>3, FoldsAre DEF Runs, First, Turn
<1> DEFINE Good(n) == /\ r[n] \in Pairing /\ r[n].mismatches <= n
                      /\ r[n].mismatches = 0 <=> \A k \in 1..n : d[k] <= Tolerance
                      /\ r[n].mismatches = 0 => r[n].maxDiff <= Tolerance
           Bad == {n \in Nat : n <= Len(d) /\ ~Good(n)}
<1>5. Good(0)
  BY <1>1, <1>4
<1>6. ASSUME NEW n \in Nat, n < Len(d), Good(n) PROVE Good(n + 1)
  <2>1. n \in 0..(Len(d) - 1) /\ n + 1 \in 1..Len(d)
    BY <1>1, <1>6
  <2>2. d[n + 1] \in Nat /\ r[n + 1] = PairTurn(r[n], d[n + 1])
    BY <1>1, <1>4, <2>1
  <2>3. /\ r[n + 1] \in Pairing
        /\ r[n + 1].maxDiff = IF d[n + 1] > r[n].maxDiff THEN d[n + 1] ELSE r[n].maxDiff
        /\ r[n + 1].mismatches = r[n].mismatches + IF d[n + 1] > Tolerance THEN 1 ELSE 0
    <3>1. r[n] \in Pairing
      BY <1>6
    <3>2. PICK x \in Nat : x = d[n + 1]
      BY <2>2
    <3>3. PICK acc \in Pairing : acc = r[n]
      BY <3>1
    <3>4. r[n + 1] = PairTurn(acc, x)
      BY <2>2, <3>2, <3>3
    <3>5. /\ PairTurn(acc, x) \in Pairing
          /\ PairTurn(acc, x).maxDiff = IF x > acc.maxDiff THEN x ELSE acc.maxDiff
          /\ PairTurn(acc, x).mismatches = acc.mismatches + IF x > Tolerance THEN 1 ELSE 0
      BY <1>2
    <3> QED
      BY <3>2, <3>3, <3>4, <3>5, Zenon
  <2>4. r[n].mismatches \in Nat /\ r[n].maxDiff \in Nat
    BY <1>6 DEF Pairing
  <2>5. \A k : k \in 1..(n + 1) <=> k \in 1..n \/ k = n + 1
    OBVIOUS
  <2>6. CASE d[n + 1] > Tolerance
    <3>1. r[n + 1].mismatches = r[n].mismatches + 1
      BY <2>3, <2>6
    <3>2. ~(d[n + 1] <= Tolerance) /\ n + 1 \in 1..(n + 1)
      BY <1>1, <2>2, <2>6
    <3> QED
      BY <1>6, <2>3, <2>4, <3>1, <3>2
  <2>7. CASE ~(d[n + 1] > Tolerance)
    <3>1. r[n + 1].mismatches = r[n].mismatches /\ d[n + 1] <= Tolerance
      BY <1>1, <2>2, <2>3, <2>4, <2>7
    <3>2. r[n].maxDiff <= Tolerance => r[n + 1].maxDiff <= Tolerance
      BY <2>3, <3>1
    <3>3. (\A k \in 1..(n + 1) : d[k] <= Tolerance) <=> \A k \in 1..n : d[k] <= Tolerance
      BY <2>5, <3>1
    <3> QED
      BY <1>6, <2>3, <2>4, <3>1, <3>2, <3>3
  <2> QED
    BY <2>6, <2>7
<1>7. Bad = {}
  <2> SUFFICES ASSUME Bad # {} PROVE FALSE
    OBVIOUS
  <2> HIDE DEF Good
  <2>1. PICK n \in Bad : \A k \in Bad : n <= k
    <3>1. Bad \in SUBSET Nat
      OBVIOUS
    <3> HIDE DEF Bad
    <3> QED
      BY <3>1, LeastElement
  <2>2. n \in Nat /\ n <= Len(d) /\ ~Good(n)
    BY <2>1
  <2>3. n # 0
    BY <1>5, <2>2
  <2>4. n - 1 \in Nat /\ n - 1 < Len(d) /\ (n - 1) + 1 = n /\ ~(n <= n - 1)
    BY <1>1, <2>2, <2>3
  <2>5. Good(n - 1)
    BY <1>1, <2>1, <2>4
  <2>6. Good((n - 1) + 1)
    BY <1>6, <2>4, <2>5
  <2> QED
    BY <2>2, <2>4, <2>6
<1>8. Good(Len(d))
  <2> HIDE DEF Good
  <2> QED
    BY <1>1, <1>7
<1> QED
  BY <1>4, <1>8

\* CompareProtoFloats, of the floats found in the responses.
Gaps(fa, fb) == [k \in 1..Shorter(Len(fa), Len(fb)) |-> Distance(fa[k], fb[k])]
Compared(fa, fb) == FoldLeft(PairTurn, [maxDiff |-> 0, mismatches |-> 0], Gaps(fa, fb))
Unpaired(fa, fb) == Compared(fa, fb).mismatches + Distance(Len(fa), Len(fb))
Verdict(fa, fb) ==
  IF Shorter(Len(fa), Len(fb)) = 0 \/ Len(fa) # Len(fb)
  THEN [match |-> FALSE, maxDiff |-> Compared(fa, fb).maxDiff, total |-> Shorter(Len(fa), Len(fb)),
        mismatches |-> IF Unpaired(fa, fb) = 0 THEN 1 ELSE Unpaired(fa, fb)]
  ELSE [match |-> Compared(fa, fb).mismatches = 0, maxDiff |-> Compared(fa, fb).maxDiff,
        total |-> Shorter(Len(fa), Len(fb)), mismatches |-> Compared(fa, fb).mismatches]

LEMMA VerdictIs ==
  ASSUME NEW x \in Seq(Fields), NEW y \in Seq(Fields)
  PROVE  CompareProtoFloats(x, y) = Verdict(FloatsOf(x), FloatsOf(y))
<1>1. CompareProtoFloats(x, y) = Verdict(ExtractTopLevelFloats(x), ExtractTopLevelFloats(y))
  BY Zenon DEF CompareProtoFloats, Verdict, Unpaired, Compared, Gaps
<1> QED
  BY <1>1, TopFinds

\* Which comes first does not matter.
LEMMA VerdictSymmetric ==
  ASSUME NEW fa \in Seq(Int), NEW fb \in Seq(Int)
  PROVE  Verdict(fa, fb) = Verdict(fb, fa)
<1>1. /\ Len(fa) \in Nat /\ Len(fb) \in Nat
      /\ \A k \in 1..Len(fa) : fa[k] \in Int
      /\ \A k \in 1..Len(fb) : fb[k] \in Int
  BY ElementOfSeq
<1>2. /\ Shorter(Len(fa), Len(fb)) = Shorter(Len(fb), Len(fa))
      /\ Distance(Len(fa), Len(fb)) = Distance(Len(fb), Len(fa))
      /\ Shorter(Len(fa), Len(fb)) <= Len(fa) /\ Shorter(Len(fa), Len(fb)) <= Len(fb)
      /\ Shorter(Len(fa), Len(fb)) \in Nat
  BY <1>1 DEF Shorter, Distance
<1>3. ASSUME NEW k \in 1..Shorter(Len(fa), Len(fb)) PROVE Distance(fa[k], fb[k]) = Distance(fb[k], fa[k])
  <2>1. fa[k] \in Int /\ fb[k] \in Int
    BY <1>1, <1>2
  <2> QED
    BY <2>1 DEF Distance
<1>4. Gaps(fa, fb) = Gaps(fb, fa)
  BY <1>2, <1>3 DEF Gaps
<1>5. Compared(fa, fb) = Compared(fb, fa)
  BY <1>4, Zenon DEF Compared
<1>6. Unpaired(fa, fb) = Unpaired(fb, fa)
  BY <1>2, <1>5 DEF Unpaired
<1> QED
  BY <1>2, <1>5, <1>6 DEF Verdict

LEMMA VerdictFacts ==
  ASSUME NEW fa \in Seq(Int), NEW fb \in Seq(Int), NEW v, v = Verdict(fa, fb)
  PROVE  /\ v.match <=> /\ Len(fa) = Len(fb) /\ fa # <<>>
                        /\ \A k \in 1..Len(fa) : Distance(fa[k], fb[k]) <= Tolerance
         /\ v.match <=> v.mismatches = 0
         /\ v.match => v.maxDiff <= Tolerance
         /\ v.mismatches <= IF Len(fa) + Len(fb) = 0 THEN 1 ELSE Len(fa) + Len(fb) - v.total
<1> DEFINE la == Len(fa)
           lb == Len(fb)
           n == Shorter(la, lb)
           gaps == Gaps(fa, fb)
           end == Compared(fa, fb)
           apart == Distance(la, lb)
           unpaired == Unpaired(fa, fb)
<1>1. /\ la \in Nat /\ lb \in Nat
      /\ \A k \in 1..la : fa[k] \in Int
      /\ \A k \in 1..lb : fb[k] \in Int
      /\ la = 0 <=> fa = <<>>
  BY ElementOfSeq
<1> HIDE DEF la, lb
<1>2. /\ n \in Nat /\ n <= la /\ n <= lb /\ apart \in Nat
      /\ n + apart = la + lb - n
      /\ apart = 0 <=> la = lb
      /\ la = lb => n = la
  BY <1>1 DEF Shorter, Distance
<1> HIDE DEF n, apart
<1>3. /\ gaps \in Seq(Nat) /\ Len(gaps) = n
      /\ \A k \in 1..n : gaps[k] = Distance(fa[k], fb[k])
  <2>1. gaps = [k \in 1..n |-> Distance(fa[k], fb[k])]
    BY DEF Gaps, n, la, lb
  <2>2. ASSUME NEW k \in 1..n PROVE Distance(fa[k], fb[k]) \in Nat
    <3>1. fa[k] \in Int /\ fb[k] \in Int
      BY <1>1, <1>2
    <3> QED
      BY <3>1 DEF Distance
  <2> HIDE DEF gaps
  <2> QED
    BY <1>2, <2>1, <2>2
<1>4. /\ end.mismatches \in Nat /\ end.mismatches <= n
      /\ end.mismatches = 0 <=> \A k \in 1..n : Distance(fa[k], fb[k]) <= Tolerance
      /\ end.mismatches = 0 => end.maxDiff <= Tolerance
  <2>1. end = FoldLeft(PairTurn, [maxDiff |-> 0, mismatches |-> 0], gaps)
    BY DEF Compared
  <2> HIDE DEF end, gaps
  <2> QED
    BY <1>3, <2>1, PairsCount DEF Pairing
<1>5. unpaired = end.mismatches + apart
  BY DEF Unpaired, apart, la, lb
<1>6. v = IF n = 0 \/ la # lb
          THEN [match |-> FALSE, maxDiff |-> end.maxDiff, total |-> n,
                mismatches |-> IF unpaired = 0 THEN 1 ELSE unpaired]
          ELSE [match |-> end.mismatches = 0, maxDiff |-> end.maxDiff, total |-> n,
                mismatches |-> end.mismatches]
  BY DEF Verdict, n, la, lb
<1> HIDE DEF gaps, end, unpaired
<1>7. CASE n = 0 \/ la # lb
  <2>1. /\ v.match = FALSE /\ v.total = n
        /\ v.mismatches = IF unpaired = 0 THEN 1 ELSE unpaired
    BY <1>6, <1>7
  <2>2. ~(la = lb /\ fa # <<>>)
    BY <1>1, <1>2, <1>7
  <2> DEFINE e == end.mismatches
  <2>8. e \in Nat /\ e <= n /\ unpaired = e + apart
    BY <1>4, <1>5
  <2>9. apart = 0 => n = 0
    BY <1>2, <1>7
  <2>10. /\ e \in Nat /\ e <= n /\ unpaired = e + apart
         /\ n \in Nat /\ apart \in Nat /\ la \in Nat /\ lb \in Nat
         /\ n <= la /\ n <= lb /\ n + apart = la + lb - n
         /\ apart = 0 => n = 0
    BY <1>1, <1>2, <2>8, <2>9
  <2> HIDE DEF e
  <2>3. unpaired \in Nat /\ unpaired <= la + lb - n
    BY <2>10
  <2>4. unpaired = 0 => la + lb = 0
    BY <2>10
  <2>5. la + lb = 0 => unpaired = 0
    BY <2>10
  <2>6. v.mismatches # 0 /\ v.mismatches <= IF la + lb = 0 THEN 1 ELSE la + lb - v.total
    BY <2>1, <2>3, <2>4, <2>5
  <2> QED
    BY <2>1, <2>2, <2>6 DEF la, lb
<1>8. CASE ~(n = 0 \/ la # lb)
  <2>1. /\ v.match = (end.mismatches = 0) /\ v.total = n
        /\ v.mismatches = end.mismatches /\ v.maxDiff = end.maxDiff
    BY <1>6, <1>8
  <2>2. la = lb /\ n = la /\ la # 0 /\ fa # <<>>
    BY <1>1, <1>2, <1>8
  <2>3. v.mismatches <= IF la + lb = 0 THEN 1 ELSE la + lb - v.total
    BY <1>1, <1>4, <2>1, <2>2
  <2> QED
    BY <1>4, <2>1, <2>2, <2>3 DEF la, lb
<1> QED
  BY <1>7, <1>8

----------------------------------------------------------------------------
(* The theorem *)

\* The invariant: what has been compared are these two responses.
IInv ==
  /\ a \in Seq(Fields) /\ b \in Seq(Fields) /\ compared \in BOOLEAN
  /\ compared => result = CompareProtoFloats(a, b)

LEMMA Exact == IInv => ComparisonExact
<1> SUFFICES ASSUME IInv, compared PROVE ComparisonExact
  BY DEF IInv, ComparisonExact, MatchExact, VerdictConsistent
<1> DEFINE fa == FloatsOf(a)
           fb == FloatsOf(b)
<1>1. a \in Seq(Fields) /\ b \in Seq(Fields) /\ result = CompareProtoFloats(a, b)
  BY DEF IInv
<1>2. fa \in Seq(Int) /\ fb \in Seq(Int)
  BY <1>1, TopFinds
<1>3. result = Verdict(fa, fb) /\ CompareProtoFloats(b, a) = Verdict(fb, fa)
  BY <1>1, VerdictIs
<1> HIDE DEF fa, fb
<1>4. CompareProtoFloats(b, a) = result
  BY <1>2, <1>3, VerdictSymmetric
<1>5. /\ result.match <=> /\ Len(fa) = Len(fb) /\ fa # <<>>
                          /\ \A k \in 1..Len(fa) : Distance(fa[k], fb[k]) <= Tolerance
      /\ result.match <=> result.mismatches = 0
      /\ result.match => result.maxDiff <= Tolerance
      /\ result.mismatches <= IF Len(fa) + Len(fb) = 0 THEN 1 ELSE Len(fa) + Len(fb) - result.total
  BY <1>2, <1>3, VerdictFacts
<1> QED
  BY <1>4, <1>5, Zenon DEF ComparisonExact, MatchExact, VerdictConsistent, fa, fb

\* compareProtoFloats decides what the definition without loops says, its counts
\* agree with its verdict, and which target is called A does not matter.
THEOREM ComparisonAlwaysExact == Spec => []ComparisonExact
<1>1. Init => IInv
  <2>1. Responses \subseteq Seq(Fields)
    BY DEF Responses, BoundedSeq, SeqOf
  <2> QED
    BY <2>1 DEF Init, IInv
<1>2. IInv /\ [Next]_vars => IInv'
  <2> SUFFICES ASSUME IInv, [Next]_vars PROVE IInv'
    OBVIOUS
  <2>1. CASE Compare
    BY <2>1 DEF IInv, Compare
  <2>2. CASE UNCHANGED vars
    BY <2>2 DEF IInv, vars
  <2> QED
    BY <2>1, <2>2 DEF Next
<1>3. IInv => ComparisonExact
  BY Exact
<1> QED
  BY <1>1, <1>2, <1>3, PTL DEF Spec
=============================================================================
