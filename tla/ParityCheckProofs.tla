-------------------------- MODULE ParityCheckProofs --------------------------
(***************************************************************************)
(* Theorems about the parity check, for any number of slots and requests:  *)
(* the counters are exact at every moment, the report and the verdict are  *)
(* what the answers say, and the check implements Parity but for fairness. *)
(***************************************************************************)
EXTENDS ParityCheckProps, FiniteSetTheorems, TLAPS

----------------------------------------------------------------------------
(* The inductive invariant *)

AnsweredPCs == {"counted", "identical", "comparing", "recording", "release", "gone"}
EndedPCs    == {"release", "gone"}

\* The checks were started in the order of reqIdx, and no request is started
\* that is not in the file or beyond the bound.
StartOrder ==
  /\ reqIdx <= MaxChecks
  /\ ~flags.looping => reqIdx <= NumReqs
  /\ mainPC = "acquire" => reqIdx > 0
  /\ \A i \in Checks :
       checkPC[i] = "idle" <=> i >= reqIdx - (IF mainPC = "acquire" THEN 1 ELSE 0)

\* Main takes the slots before it reads the counters, and judges at the end.
MainOrder ==
  /\ mainPC \in {"report", "judge", "exited"} => drained = Slots
  /\ mainPC \in {"drain", "report", "judge", "exited"} /\ ~flags.looping => reqIdx = NumReqs
  /\ mainPC \in {"judge", "exited"} => report = total
  /\ verdict # "none" <=> mainPC = "exited"

\* What is known of the answers at a place of the check's code.
AnswersKnown ==
  \A i \in Checks :
    /\ checkPC[i] \in AnsweredPCs /\ Errors(i) = {} => relation[i] \in Relations
    /\ checkPC[i] = "identical" => Errors(i) = {} /\ relation[i] = "identical"
    /\ checkPC[i] \in {"comparing", "recording"} => Errors(i) = {} /\ relation[i] \in {"close", "far"}

Same(i)    == Errors(i) = {} /\ relation[i] = "identical"
Differs(i) == Errors(i) = {} /\ relation[i] # "identical"

\* The checks that have bumped a counter: each counter has a place in the code
\* after which it includes the check, and answers for which it does.
Has(t, i) ==
  \/ t = "sent" /\ checkPC[i] \in AnsweredPCs
  \/ t = "match" /\ checkPC[i] \in {"identical"} \cup EndedPCs /\ Same(i)
  \/ t = "match" /\ checkPC[i] \in {"recording"} \cup EndedPCs /\ Errors(i) = {} /\ relation[i] = "close"
  \/ t = "mismatch" /\ checkPC[i] \in {"recording"} \cup EndedPCs /\ Errors(i) = {} /\ relation[i] = "far"
  \/ t = "errA" /\ checkPC[i] \in EndedPCs /\ Errors(i) = {"A"}
  \/ t = "errB" /\ checkPC[i] \in EndedPCs /\ Errors(i) = {"B"}
  \/ t = "bothErr" /\ checkPC[i] \in EndedPCs /\ Errors(i) = Targets
  \/ t = "byteDiff" /\ checkPC[i] \in {"comparing", "recording"} \cup EndedPCs /\ Differs(i)
  \/ t = "identical" /\ checkPC[i] \in EndedPCs /\ Same(i)

In(t) == {i \in Checks : Has(t, i)}
Sampled == {i \in Checks : checkPC[i] \in EndedPCs /\ Differs(i)}

\* Every counter is the number of checks that are past the place where it is
\* bumped; the sampler and the rows follow suit.
CountersExact ==
  /\ \A t \in Totals : total[t] = Cardinality(In(t))
  /\ diffs = Cardinality(Sampled)
  /\ Output /\ ~csv.err => csv.rows = diffs

\* The semaphore counts the checks that run and the slots main has taken.
SlotCount == sem = Cardinality(Running) + drained

\* A lost row is announced when the process exits.
LossTold == mainPC \in {"judge", "exited"} /\ Output /\ csv.err => warned

IInv == /\ TypeOK /\ StartOrder /\ MainOrder /\ AnswersKnown
        /\ SlotCount /\ CountersExact /\ LossTold /\ VerdictRight

----------------------------------------------------------------------------
(* Counting checks *)

Bit(b) == IF b THEN 1 ELSE 0

LEMMA ChecksFinite ==
  ASSUME NEW S \in SUBSET Checks
  PROVE  IsFiniteSet(S) /\ Cardinality(S) \in Nat
<1>1. IsFiniteSet(Checks)
  BY ParityCheckAssumption, FS_Interval DEF Checks
<1> QED
  BY <1>1, FS_Subset, FS_CardinalityType

\* A set of checks that changes only in i changes its size by what i does.
LEMMA SetMove ==
  ASSUME NEW S \in SUBSET Checks, NEW T \in SUBSET Checks, NEW i \in Checks,
         \A j \in Checks \ {i} : j \in S <=> j \in T
  PROVE  Cardinality(T) = Cardinality(S) + Bit(i \in T) - Bit(i \in S)
<1>1. /\ IsFiniteSet(S) /\ Cardinality(S) \in Nat
      /\ IsFiniteSet(T) /\ Cardinality(T) \in Nat
  BY ChecksFinite
<1>2. CASE i \in S <=> i \in T
  <2>1. S = T
    BY <1>2
  <2> QED
    BY <1>1, <1>2, <2>1 DEF Bit
<1>3. CASE i \in S /\ i \notin T
  <2>1. T = S \ {i}
    BY <1>3
  <2>2. Cardinality(T) = Cardinality(S) - 1
    BY <1>1, <1>3, <2>1, FS_RemoveElement
  <2> QED
    BY <1>1, <1>3, <2>2 DEF Bit
<1>4. CASE i \notin S /\ i \in T
  <2>1. T = S \cup {i}
    BY <1>4
  <2>2. Cardinality(T) = Cardinality(S) + 1
    BY <1>1, <1>4, <2>1, FS_AddElement
  <2> QED
    BY <1>1, <1>4, <2>2 DEF Bit
<1> QED
  BY <1>2, <1>3, <1>4

\* A step of one check says nothing about the others.
LEMMA OthersStay ==
  ASSUME TypeOK, NEW i \in Checks, Check(i)
  PROVE  \A j \in Checks \ {i} : /\ checkPC'[j] = checkPC[j]
                                 /\ answer'[j] = answer[j]
                                 /\ relation'[j] = relation[j]
BY DEF TypeOK, CheckType, Check, Answer, Join, ClassifyErrors, ClassifyIdentical, CountIdentical,
       ClassifyByteDiff, CompareFloats, RecordDiff, Release, Goto

LEMMA CountMove ==
  ASSUME TypeOK, NEW i \in Checks, Check(i)
  PROVE  /\ \A t \in Totals :
              Cardinality(In(t)') = Cardinality(In(t)) + Bit(Has(t, i)') - Bit(Has(t, i))
         /\ Cardinality(Sampled') = Cardinality(Sampled) + Bit(i \in Sampled') - Bit(i \in Sampled)
         /\ Cardinality(Running') = Cardinality(Running) + Bit(i \in Running') - Bit(i \in Running)
<1>1. \A j \in Checks \ {i} : /\ checkPC'[j] = checkPC[j]
                              /\ answer'[j] = answer[j]
                              /\ relation'[j] = relation[j]
  BY OthersStay
<1>2. \A j \in Checks \ {i} : Errors(j)' = Errors(j)
  BY <1>1 DEF Errors
<1>3. ASSUME NEW t \in Totals
      PROVE  Cardinality(In(t)') = Cardinality(In(t)) + Bit(Has(t, i)') - Bit(Has(t, i))
  <2>1. \A j \in Checks \ {i} : Has(t, j)' <=> Has(t, j)
    BY <1>1, <1>2 DEF Has, Same, Differs
  <2>2. In(t) \in SUBSET Checks /\ In(t)' \in SUBSET Checks
    BY DEF In, Checks
  <2>3. \A j \in Checks : (j \in In(t) <=> Has(t, j)) /\ (j \in In(t)' <=> Has(t, j)')
    BY DEF In, Checks
  <2>4. Cardinality(In(t)') = Cardinality(In(t)) + Bit(i \in In(t)') - Bit(i \in In(t))
    BY <2>1, <2>2, <2>3, SetMove
  <2> QED
    BY <2>3, <2>4 DEF Bit
<1>4. Cardinality(Sampled') = Cardinality(Sampled) + Bit(i \in Sampled') - Bit(i \in Sampled)
  <2>1. Sampled \in SUBSET Checks /\ Sampled' \in SUBSET Checks
    BY DEF Sampled, Checks
  <2>2. \A j \in Checks \ {i} : j \in Sampled <=> j \in Sampled'
    BY <1>1, <1>2 DEF Sampled, Differs, Checks
  <2> QED
    BY <2>1, <2>2, SetMove
<1>5. Cardinality(Running') = Cardinality(Running) + Bit(i \in Running') - Bit(i \in Running)
  <2>1. Running \in SUBSET Checks /\ Running' \in SUBSET Checks
    BY DEF Running, At, Checks
  <2>2. \A j \in Checks \ {i} : j \in Running <=> j \in Running'
    BY <1>1 DEF Running, At, Checks
  <2> QED
    BY <2>1, <2>2, SetMove
<1> QED
  BY <1>3, <1>4, <1>5

\* An error is that of one target or of both.
LEMMA ErrorKinds ==
  ASSUME NEW i \in Checks
  PROVE  /\ Errors(i) = {} \/ Errors(i) = {"A"} \/ Errors(i) = {"B"} \/ Errors(i) = Targets
         /\ {"A"} # {"B"} /\ {"A"} # Targets /\ {"B"} # Targets /\ Targets # {}
BY DEF Errors, Targets

----------------------------------------------------------------------------
(* One step of a check *)

\* A check bumps a counter exactly when it passes its place with its answers.
LEMMA TotalStep ==
  ASSUME TypeOK, AnswersKnown, NEW i \in Checks, Check(i)
  PROVE  \A t \in Totals : total'[t] = total[t] + Bit(Has(t, i)') - Bit(Has(t, i))
<1> DEFINE Goal == \A t \in Totals : total'[t] = total[t] + Bit(Has(t, i)') - Bit(Has(t, i))
<1>1. /\ total \in [Totals -> Nat] /\ checkPC \in [Checks -> CheckPCs]
      /\ relation \in [Checks -> Relations \cup {"none"}]
      /\ answer \in [Checks -> [Targets -> {"none", "ok", "error"}]]
  BY DEF TypeOK, MainType, CheckType
<1>2. ASSUME UNCHANGED answer PROVE Errors(i)' = Errors(i)
  BY <1>2 DEF Errors
<1>3. ASSUME NEW t \in Targets, Answer(i, t) PROVE Goal
  BY <1>1, <1>3 DEF Answer, Has, AnsweredPCs, EndedPCs, Bit
<1>4. CASE Join(i)
  BY <1>1, <1>2, <1>4 DEF Join, Goto, Bump, Has, AnsweredPCs, EndedPCs, Bit
<1>5. CASE ClassifyErrors(i)
  <2>1. /\ checkPC[i] = "counted" /\ checkPC'[i] = "release" /\ Errors(i)' = Errors(i)
        /\ Errors(i) # {}
    BY <1>1, <1>2, <1>5 DEF ClassifyErrors, Goto
  <2> DEFINE which == CASE Errors(i) = Targets -> "bothErr"
                        [] Errors(i) = {"A"}   -> "errA"
                        [] OTHER               -> "errB"
  <2>2. total' = [total EXCEPT ![which] = @ + 1]
    BY <1>5 DEF ClassifyErrors, Bump
  <2>3. \A t \in Totals : Has(t, i)' <=> Has(t, i) \/ t = which
    <3>1. CASE Errors(i) = {"A"}
      BY <2>1, <3>1, ErrorKinds DEF Has, Same, Differs, AnsweredPCs, EndedPCs, Totals
    <3>2. CASE Errors(i) = {"B"}
      BY <2>1, <3>2, ErrorKinds DEF Has, Same, Differs, AnsweredPCs, EndedPCs, Totals
    <3>3. CASE Errors(i) = Targets
      BY <2>1, <3>3, ErrorKinds DEF Has, Same, Differs, AnsweredPCs, EndedPCs, Totals
    <3> QED
      BY <2>1, <3>1, <3>2, <3>3, ErrorKinds
  <2>4. ~Has(which, i)
    BY <2>1, ErrorKinds DEF Has, Same, Differs, AnsweredPCs, EndedPCs
  <2>5. which \in Totals
    BY DEF Totals
  <2> HIDE DEF which
  <2> QED
    BY <1>1, <2>2, <2>3, <2>4, <2>5 DEF Bit
<1>6. CASE ClassifyIdentical(i)
  BY <1>1, <1>2, <1>6 DEF ClassifyIdentical, Goto, Bump, Has, Same, Differs, AnsweredPCs, EndedPCs,
                          Bit
<1>7. CASE CountIdentical(i)
  <2>1. /\ checkPC[i] = "identical" /\ checkPC'[i] = "release" /\ relation'[i] = relation[i]
        /\ Errors(i)' = Errors(i) /\ Errors(i) = {} /\ relation[i] = "identical"
        /\ total' = [total EXCEPT !["identical"] = @ + 1]
    BY <1>1, <1>2, <1>7 DEF CountIdentical, AnswersKnown, Goto, Bump
  <2>2. \A t \in Totals : Has(t, i)' <=> Has(t, i) \/ t = "identical"
    BY <2>1 DEF Has, Same, Differs, AnsweredPCs, EndedPCs, Targets
  <2>3. ~Has("identical", i)
    BY <2>1 DEF Has, EndedPCs
  <2> QED
    BY <1>1, <2>1, <2>2, <2>3 DEF Bit
<1>8. CASE ClassifyByteDiff(i)
  BY <1>1, <1>2, <1>8 DEF ClassifyByteDiff, Goto, Bump, Has, Same, Differs, AnsweredPCs, EndedPCs,
                          Bit
<1>9. CASE CompareFloats(i)
  <2>1. /\ checkPC[i] = "comparing" /\ checkPC'[i] = "recording" /\ relation'[i] = relation[i]
        /\ Errors(i)' = Errors(i) /\ Errors(i) = {} /\ relation[i] \in {"close", "far"}
    BY <1>1, <1>2, <1>9 DEF CompareFloats, AnswersKnown, Goto
  <2>2. CASE relation[i] = "close"
    <3>1. total' = [total EXCEPT !["match"] = @ + 1]
      BY <1>9, <2>2 DEF CompareFloats, Bump
    <3>2. \A t \in Totals : Has(t, i)' <=> Has(t, i) \/ t = "match"
      BY <2>1, <2>2 DEF Has, Same, Differs, AnsweredPCs, EndedPCs, Targets
    <3>3. ~Has("match", i)
      BY <2>1 DEF Has, EndedPCs
    <3> QED
      BY <1>1, <3>1, <3>2, <3>3 DEF Bit
  <2>3. CASE relation[i] = "far"
    <3>1. total' = [total EXCEPT !["mismatch"] = @ + 1]
      BY <1>9, <2>3 DEF CompareFloats, Bump
    <3>2. \A t \in Totals : Has(t, i)' <=> Has(t, i) \/ t = "mismatch"
      BY <2>1, <2>3 DEF Has, Same, Differs, AnsweredPCs, EndedPCs, Targets
    <3>3. ~Has("mismatch", i)
      BY <2>1 DEF Has, EndedPCs
    <3> QED
      BY <1>1, <3>1, <3>2, <3>3 DEF Bit
  <2> QED
    BY <2>1, <2>2, <2>3
<1>10. CASE RecordDiff(i)
  <2>1. /\ checkPC[i] = "recording" /\ checkPC'[i] = "release" /\ relation'[i] = relation[i]
        /\ Errors(i)' = Errors(i) /\ Errors(i) = {} /\ relation[i] \in {"close", "far"}
        /\ total' = total
    BY <1>1, <1>2, <1>10 DEF RecordDiff, AnswersKnown, Goto
  <2>2. \A t \in Totals : Has(t, i)' <=> Has(t, i)
    BY <2>1 DEF Has, Same, Differs, AnsweredPCs, EndedPCs, Targets
  <2> QED
    BY <1>1, <2>1, <2>2 DEF Bit
<1>11. CASE Release(i)
  BY <1>1, <1>2, <1>11 DEF Release, Goto, Has, Same, Differs, AnsweredPCs, EndedPCs, Bit
<1> QED
  BY <1>3, <1>4, <1>5, <1>6, <1>7, <1>8, <1>9, <1>10, <1>11 DEF Check

LEMMA CountersStep ==
  ASSUME TypeOK, AnswersKnown, CountersExact, NEW i \in Checks, Check(i)
  PROVE  CountersExact'
<1>1. /\ total \in [Totals -> Nat] /\ checkPC \in [Checks -> CheckPCs]
      /\ diffs \in Nat /\ csv \in [rows : Nat, err : BOOLEAN]
  BY DEF TypeOK, MainType, CheckType
<1>2. \A t \in Totals : total'[t] = Cardinality(In(t)')
  <2>1. \A t \in Totals : total[t] = Cardinality(In(t)) /\ total[t] \in Nat
    BY <1>1 DEF CountersExact
  <2>2. \A t \in Totals : total'[t] = total[t] + Bit(Has(t, i)') - Bit(Has(t, i))
    BY TotalStep
  <2>3. \A t \in Totals :
          Cardinality(In(t)') = Cardinality(In(t)) + Bit(Has(t, i)') - Bit(Has(t, i))
    BY CountMove
  <2> QED
    BY <2>1, <2>2, <2>3
<1>3. Cardinality(Sampled') = Cardinality(Sampled) + Bit(i \in Sampled') - Bit(i \in Sampled)
  BY CountMove
<1>4. diffs = Cardinality(Sampled)
  BY DEF CountersExact
<1>5. CASE RecordDiff(i)
  <2>1. i \notin Sampled /\ i \in Sampled'
    <3>1. checkPC[i] = "recording" /\ checkPC'[i] = "release" /\ Errors(i)' = Errors(i)
          /\ relation' = relation
      BY <1>1, <1>5 DEF RecordDiff, Goto, Errors
    <3> QED
      BY <3>1 DEF AnswersKnown, Sampled, Differs, EndedPCs, Checks
  <2>2. diffs' = Cardinality(Sampled')
    BY <1>1, <1>3, <1>4, <1>5, <2>1 DEF RecordDiff, Bit
  <2>3. Output /\ ~csv'.err => csv'.rows = diffs'
    <3>1. CASE Output
      <4>1. PICK fails \in BOOLEAN :
              csv' = [rows |-> csv.rows + (IF fails THEN 0 ELSE 1), err |-> csv.err \/ fails]
        BY <1>5, <3>1 DEF RecordDiff
      <4> QED
        BY <1>1, <1>5, <4>1 DEF RecordDiff, CountersExact
    <3> QED
      BY <3>1
  <2> QED
    BY <1>2, <2>2, <2>3 DEF CountersExact
<1>6. CASE ~RecordDiff(i)
  <2>1. UNCHANGED <<diffs, csv>>
    BY <1>6 DEF Check, Answer, Join, ClassifyErrors, ClassifyIdentical, CountIdentical,
                ClassifyByteDiff, CompareFloats, Release, muVars
  <2>2. i \in Sampled' <=> i \in Sampled
    <3>2. CASE Join(i) \/ \E t \in Targets : Answer(i, t)
      BY <1>1, <3>2 DEF Join, Answer, Goto, Sampled, EndedPCs
    <3>3. CASE ClassifyErrors(i) \/ CountIdentical(i)
      BY <1>1, <3>3 DEF ClassifyErrors, CountIdentical, AnswersKnown, Goto, Sampled, Differs,
                        Errors, EndedPCs
    <3>4. CASE ClassifyIdentical(i) \/ ClassifyByteDiff(i) \/ CompareFloats(i) \/ Release(i)
      BY <1>1, <3>4 DEF ClassifyIdentical, ClassifyByteDiff, CompareFloats, Release, Goto, Sampled,
                        Differs, Errors, EndedPCs
    <3> QED
      BY <1>6, <3>2, <3>3, <3>4 DEF Check
  <2>3. diffs' = Cardinality(Sampled') /\ csv' = csv /\ diffs' = diffs
    BY <1>1, <1>3, <1>4, <2>1, <2>2 DEF Bit
  <2> QED
    BY <1>2, <2>3 DEF CountersExact
<1> QED
  BY <1>5, <1>6
\* No check runs once main has every slot.
LEMMA NoneRuns ==
  ASSUME TypeOK, MainOrder, SlotCount, mainPC \in {"report", "judge", "exited"}
  PROVE  Running = {}
<1>1. Running \in SUBSET Checks
  BY DEF Running, At, Checks
<1>2. IsFiniteSet(Running) /\ Cardinality(Running) \in Nat
  BY <1>1, ChecksFinite
<1>3. sem <= Slots /\ sem \in Int /\ drained = Slots /\ Slots \in Nat
  BY ParityCheckAssumption DEF TypeOK, MainType, MainOrder
<1>4. Cardinality(Running) = 0
  BY <1>2, <1>3 DEF SlotCount
<1> QED
  BY <1>2, <1>4, FS_EmptySet

\* A check that takes a step runs before it, and does not go back to idle.
LEMMA CheckRuns ==
  ASSUME TypeOK, NEW i \in Checks, Check(i)
  PROVE  /\ i \in Running /\ checkPC[i] # "idle" /\ checkPC'[i] # "idle"
         /\ i \in Running' <=> ~Release(i)
         /\ checkPC' \in [Checks -> CheckPCs]
         /\ checkPC[i] # "gone"
<1>1. checkPC \in [Checks -> CheckPCs]
  BY DEF TypeOK, CheckType
<1> QED
  BY <1>1 DEF Check, Answer, Join, ClassifyErrors, ClassifyIdentical, CountIdentical,
       ClassifyByteDiff, CompareFloats, RecordDiff, Release, Goto, Running, At, CheckPCs

LEMMA MainStays ==
  ASSUME NEW i \in Checks, Check(i)
  PROVE  UNCHANGED <<mainVars, endVars>>
BY DEF Check, Answer, Join, ClassifyErrors, ClassifyIdentical, CountIdentical,
       ClassifyByteDiff, CompareFloats, RecordDiff, Release

LEMMA AnswersStep ==
  ASSUME TypeOK, AnswersKnown, NEW i \in Checks, Check(i)
  PROVE  AnswersKnown'
<1>1. /\ checkPC \in [Checks -> CheckPCs]
      /\ relation \in [Checks -> Relations \cup {"none"}]
      /\ answer \in [Checks -> [Targets -> {"none", "ok", "error"}]]
  BY DEF TypeOK, CheckType
<1> DEFINE Known(j) ==
      /\ checkPC[j] \in AnsweredPCs /\ Errors(j) = {} => relation[j] \in Relations
      /\ checkPC[j] = "identical" => Errors(j) = {} /\ relation[j] = "identical"
      /\ checkPC[j] \in {"comparing", "recording"} => Errors(j) = {} /\ relation[j] \in {"close", "far"}
<1>2. Known(i)
  BY DEF AnswersKnown
<1>3. ASSUME UNCHANGED answer PROVE Errors(i)' = Errors(i)
  BY <1>3 DEF Errors
<1>4. Known(i)'
  <2>1. CASE \E t \in Targets : Answer(i, t)
    BY <2>1 DEF Answer, AnsweredPCs
  <2>2. CASE Join(i)
    <3>1. checkPC'[i] = "counted" /\ Errors(i)' = Errors(i)
      BY <1>1, <1>3, <2>2 DEF Join, Goto
    <3>2. Errors(i) = {} => relation'[i] \in Relations
      BY <1>1, <2>2 DEF Join
    <3> QED
      BY <3>1, <3>2
  <2>3. CASE ClassifyErrors(i) \/ CountIdentical(i) \/ CompareFloats(i) \/ RecordDiff(i) \/ Release(i)
    <3>1. /\ Errors(i)' = Errors(i) /\ relation'[i] = relation[i]
          /\ checkPC[i] \in AnsweredPCs /\ checkPC'[i] \in {"recording", "release", "gone"}
          /\ checkPC'[i] = "recording" => checkPC[i] = "comparing"
      BY <1>1, <1>3, <2>3 DEF ClassifyErrors, CountIdentical, CompareFloats, RecordDiff, Release,
                              Goto, AnsweredPCs
    <3> QED
      BY <1>2, <3>1
  <2>4. CASE ClassifyIdentical(i) \/ ClassifyByteDiff(i)
    <3>1. /\ Errors(i)' = Errors(i) /\ relation'[i] = relation[i] /\ Errors(i) = {}
          /\ checkPC[i] \in AnsweredPCs
          /\ \/ checkPC'[i] = "identical" /\ relation[i] = "identical"
             \/ checkPC'[i] = "comparing" /\ relation[i] # "identical"
      BY <1>1, <1>3, <2>4 DEF ClassifyIdentical, ClassifyByteDiff, Goto, AnsweredPCs
    <3> QED
      BY <1>2, <3>1 DEF Relations
  <2> QED
    BY <2>1, <2>2, <2>3, <2>4 DEF Check
<1>5. ASSUME NEW j \in Checks \ {i} PROVE Known(j)'
  <2>1. checkPC'[j] = checkPC[j] /\ answer'[j] = answer[j] /\ relation'[j] = relation[j]
    BY OthersStay
  <2>2. Errors(j)' = Errors(j)
    BY <2>1 DEF Errors
  <2>3. Known(j)
    BY DEF AnswersKnown
  <2> QED
    BY <2>1, <2>2, <2>3
<1>6. \A j \in Checks : Known(j)'
  BY <1>4, <1>5
<1> QED
  BY <1>6 DEF AnswersKnown, Checks

LEMMA CheckTypeStep ==
  ASSUME TypeOK, SlotCount, NEW i \in Checks, Check(i)
  PROVE  TypeOK'
<1> USE DEF TypeOK, MainType, CheckType
<1>1. checkPC' \in [Checks -> CheckPCs]
  BY CheckRuns
<1>2. answer' \in [Checks -> [Targets -> {"none", "ok", "error"}]]
  <2>1. ASSUME NEW t \in Targets, Answer(i, t)
        PROVE  answer' \in [Checks -> [Targets -> {"none", "ok", "error"}]]
    BY <2>1 DEF Answer
  <2> QED
    BY <2>1 DEF Check, Join, ClassifyErrors, ClassifyIdentical, CountIdentical,
                ClassifyByteDiff, CompareFloats, RecordDiff, Release
<1>3. relation' \in [Checks -> Relations \cup {"none"}]
  BY DEF Check, Answer, Join, ClassifyErrors, ClassifyIdentical, CountIdentical,
         ClassifyByteDiff, CompareFloats, RecordDiff, Release
<1>4. total' \in [Totals -> Nat]
  <2>1. ASSUME NEW t \in Totals, Bump(t) PROVE total' \in [Totals -> Nat]
    BY <2>1 DEF Bump
  <2>2. CASE ClassifyErrors(i)
    <3>1. PICK t \in Totals : Bump(t)
      BY <2>2, Zenon DEF ClassifyErrors, Totals
    <3> QED
      BY <2>1, <3>1
  <2>3. CASE ~ClassifyErrors(i)
    <3>1. (\E t \in Totals : Bump(t)) \/ UNCHANGED total
      BY <2>3 DEF Check, Answer, Join, ClassifyIdentical, CountIdentical,
                  ClassifyByteDiff, CompareFloats, RecordDiff, Release, Totals
    <3> QED
      BY <2>1, <3>1
  <2> QED
    BY <2>2, <2>3
<1>5. diffs' \in Nat /\ csv' \in [rows : Nat, err : BOOLEAN]
  <2>1. CASE RecordDiff(i)
    <3>1. CASE Output
      <4>1. PICK fails \in BOOLEAN :
              csv' = [rows |-> csv.rows + (IF fails THEN 0 ELSE 1), err |-> csv.err \/ fails]
        BY <2>1, <3>1 DEF RecordDiff
      <4> QED
        BY <2>1, <4>1 DEF RecordDiff
    <3>2. CASE ~Output
      BY <2>1, <3>2 DEF RecordDiff
    <3> QED
      BY <3>1, <3>2
  <2>2. CASE ~RecordDiff(i)
    BY <2>2 DEF Check, Answer, Join, ClassifyErrors, ClassifyIdentical, CountIdentical,
                ClassifyByteDiff, CompareFloats, Release, muVars
  <2> QED
    BY <2>1, <2>2
<1>6. sem' \in 0..Slots
  <2>1. CASE Release(i)
    <3>1. i \in Running
      BY CheckRuns
    <3>2. IsFiniteSet(Running) /\ Cardinality(Running) \in Nat
      BY ChecksFinite DEF Running, At, Checks
    <3>3. Cardinality(Running) # 0
      BY <3>1, <3>2, FS_EmptySet
    <3> QED
      <4>1. sem = Cardinality(Running) + drained /\ sem \in 0..Slots /\ drained \in 0..Slots
        BY DEF SlotCount
      <4>2. Slots \in Nat /\ sem' = sem - 1
        BY <2>1, ParityCheckAssumption DEF Release
      <4> QED
        BY ONLY <3>2, <3>3, <4>1, <4>2
  <2>2. CASE ~Release(i)
    BY <2>2 DEF Check, Answer, Join, ClassifyErrors, ClassifyIdentical, CountIdentical,
                ClassifyByteDiff, CompareFloats, RecordDiff
  <2> QED
    BY <2>1, <2>2
<1> QED
  BY <1>1, <1>2, <1>3, <1>4, <1>5, <1>6, MainStays DEF mainVars, endVars

LEMMA CheckSlots ==
  ASSUME TypeOK, SlotCount, NEW i \in Checks, Check(i)
  PROVE  SlotCount'
<1>1. Cardinality(Running') = Cardinality(Running) + Bit(i \in Running') - Bit(i \in Running)
  BY CountMove
<1>2. /\ i \in Running /\ (i \in Running' <=> ~Release(i))
      /\ drained' = drained /\ drained \in Int /\ sem \in Int
  BY CheckRuns, MainStays DEF mainVars, TypeOK, MainType
<1>3. Cardinality(Running) \in Nat
  BY ChecksFinite DEF Running, At, Checks
<1>4. CASE Release(i)
  BY <1>1, <1>2, <1>3, <1>4 DEF Release, SlotCount, Bit
<1>5. CASE ~Release(i)
  <2>1. sem' = sem
    BY <1>5 DEF Check, Answer, Join, ClassifyErrors, ClassifyIdentical, CountIdentical,
                ClassifyByteDiff, CompareFloats, RecordDiff
  <2> QED
    BY <1>1, <1>2, <1>3, <1>5, <2>1 DEF SlotCount, Bit
<1> QED
  BY <1>4, <1>5

\* The invariant of one step of a check.
LEMMA CheckStep ==
  ASSUME IInv, NEW i \in Checks, Check(i)
  PROVE  IInv'
<1> USE DEF IInv
<1>1. TypeOK' /\ AnswersKnown' /\ SlotCount' /\ CountersExact'
  BY CheckTypeStep, AnswersStep, CheckSlots, CountersStep
<1>2. UNCHANGED <<mainVars, endVars>> /\ mainPC \notin {"report", "judge", "exited"}
  BY MainStays, CheckRuns, NoneRuns
<1>3. StartOrder'
  BY <1>2, OthersStay, CheckRuns DEF StartOrder, mainVars, Checks
<1>4. MainOrder' /\ LossTold' /\ VerdictRight'
  BY <1>2 DEF MainOrder, LossTold, VerdictRight, mainVars, endVars
<1> QED
  BY <1>1, <1>3, <1>4

----------------------------------------------------------------------------
(* One step of main *)

LEMMA ChecksStay ==
  ASSUME UNCHANGED checkVars
  PROVE  /\ \A t \in Totals : In(t)' = In(t)
         /\ Sampled' = Sampled /\ Running' = Running
         /\ AnswersKnown => AnswersKnown'
         /\ \A i \in Checks : Errors(i)' = Errors(i)
<1>1. UNCHANGED <<checkPC, answer, relation>>
  BY DEF checkVars
<1>2. \A i \in Checks : Errors(i)' = Errors(i)
  BY <1>1 DEF Errors
<1>3. \A i \in Checks, t \in Totals : Has(t, i)' <=> Has(t, i)
  BY <1>1, <1>2 DEF Has, Same, Differs
<1>4. \A t \in Totals : In(t)' = In(t)
  BY <1>3 DEF In, Checks
<1>5. Sampled' = Sampled
  BY <1>1, <1>2 DEF Sampled, Differs, Checks
<1>6. Running' = Running
  BY <1>1 DEF Running, At, Checks
<1>7. AnswersKnown => AnswersKnown'
  BY <1>1, <1>2 DEF AnswersKnown, Checks
<1> QED
  BY <1>2, <1>4, <1>5, <1>6, <1>7

\* A new check is in no count but that of the running ones.
LEMMA StartStep ==
  ASSUME IInv, Start
  PROVE  IInv'
<1> USE ParityCheckAssumption DEF IInv
<1> DEFINE i == reqIdx - 1
<1>1. /\ i \in Checks /\ checkPC[i] = "idle" /\ reqIdx \in Nat
      /\ checkPC \in [Checks -> CheckPCs]
      /\ sem \in 0..Slots /\ drained \in 0..Slots /\ Slots \in Nat
  BY DEF Start, StartOrder, Checks, TypeOK, MainType, CheckType
<1>2. /\ checkPC' = [checkPC EXCEPT ![i] = "sending"]
      /\ sem < Slots /\ sem' = sem + 1 /\ mainPC = "acquire" /\ mainPC' = "loop"
      /\ UNCHANGED <<flags, reqIdx, drained, answer, relation, total, diffs, csv, report, verdict, warned>>
  BY DEF Start, muVars, endVars
<1> HIDE DEF i
<1>3. TypeOK'
  BY <1>1, <1>2 DEF TypeOK, MainType, CheckType, CheckPCs, MainPCs
<1>4. StartOrder'
  <2>1. \A j \in Checks : checkPC'[j] = "idle" <=> checkPC[j] = "idle" /\ j # i
    BY <1>1, <1>2
  <2> QED
    BY <1>2, <2>1 DEF StartOrder, Checks, i, TypeOK, MainType
<1>5. MainOrder' /\ LossTold' /\ VerdictRight'
  BY <1>2 DEF MainOrder, LossTold, VerdictRight
<1>6. \A j \in Checks : Errors(j)' = Errors(j)
  BY <1>2 DEF Errors
<1>7. AnswersKnown'
  BY <1>1, <1>2, <1>6 DEF AnswersKnown, AnsweredPCs, Checks
<1>8. CountersExact'
  <2>1. \A j \in Checks, t \in Totals : Has(t, j)' <=> Has(t, j)
    BY <1>1, <1>2, <1>6 DEF Has, Same, Differs, AnsweredPCs, EndedPCs
  <2>2. \A t \in Totals : In(t)' = In(t)
    BY <2>1 DEF In, Checks
  <2>3. Sampled' = Sampled
    BY <1>1, <1>2, <1>6 DEF Sampled, Differs, EndedPCs, Checks
  <2> QED
    BY <1>2, <2>2, <2>3 DEF CountersExact
<1>9. SlotCount'
  <2>1. Running \in SUBSET Checks /\ Running' \in SUBSET Checks
    BY DEF Running, At, Checks
  <2>2. \A j \in Checks \ {i} : j \in Running <=> j \in Running'
    BY <1>1, <1>2 DEF Running, At, Checks
  <2>3. i \notin Running /\ i \in Running'
    BY <1>1, <1>2 DEF Running, At, Checks, CheckPCs
  <2>4. Cardinality(Running') = Cardinality(Running) + Bit(i \in Running') - Bit(i \in Running)
    BY <1>1, <2>1, <2>2, SetMove
  <2>5. Cardinality(Running) \in Nat
    BY <2>1, ChecksFinite
  <2> QED
    BY <1>1, <1>2, <2>3, <2>4, <2>5 DEF SlotCount, Bit
<1> QED
  BY <1>3, <1>4, <1>5, <1>7, <1>8, <1>9

\* When main has every slot, the requests that were picked are the checks that
\* are over.
LEMMA AllGone ==
  ASSUME IInv, mainPC \in {"report", "judge", "exited"}
  PROVE  /\ 0..(reqIdx - 1) = At({"gone"}) /\ At({"gone"}) \subseteq Checks
         /\ \A i \in Checks : checkPC[i] \in {"idle", "gone"}
<1>1. /\ checkPC \in [Checks -> CheckPCs] /\ reqIdx \in Nat /\ reqIdx <= MaxChecks
      /\ MaxChecks \in Nat
  BY ParityCheckAssumption DEF IInv, TypeOK, MainType, CheckType, StartOrder
<1>2. Running = {}
  BY NoneRuns DEF IInv
<1>3. \A i \in Checks : checkPC[i] \in {"idle", "gone"}
  BY <1>1, <1>2 DEF Running, At, Checks
<1>4. \A i \in Checks : checkPC[i] = "gone" <=> i < reqIdx
  BY <1>1, <1>3 DEF IInv, StartOrder, Checks
<1>5. At({"gone"}) \subseteq Checks /\ \A i \in Checks : i \in At({"gone"}) <=> i < reqIdx
  BY <1>4 DEF At, Checks
<1>6. \A i : i \in 0..(reqIdx - 1) <=> i \in Checks /\ i < reqIdx
  BY <1>1 DEF Checks
<1> QED
  BY <1>3, <1>5, <1>6

\* The counters at the end say whether a request speaks against parity.
LEMMA CountersTell ==
  ASSUME IInv, mainPC \in {"report", "judge", "exited"}
  PROVE  (\E i \in 0..(reqIdx - 1) : Bad(i)) <=>
           \/ total["mismatch"] > 0
           \/ TotalErrors(total) > 0 /\ ~flags.allowErrors
<1>1. 0..(reqIdx - 1) = At({"gone"}) /\ \A i \in Checks : checkPC[i] \in {"idle", "gone"}
  BY AllGone
<1>2. \A t \in Totals : total[t] \in Nat /\ (total[t] > 0 <=> \E i \in Checks : Has(t, i))
  <2>1. ASSUME NEW t \in Totals
        PROVE  total[t] \in Nat /\ (total[t] > 0 <=> \E i \in Checks : Has(t, i))
    <3>1. In(t) \in SUBSET Checks /\ (In(t) # {} <=> \E i \in Checks : Has(t, i))
      BY DEF In, Checks
    <3>2. IsFiniteSet(In(t)) /\ Cardinality(In(t)) \in Nat
      BY <3>1, ChecksFinite
    <3>3. Cardinality(In(t)) = 0 <=> In(t) = {}
      BY <3>2, FS_EmptySet
    <3>4. total[t] = Cardinality(In(t))
      BY DEF IInv, CountersExact
    <3> QED
      BY <3>1, <3>2, <3>3, <3>4
  <2> QED
    BY <2>1
<1>3. {"mismatch", "errA", "errB", "bothErr"} \subseteq Totals
  BY DEF Totals
<1>4. \A i \in Checks : Has("mismatch", i) <=>
                          checkPC[i] = "gone" /\ Errors(i) = {} /\ relation[i] = "far"
  BY <1>1 DEF Has, EndedPCs
<1>5. \A i \in Checks : Has("errA", i) \/ Has("errB", i) \/ Has("bothErr", i) <=>
                          checkPC[i] = "gone" /\ Errors(i) # {}
  BY <1>1, ErrorKinds DEF Has, EndedPCs
<1>6. TotalErrors(total) > 0 <=> \E i \in Checks : checkPC[i] = "gone" /\ Errors(i) # {}
  <2>1. TotalErrors(total) > 0 <=> total["errA"] > 0 \/ total["errB"] > 0 \/ total["bothErr"] > 0
    BY <1>2, <1>3 DEF TotalErrors
  <2> QED
    BY <2>1, <1>2, <1>3, <1>5
<1>7. total["mismatch"] > 0 <=>
        \E i \in Checks : checkPC[i] = "gone" /\ Errors(i) = {} /\ relation[i] = "far"
  BY <1>2, <1>3, <1>4
<1>8. (\E i \in 0..(reqIdx - 1) : Bad(i)) <=> \E i \in Checks : checkPC[i] = "gone" /\ Bad(i)
  BY <1>1 DEF At, Checks
<1> QED
  BY <1>6, <1>7, <1>8 DEF Bad

LEMMA MainStep ==
  ASSUME IInv, Main
  PROVE  IInv'
<1> USE ParityCheckAssumption DEF IInv
<1>1. ASSUME UNCHANGED <<checkVars, total, muVars, sem, drained>>
      PROVE  AnswersKnown' /\ CountersExact' /\ SlotCount'
  BY <1>1, ChecksStay DEF CountersExact, SlotCount, muVars
<1>2. CASE Pick
  <2>1. TypeOK'
    BY <1>2 DEF Pick, TypeOK, MainType, CheckType, checkVars, muVars, endVars, MainPCs
  <2>2. StartOrder'
    BY <1>2 DEF Pick, StartOrder, TypeOK, MainType, checkVars, Checks
  <2>3. MainOrder' /\ LossTold' /\ VerdictRight'
    BY <1>2 DEF Pick, MainOrder, LossTold, VerdictRight, endVars
  <2> QED
    BY <1>1, <1>2, <2>1, <2>2, <2>3 DEF Pick
<1>3. CASE Start
  BY <1>3, StartStep
<1>4. CASE LeaveLoop
  <2>1. TypeOK'
    BY <1>4 DEF LeaveLoop, TypeOK, MainType, CheckType, checkVars, muVars, endVars, MainPCs
  <2>2. StartOrder'
    BY <1>4 DEF LeaveLoop, StartOrder, checkVars, Checks
  <2>3. MainOrder' /\ LossTold' /\ VerdictRight'
    BY <1>4 DEF LeaveLoop, MainOrder, StartOrder, LossTold, VerdictRight, endVars, TypeOK, MainType
  <2> QED
    BY <1>1, <1>4, <2>1, <2>2, <2>3 DEF LeaveLoop
<1>5. CASE DrainSlot
  <2>1. TypeOK'
    BY <1>5 DEF DrainSlot, TypeOK, MainType, CheckType, checkVars, muVars, endVars, MainPCs
  <2>2. StartOrder'
    BY <1>5 DEF DrainSlot, StartOrder, checkVars, Checks
  <2>3. MainOrder' /\ LossTold' /\ VerdictRight'
    BY <1>5 DEF DrainSlot, MainOrder, LossTold, VerdictRight, endVars, TypeOK, MainType
  <2>4. AnswersKnown' /\ CountersExact'
    BY <1>5, ChecksStay DEF DrainSlot, CountersExact, muVars
  <2>5. SlotCount'
    <3>1. Running' = Running
      BY <1>5, ChecksStay DEF DrainSlot
    <3>2. Cardinality(Running) \in Nat
      BY ChecksFinite DEF Running, At, Checks
    <3> QED
      BY <1>5, <3>1, <3>2 DEF DrainSlot, SlotCount, TypeOK, MainType
  <2> QED
    BY <2>1, <2>2, <2>3, <2>4, <2>5
<1>6. CASE Report
  <2>1. PICK fails \in BOOLEAN : /\ csv' = [csv EXCEPT !.err = @ \/ fails]
                                 /\ warned' = (csv.err \/ fails)
    BY <1>6 DEF Report
  <2>2. csv' \in [rows : Nat, err : BOOLEAN] /\ warned' = csv'.err /\ csv'.rows = csv.rows
        /\ (csv.err => csv'.err) /\ warned' \in BOOLEAN
    BY <2>1 DEF TypeOK, MainType
  <2>3. TypeOK'
    BY <1>6, <2>2 DEF Report, TypeOK, MainType, CheckType, checkVars, MainPCs
  <2>4. StartOrder'
    BY <1>6 DEF Report, StartOrder, checkVars, Checks
  <2>5. MainOrder' /\ LossTold' /\ VerdictRight'
    BY <1>6, <2>2 DEF Report, MainOrder, LossTold, VerdictRight
  <2>6. AnswersKnown' /\ CountersExact' /\ SlotCount'
    BY <1>6, <2>2, ChecksStay DEF Report, CountersExact, SlotCount
  <2> QED
    BY <2>3, <2>4, <2>5, <2>6
<1>7. CASE Judge
  <2>1. TypeOK'
    BY <1>7 DEF Judge, TypeOK, MainType, CheckType, checkVars, muVars, MainPCs
  <2>2. StartOrder'
    BY <1>7 DEF Judge, StartOrder, checkVars, Checks
  <2>3. MainOrder' /\ LossTold'
    BY <1>7 DEF Judge, MainOrder, LossTold, muVars
  <2>4. VerdictRight'
    <3>1. \A i \in Checks : Bad(i)' <=> Bad(i)
      BY <1>7, ChecksStay DEF Judge, Bad, checkVars
    <3>2. 0..(reqIdx - 1) \subseteq Checks /\ reqIdx' = reqIdx
      BY <1>7, AllGone DEF Judge
    <3>3. verdict' = "passed" <=> ~\E i \in 0..(reqIdx - 1) : Bad(i)
      BY <1>7, CountersTell DEF Judge
    <3> QED
      BY <3>1, <3>2, <3>3 DEF VerdictRight
  <2> QED
    BY <1>1, <1>7, <2>1, <2>2, <2>3, <2>4 DEF Judge
<1> QED
  BY <1>2, <1>3, <1>4, <1>5, <1>6, <1>7 DEF Main

----------------------------------------------------------------------------
(* The invariant holds *)

LEMMA InitInv ==
  ASSUME Init
  PROVE  IInv
<1> USE ParityCheckAssumption
<1>1. TypeOK
  <2>1. MainType
    <3>1. PICK fails \in BOOLEAN : csv = [rows |-> 0, err |-> fails]
      BY DEF Init
    <3>2. csv \in [rows : Nat, err : BOOLEAN]
      BY <3>1
    <3>3. Zeros \in [Totals -> Nat]
      BY DEF Zeros
    <3>4. /\ flags \in [looping : BOOLEAN, allowErrors : BOOLEAN]
          /\ mainPC = "loop" /\ reqIdx = 0 /\ drained = 0 /\ sem = 0 /\ diffs = 0
          /\ total = Zeros /\ report = Zeros /\ verdict = "none" /\ warned = FALSE
      BY DEF Init
    <3>5. mainPC \in MainPCs /\ reqIdx \in Nat /\ diffs \in Nat
      BY <3>4 DEF MainPCs
    <3>6. drained \in 0..Slots /\ sem \in 0..Slots
      BY <3>4
    <3>7. total \in [Totals -> Nat] /\ report \in [Totals -> Nat]
      BY <3>3, <3>4
    <3>8. verdict \in {"none", "passed", "failed"} /\ warned \in BOOLEAN
      BY <3>4
    <3> QED
      BY <3>2, <3>4, <3>5, <3>6, <3>7, <3>8, Zenon DEF MainType
  <2>2. CheckType
    BY DEF Init, CheckType, CheckPCs
  <2> QED
    BY <2>1, <2>2 DEF TypeOK
<1>2. StartOrder /\ MainOrder /\ AnswersKnown /\ LossTold /\ VerdictRight
  BY DEF Init, StartOrder, MainOrder, AnswersKnown, AnsweredPCs, LossTold, VerdictRight, Checks
<1>3. Running = {} /\ Sampled = {} /\ \A t \in Totals : In(t) = {}
  BY DEF Init, Running, At, Sampled, In, Has, AnsweredPCs, EndedPCs
<1>4. Cardinality({}) = 0
  BY FS_EmptySet
<1>5. SlotCount
  BY <1>3, <1>4 DEF Init, SlotCount
<1>6. CountersExact
  BY <1>3, <1>4 DEF Init, Zeros, CountersExact
<1> QED
  BY <1>1, <1>2, <1>5, <1>6 DEF IInv

LEMMA StepInv ==
  ASSUME IInv, [Next]_vars
  PROVE  IInv'
<1>1. CASE UNCHANGED vars
  <2>1. /\ UNCHANGED <<mainVars, sem, checkVars, total, muVars, endVars>>
        /\ UNCHANGED <<flags, mainPC, reqIdx, drained, sem, checkPC, answer, relation, total,
                       diffs, csv, report, verdict, warned>>
    BY <1>1 DEF vars, mainVars, checkVars, muVars, endVars
  <2>2. TypeOK' /\ StartOrder' /\ MainOrder' /\ LossTold'
    BY <2>1 DEF IInv, TypeOK, MainType, CheckType, StartOrder, MainOrder, LossTold, Checks
  <2>3. AnswersKnown' /\ CountersExact' /\ SlotCount'
    BY <2>1, ChecksStay DEF IInv, CountersExact, SlotCount
  <2>4. VerdictRight'
    BY <2>1 DEF IInv, VerdictRight, Bad, Errors
  <2> QED
    BY <2>2, <2>3, <2>4 DEF IInv
<1> QED
  BY <1>1, MainStep, CheckStep DEF Next, Exited

THEOREM Inductive == Spec => []IInv
<1>1. Init => IInv
  BY InitInv
<1>2. IInv /\ [Next]_vars => IInv'
  BY StepInv
<1> QED
  BY <1>1, <1>2, PTL DEF Spec

----------------------------------------------------------------------------
(* What follows from it *)

LEMMA SplitCount ==
  ASSUME NEW S \in SUBSET Checks, NEW T \in SUBSET Checks, S \cap T = {}
  PROVE  /\ Cardinality(S \cup T) = Cardinality(S) + Cardinality(T)
         /\ S \cup T \in SUBSET Checks
<1>1. /\ IsFiniteSet(S) /\ Cardinality(S) \in Nat
      /\ IsFiniteSet(T) /\ Cardinality(T) \in Nat
  BY ChecksFinite
<1>2. Cardinality(S \cup T) = Cardinality(S) + Cardinality(T) - Cardinality(S \cap T)
  BY <1>1, FS_Union
<1>3. Cardinality(S \cap T) = 0
  BY FS_EmptySet
<1> QED
  BY <1>1, <1>2, <1>3

LEMMA CountsTyped ==
  /\ \A pcs : At(pcs) \in SUBSET Checks
  /\ \A t : In(t) \in SUBSET Checks
  /\ Sampled \in SUBSET Checks
  /\ \A S \in SUBSET Checks : Cardinality(S) \in Nat
<1>1. \A S \in SUBSET Checks : Cardinality(S) \in Nat
  BY ChecksFinite
<1> QED
  BY <1>1 DEF At, In, Sampled, Checks

\* Each request that was answered is in one category: it erred in one of three
\* ways, or its answers are identical or differ, or its class is being counted.
LEMMA SentSplit ==
  ASSUME IInv
  PROVE  total["sent"] = TotalErrors(total) + total["identical"] + total["byteDiff"]
                         + Cardinality(At({"counted", "identical"}))
<1> DEFINE C == At({"counted", "identical"})
<1>1. checkPC \in [Checks -> CheckPCs]
  BY DEF IInv, TypeOK, CheckType
<1>2. \A i \in Checks : i \in In("sent") <=>
        i \in In("errA") \/ i \in In("errB") \/ i \in In("bothErr")
        \/ i \in In("identical") \/ i \in In("byteDiff") \/ i \in C
  <2>1. ASSUME NEW i \in Checks
        PROVE  Has("sent", i) <=> \/ Has("errA", i) \/ Has("errB", i) \/ Has("bothErr", i)
                                  \/ Has("identical", i) \/ Has("byteDiff", i)
                                  \/ checkPC[i] \in {"counted", "identical"}
    <3>1. checkPC[i] \in {"comparing", "recording"} => Differs(i)
      BY DEF IInv, AnswersKnown, Differs
    <3>2. Errors(i) = {} \/ Errors(i) = {"A"} \/ Errors(i) = {"B"} \/ Errors(i) = Targets
      BY ErrorKinds
    <3> QED
      BY <3>1, <3>2 DEF Has, AnsweredPCs, EndedPCs, Same, Differs
  <2> QED
    BY <2>1 DEF In, At, Checks
<1>3. /\ In("errA") \cap In("errB") = {}
      /\ (In("errA") \cup In("errB")) \cap In("bothErr") = {}
      /\ (In("errA") \cup In("errB") \cup In("bothErr")) \cap In("identical") = {}
      /\ (In("errA") \cup In("errB") \cup In("bothErr") \cup In("identical")) \cap In("byteDiff") = {}
      /\ (In("errA") \cup In("errB") \cup In("bothErr") \cup In("identical") \cup In("byteDiff")) \cap C = {}
  <2>1. ASSUME NEW i \in Checks
        PROVE  /\ Has("errA", i) => checkPC[i] \in EndedPCs /\ Errors(i) = {"A"}
               /\ Has("errB", i) => checkPC[i] \in EndedPCs /\ Errors(i) = {"B"}
               /\ Has("bothErr", i) => checkPC[i] \in EndedPCs /\ Errors(i) = Targets
               /\ Has("identical", i) => checkPC[i] \in EndedPCs /\ Errors(i) = {} /\ relation[i] = "identical"
               /\ Has("byteDiff", i) => checkPC[i] \in {"comparing", "recording"} \cup EndedPCs
                                        /\ Errors(i) = {} /\ relation[i] # "identical"
    BY DEF Has, Same, Differs
  <2> QED
    BY <2>1, ErrorKinds DEF In, At, EndedPCs, Checks
<1>4. In("sent") = In("errA") \cup In("errB") \cup In("bothErr") \cup In("identical")
                   \cup In("byteDiff") \cup C
  BY <1>2, CountsTyped
<1> HIDE DEF C
<1>5. /\ C \in SUBSET Checks /\ Cardinality(C) \in Nat
      /\ \A t \in Totals : total[t] = Cardinality(In(t)) /\ total[t] \in Nat
  BY CountsTyped DEF C, IInv, CountersExact, TypeOK, MainType
<1>6. Cardinality(In("errA") \cup In("errB")) = Cardinality(In("errA")) + Cardinality(In("errB"))
  BY <1>3, CountsTyped, SplitCount
<1>7. Cardinality(In("errA") \cup In("errB") \cup In("bothErr"))
        = Cardinality(In("errA") \cup In("errB")) + Cardinality(In("bothErr"))
  BY <1>3, CountsTyped, SplitCount
<1>8. Cardinality(In("errA") \cup In("errB") \cup In("bothErr") \cup In("identical"))
        = Cardinality(In("errA") \cup In("errB") \cup In("bothErr")) + Cardinality(In("identical"))
  BY <1>3, CountsTyped, SplitCount
<1>9. Cardinality(In("errA") \cup In("errB") \cup In("bothErr") \cup In("identical") \cup In("byteDiff"))
        = Cardinality(In("errA") \cup In("errB") \cup In("bothErr") \cup In("identical"))
          + Cardinality(In("byteDiff"))
  BY <1>3, CountsTyped, SplitCount
<1>10. Cardinality(In("sent"))
        = Cardinality(In("errA") \cup In("errB") \cup In("bothErr") \cup In("identical") \cup In("byteDiff"))
          + Cardinality(C)
  BY <1>3, <1>4, <1>5, CountsTyped, SplitCount
<1>11. {"sent", "errA", "errB", "bothErr", "identical", "byteDiff"} \subseteq Totals
  BY DEF Totals
<1> QED
  BY <1>5, <1>6, <1>7, <1>8, <1>9, <1>10, <1>11 DEF TotalErrors, C

\* A difference is sampled once, after its comparison.
LEMMA DiffsSplit ==
  ASSUME IInv
  PROVE  total["byteDiff"] = diffs + Cardinality(At({"comparing", "recording"}))
<1> DEFINE C == At({"comparing", "recording"})
<1>1. In("byteDiff") = Sampled \cup C
  <2>1. \A i \in Checks : checkPC[i] \in {"comparing", "recording"} => Differs(i)
    BY DEF IInv, AnswersKnown, Differs
  <2> QED
    BY <2>1 DEF In, Has, Sampled, At, EndedPCs, Checks
<1>2. Sampled \cap C = {}
  BY DEF Sampled, At, EndedPCs
<1>3. C \in SUBSET Checks /\ Sampled \in SUBSET Checks
  BY CountsTyped
<1>4. Cardinality(In("byteDiff")) = Cardinality(Sampled) + Cardinality(C)
  BY <1>1, <1>2, <1>3, SplitCount
<1> QED
  BY <1>4 DEF IInv, CountersExact, Totals

\* Each comparison ends as a match or as a mismatch.
LEMMA MatchSplit ==
  ASSUME IInv
  PROVE  total["match"] + total["mismatch"] + Cardinality(At({"comparing"}))
           = total["identical"] + total["byteDiff"] + Cardinality(At({"identical"}))
<1> DEFINE C == At({"comparing"})
           D == At({"identical"})
<1>1. \A i \in Checks :
        /\ checkPC[i] \in AnsweredPCs /\ Errors(i) = {} => relation[i] \in Relations
        /\ checkPC[i] = "identical" => Errors(i) = {} /\ relation[i] = "identical"
        /\ checkPC[i] \in {"comparing", "recording"} => Errors(i) = {} /\ relation[i] \in {"close", "far"}
  BY DEF IInv, AnswersKnown
<1>2. In("match") \cup In("mismatch") \cup C = In("identical") \cup In("byteDiff") \cup D
  <2>1. ASSUME NEW i \in Checks
        PROVE  Has("match", i) \/ Has("mismatch", i) \/ checkPC[i] \in {"comparing"} <=>
               Has("identical", i) \/ Has("byteDiff", i) \/ checkPC[i] \in {"identical"}
    BY <1>1 DEF Has, AnsweredPCs, EndedPCs, Same, Differs, Relations
  <2>2. \A i \in Checks : i \in In("match") \cup In("mismatch") \cup C <=>
                          i \in In("identical") \cup In("byteDiff") \cup D
    BY <2>1 DEF In, At, Checks
  <2>3. /\ In("match") \in SUBSET Checks /\ In("mismatch") \in SUBSET Checks
        /\ In("identical") \in SUBSET Checks /\ In("byteDiff") \in SUBSET Checks
        /\ C \in SUBSET Checks /\ D \in SUBSET Checks
    BY CountsTyped
  <2> HIDE DEF C, D
  <2> QED
    BY <2>2, <2>3
<1>3. /\ In("match") \cap In("mismatch") = {}
      /\ (In("match") \cup In("mismatch")) \cap C = {}
      /\ In("identical") \cap In("byteDiff") = {}
      /\ (In("identical") \cup In("byteDiff")) \cap D = {}
  BY DEF In, At, Has, Same, Differs, EndedPCs, Checks
<1>4. /\ C \in SUBSET Checks /\ Cardinality(C) \in Nat
      /\ D \in SUBSET Checks /\ Cardinality(D) \in Nat
      /\ \A t \in Totals : total[t] = Cardinality(In(t)) /\ total[t] \in Nat
  BY CountsTyped DEF IInv, CountersExact, TypeOK, MainType
<1> HIDE DEF C, D
<1>5. Cardinality(In("match") \cup In("mismatch")) = Cardinality(In("match")) + Cardinality(In("mismatch"))
  BY <1>3, CountsTyped, SplitCount
<1>6. Cardinality(In("match") \cup In("mismatch") \cup C)
        = Cardinality(In("match") \cup In("mismatch")) + Cardinality(C)
  BY <1>3, <1>4, CountsTyped, SplitCount
<1>7. Cardinality(In("identical") \cup In("byteDiff"))
        = Cardinality(In("identical")) + Cardinality(In("byteDiff"))
  BY <1>3, CountsTyped, SplitCount
<1>8. Cardinality(In("identical") \cup In("byteDiff") \cup D)
        = Cardinality(In("identical") \cup In("byteDiff")) + Cardinality(D)
  BY <1>3, <1>4, CountsTyped, SplitCount
<1>9. {"match", "mismatch", "identical", "byteDiff"} \subseteq Totals
  BY DEF Totals
<1> QED
  BY <1>2, <1>4, <1>5, <1>6, <1>7, <1>8, <1>9 DEF C, D

\* The semaphore is held by exactly the running checks and main's drain, and at
\* every moment the eight counters add up to where the checks are.
THEOREM CountersAlwaysSound == Spec => []CountersSound
<1>1. IInv => CountersSound
  <2> SUFFICES ASSUME IInv PROVE CountersSound
    OBVIOUS
  <2>1. TypeOK /\ SlotsHeld
    BY NoneRuns DEF IInv, SlotCount, SlotsHeld
  <2>2. Categories
    BY SentSplit, DiffsSplit, MatchSplit DEF Categories
  <2> QED
    BY <2>1, <2>2 DEF CountersSound
<1> QED
  BY <1>1, Inductive, PTL

\* What is printed is final and about every request; the verdict is what the
\* answers say.
THEOREM OutcomeAlwaysRight == Spec => []OutcomeRight
<1>1. IInv => OutcomeRight
  <2> SUFFICES ASSUME IInv PROVE ReportFinal /\ VerdictRight
    BY DEF OutcomeRight
  <2>1. SUFFICES ASSUME mainPC \in {"judge", "exited"} PROVE ReportFinal
    BY DEF IInv, ReportFinal
  <2>2. /\ report = total /\ (~flags.looping => reqIdx = NumReqs) /\ reqIdx \in Nat
    BY <2>1 DEF IInv, MainOrder, TypeOK, MainType
  <2>3. /\ 0..(reqIdx - 1) = At({"gone"})
        /\ \A i \in Checks : checkPC[i] \in {"idle", "gone"}
    BY <2>1, AllGone
  <2>4. total["sent"] = reqIdx
    <3>1. In("sent") = 0..(reqIdx - 1)
      BY <2>3 DEF In, Has, At, AnsweredPCs
    <3>2. Cardinality(0..(reqIdx - 1)) = reqIdx
      BY <2>2, FS_Interval
    <3> QED
      BY <3>1, <3>2 DEF IInv, CountersExact, Totals
  <2>5. total["match"] = Cardinality({i \in At({"gone"}) : Errors(i) = {} /\ relation[i] # "far"})
    <3>1. \A i \in Checks : checkPC[i] = "gone" /\ Errors(i) = {} => relation[i] \in Relations
      BY DEF IInv, AnswersKnown, AnsweredPCs
    <3>2. ASSUME NEW i \in Checks
          PROVE  Has("match", i) <=> checkPC[i] = "gone" /\ Errors(i) = {} /\ relation[i] # "far"
      BY <2>3, <3>1 DEF Has, EndedPCs, Same, Relations
    <3>3. In("match") = {i \in At({"gone"}) : Errors(i) = {} /\ relation[i] # "far"}
      BY <3>2 DEF In, At, Checks
    <3> QED
      BY <3>3 DEF IInv, CountersExact, Totals
  <2>6. diffs = total["byteDiff"]
    <3>1. At({"comparing", "recording"}) = {}
      BY <2>3 DEF At
    <3>2. Cardinality(At({"comparing", "recording"})) = 0 /\ diffs \in Nat
      BY <3>1, FS_EmptySet DEF IInv, TypeOK, MainType
    <3> QED
      BY <3>2, DiffsSplit
  <2> QED
    BY <2>2, <2>4, <2>5, <2>6 DEF ReportFinal
<1> QED
  BY <1>1, Inductive, PTL

\* No row is missing from the output at exit without a warning.
THEOREM RowsNeverSilent == Spec => []RowsComplete
<1>1. IInv => RowsComplete
  <2> SUFFICES ASSUME IInv, mainPC = "exited", Output, ~warned PROVE csv.rows = total["byteDiff"]
    BY DEF RowsComplete
  <2>1. ~csv.err /\ csv.rows = diffs
    BY DEF IInv, LossTold, CountersExact
  <2>2. At({"comparing", "recording"}) = {}
    BY AllGone DEF At
  <2>3. Cardinality(At({"comparing", "recording"})) = 0 /\ diffs \in Nat
    BY <2>2, FS_EmptySet DEF IInv, TypeOK, MainType
  <2> QED
    BY <2>1, <2>3, DiffsSplit
<1> QED
  BY <1>1, Inductive, PTL

----------------------------------------------------------------------------
(* Refinement *)

OpenPCs   == {"sending", "counted", "comparing"}
JudgedPCs == {"identical", "recording", "release", "gone"}

LEMMA RefinementInit ==
  ASSUME Init
  PROVE  Abstract!Init
BY DEF Init, Abstract!Init, At, Judged

\* A check starts, is judged once when its class is known, or moves within its
\* class.
LEMMA CheckRefines ==
  ASSUME IInv, NEW i \in Checks, Check(i)
  PROVE  Abstract!Finish(i) \/ UNCHANGED Abstract!vars
<1>1. /\ checkPC \in [Checks -> CheckPCs] /\ checkPC' \in [Checks -> CheckPCs]
      /\ AnswersKnown
  BY CheckRuns DEF IInv, TypeOK, CheckType
<1>2. /\ verdict' = verdict /\ flags' = flags
      /\ \A j \in Checks \ {i} : checkPC'[j] = checkPC[j] /\ (Bad(j)' <=> Bad(j))
  BY MainStays, OthersStay DEF IInv, mainVars, endVars, Bad, Errors
<1>3. CASE ClassifyErrors(i) \/ ClassifyIdentical(i) \/ CompareFloats(i)
  <2>1. checkPC[i] \in OpenPCs /\ checkPC'[i] \in JudgedPCs
    BY <1>1, <1>3 DEF ClassifyErrors, ClassifyIdentical, CompareFloats, Goto, OpenPCs, JudgedPCs
  <2>2. /\ i \in At(OpenPCs)
        /\ At(OpenPCs)' = At(OpenPCs) \ {i}
        /\ At(JudgedPCs)' = At(JudgedPCs) \cup {i} /\ i \notin At(JudgedPCs)
    BY <1>2, <2>1 DEF At, OpenPCs, JudgedPCs, Checks
  <2>3. {j \in At(JudgedPCs) : Bad(j)}' \in
          {{j \in At(JudgedPCs) : Bad(j)}, {j \in At(JudgedPCs) : Bad(j)} \cup {i}}
    <3>1. At(JudgedPCs) \subseteq Checks
      BY DEF At
    <3>2. \A j \in At(JudgedPCs) : Bad(j)' <=> Bad(j)
      BY <1>2, <2>2, <3>1
    <3>3. CASE Bad(i)'
      BY <2>2, <3>2, <3>3
    <3>4. CASE ~Bad(i)'
      BY <2>2, <3>2, <3>4
    <3> QED
      BY <3>3, <3>4
  <2> QED
    BY <1>2, <2>2, <2>3 DEF Abstract!Finish, Judged, OpenPCs, JudgedPCs
<1>4. CASE ~(ClassifyErrors(i) \/ ClassifyIdentical(i) \/ CompareFloats(i))
  <2>1. /\ checkPC[i] \in OpenPCs <=> checkPC'[i] \in OpenPCs
        /\ checkPC[i] \in JudgedPCs <=> checkPC'[i] \in JudgedPCs
    BY <1>1, <1>4 DEF Check, Answer, Join, CountIdentical, ClassifyByteDiff, RecordDiff, Release,
                      Goto, OpenPCs, JudgedPCs
  <2>2. checkPC[i] \in JudgedPCs => answer' = answer /\ relation' = relation
    BY <1>1, <1>4 DEF Check, Answer, Join, CountIdentical, ClassifyByteDiff, RecordDiff, Release,
                      Goto, JudgedPCs
  <2>3. checkPC[i] \in JudgedPCs => (Bad(i)' <=> Bad(i))
    BY <1>2, <2>2 DEF Bad, Errors
  <2>4. At(OpenPCs)' = At(OpenPCs) /\ At(JudgedPCs)' = At(JudgedPCs)
    BY <1>2, <2>1 DEF At, Checks
  <2>5. {j \in At(JudgedPCs) : Bad(j)}' = {j \in At(JudgedPCs) : Bad(j)}
    <3>1. \A j \in At(JudgedPCs) : Bad(j)' <=> Bad(j)
      BY <1>2, <2>3 DEF At
    <3> QED
      BY <2>4, <3>1
  <2> QED
    BY <1>2, <2>4, <2>5 DEF Abstract!vars, Judged, OpenPCs, JudgedPCs
<1> QED
  BY <1>3, <1>4

LEMMA MainRefines ==
  ASSUME IInv, Main
  PROVE  Abstract!Next \/ UNCHANGED Abstract!vars
<1> USE ParityCheckAssumption
<1>1. checkPC \in [Checks -> CheckPCs] /\ reqIdx \in Nat
  BY DEF IInv, TypeOK, MainType, CheckType
<1>2. CASE Start
  <2> DEFINE i == reqIdx - 1
  <2>1. /\ i \in Checks /\ checkPC[i] = "idle" /\ verdict = "none"
        /\ checkPC' = [checkPC EXCEPT ![i] = "sending"]
        /\ UNCHANGED <<flags, answer, relation, verdict>>
    BY <1>1, <1>2 DEF Start, IInv, StartOrder, MainOrder, Checks, endVars
  <2> HIDE DEF i
  <2>2. i \notin At(OpenPCs) \cup At(JudgedPCs)
    BY <2>1 DEF At, OpenPCs, JudgedPCs
  <2>3. At(OpenPCs)' = At(OpenPCs) \cup {i} /\ At(JudgedPCs)' = At(JudgedPCs)
    BY <1>1, <2>1 DEF At, OpenPCs, JudgedPCs, Checks
  <2>4. {j \in At(JudgedPCs) : Bad(j)}' = {j \in At(JudgedPCs) : Bad(j)}
    <3>1. \A j \in At(JudgedPCs) : Bad(j)' <=> Bad(j)
      BY <2>1 DEF Bad, Errors
    <3> QED
      BY <2>3, <3>1
  <2>5. Abstract!Start(i)
    BY <2>1, <2>2, <2>3, <2>4 DEF Abstract!Start, Judged, OpenPCs, JudgedPCs
  <2> QED
    BY <2>1, <2>5 DEF Abstract!Next
<1>3. ASSUME UNCHANGED <<flags, checkVars>>
      PROVE  UNCHANGED <<At(OpenPCs), At(JudgedPCs), {j \in At(JudgedPCs) : Bad(j)}>>
  <2>1. At(OpenPCs)' = At(OpenPCs) /\ At(JudgedPCs)' = At(JudgedPCs)
    BY <1>3 DEF At, checkVars, Checks
  <2>2. \A j \in At(JudgedPCs) : Bad(j)' <=> Bad(j)
    BY <1>3 DEF Bad, Errors, checkVars
  <2> QED
    BY <2>1, <2>2
<1>4. CASE Judge
  <2>1. UNCHANGED <<At(OpenPCs), At(JudgedPCs), {j \in At(JudgedPCs) : Bad(j)}>> /\ verdict = "none"
    BY <1>3, <1>4 DEF Judge, IInv, MainOrder
  <2>2. /\ 0..(reqIdx - 1) = At({"gone"})
        /\ \A i \in Checks : checkPC[i] \in {"idle", "gone"}
    BY <1>4, AllGone DEF Judge
  <2>3. At(OpenPCs) = {} /\ At(JudgedPCs) = 0..(reqIdx - 1)
    BY <2>2 DEF At, OpenPCs, JudgedPCs
  <2>4. verdict' = IF {j \in At(JudgedPCs) : Bad(j)} = {} THEN "passed" ELSE "failed"
    BY <1>4, <2>3, CountersTell DEF Judge
  <2>5. Abstract!Decide
    BY <2>1, <2>3, <2>4 DEF Abstract!Decide, Judged, OpenPCs, JudgedPCs
  <2> QED
    BY <2>5 DEF Abstract!Next
<1>5. CASE Pick \/ LeaveLoop \/ DrainSlot \/ Report
  <2>1. UNCHANGED <<flags, checkVars, verdict>>
    BY <1>5 DEF Pick, LeaveLoop, DrainSlot, Report, endVars
  <2> QED
    BY <1>3, <2>1 DEF Abstract!vars, Judged, OpenPCs, JudgedPCs
<1> QED
  BY <1>2, <1>4, <1>5 DEF Main

LEMMA RefinementStep ==
  ASSUME IInv, [Next]_vars
  PROVE  [Abstract!Next]_(Abstract!vars)
<1>1. CASE UNCHANGED vars
  <2>1. UNCHANGED <<flags, checkPC, answer, relation, verdict>>
    BY <1>1 DEF vars, mainVars, checkVars, endVars
  <2>2. At(OpenPCs)' = At(OpenPCs) /\ At(JudgedPCs)' = At(JudgedPCs)
    BY <2>1 DEF At, Checks
  <2>3. {j \in At(JudgedPCs) : Bad(j)}' = {j \in At(JudgedPCs) : Bad(j)}
    BY <2>1, <2>2 DEF Bad, Errors
  <2> QED
    BY <2>1, <2>2, <2>3 DEF Abstract!vars, Judged, OpenPCs, JudgedPCs
<1>2. CASE \E i \in Checks : Check(i)
  BY <1>2, CheckRefines DEF Abstract!Next
<1> QED
  BY <1>1, <1>2, MainRefines DEF Next, Exited

\* The check implements Parity but for its fairness: each request is judged once
\* and the verdict is for exactly those that were judged.
THEOREM ImplementsParity == Spec => ParitySafety
<1>1. Init => Abstract!Init
  BY RefinementInit
<1>2. IInv /\ [Next]_vars => [Abstract!Next]_(Abstract!vars)
  BY RefinementStep
<1> QED
  BY <1>1, <1>2, Inductive, PTL DEF Spec, ParitySafety

=============================================================================
