---------------------------- MODULE ProtoCompare ----------------------------
(***************************************************************************)
(* cmd/grpc-parity-check/proto_compare.go: two responses whose bytes       *)
(* differ are compared by the floats that are found in them.               *)
(*                                                                         *)
(* A message is the sequence of its fields as they are on the wire:        *)
(*   varint   a value that the extraction skips                            *)
(*   float    a 32 or 64 bit value that can be compared                    *)
(*   special  NaN, an infinity, or 1e15 and beyond in absolute value       *)
(*   message  a length-delimited field, with the fields in its bytes       *)
(*   broken   anything the extraction stops at: a value or a length that   *)
(*            is cut off, another wire type                                *)
(* Field numbers, which the code discards, are left out.                   *)
(***************************************************************************)
EXTENDS Integers, Sequences, SequencesExt

CONSTANTS
  Values,     \* of varints, of floats and of special floats
  Tolerance,  \* -tolerance, in the unit of Values
  TopLength, SubLength  \* bounds: fields of a response and of a message in it

ASSUME ProtoCompareAssumption ==
  Values \subseteq Int /\ {Tolerance, TopLength, SubLength} \subseteq Nat

Scalars == [kind : {"varint", "float", "special"}, v : Values]
           \cup {[kind |-> "broken"], [kind |-> "message", fields |-> <<>>]}
Submessages == BoundedSeq(Scalars, SubLength)
Fields == Scalars \cup [kind : {"message"}, fields : Submessages]
Responses == BoundedSeq(Fields, TopLength)

----------------------------------------------------------------------------
(* Extraction: one turn of the loop per field. *)

Start == [floats |-> <<>>, stopped |-> FALSE]

ShallowTurn(acc, f) ==
  IF acc.stopped THEN acc
  ELSE CASE f.kind = "broken" -> [acc EXCEPT !.stopped = TRUE]
         [] f.kind = "float"  -> [acc EXCEPT !.floats = Append(@, f.v)]
         [] OTHER             -> acc

ExtractShallowFloats(m) == FoldLeft(ShallowTurn, Start, m).floats

\* Mutant: nested floats go before those already found.
TopTurn_Prepends(acc, f) ==
  IF ~acc.stopped /\ f.kind = "message"
  THEN [acc EXCEPT !.floats = ExtractShallowFloats(f.fields) \o @]
  ELSE ShallowTurn(acc, f)

\* As above, and one level deeper; a field broken in there ends that level only.
TopTurn(acc, f) ==
  IF ~acc.stopped /\ f.kind = "message"
  THEN [acc EXCEPT !.floats = @ \o ExtractShallowFloats(f.fields)]
  ELSE ShallowTurn(acc, f)

ExtractTopLevelFloats(m) == FoldLeft(TopTurn, Start, m).floats

----------------------------------------------------------------------------
(* Comparison *)

Distance(x, y) == IF x < y THEN y - x ELSE x - y
Shorter(x, y) == IF x < y THEN x ELSE y

\* One turn of the loop over pairs of floats.
PairTurn(acc, d) == [maxDiff    |-> IF d > acc.maxDiff THEN d ELSE acc.maxDiff,
                     mismatches |-> acc.mismatches + IF d > Tolerance THEN 1 ELSE 0]

CompareProtoFloats(a, b) ==
  LET fa == ExtractTopLevelFloats(a)
      fb == ExtractTopLevelFloats(b)
      n  == Shorter(Len(fa), Len(fb))
      r  == FoldLeft(PairTurn, [maxDiff |-> 0, mismatches |-> 0],
                     [k \in 1..n |-> Distance(fa[k], fb[k])])
      unpaired == r.mismatches + Distance(Len(fa), Len(fb))
  IN  IF n = 0 \/ Len(fa) # Len(fb)
      THEN [match |-> FALSE, maxDiff |-> r.maxDiff, total |-> n,
            mismatches |-> IF unpaired = 0 THEN 1 ELSE unpaired]
      ELSE [match |-> r.mismatches = 0, maxDiff |-> r.maxDiff, total |-> n,
            mismatches |-> r.mismatches]

----------------------------------------------------------------------------
(* The checker compares one pair of responses whose bytes differ. *)

VARIABLES
  a, b,      \* the answers of the two targets
  compared,  \* compareProtoFloats has returned
  result

vars == <<a, b, compared, result>>

Init == /\ a \in Responses /\ b \in Responses /\ a # b
        /\ compared = FALSE
        /\ result = [match |-> FALSE, maxDiff |-> 0, total |-> 0, mismatches |-> 0]

Compare == /\ ~compared
           /\ compared' = TRUE
           /\ result' = CompareProtoFloats(a, b)
           /\ UNCHANGED <<a, b>>

Next == Compare

Spec == Init /\ [][Next]_vars

=============================================================================
