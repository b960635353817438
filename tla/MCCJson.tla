------------------------------- MODULE MCCJson -------------------------------
(***************************************************************************)
(* Small instances of neb::CJsonObject for TLC.                            *)
(***************************************************************************)
EXTENDS CJsonProperties, TLC

CONSTANTS k, l, d, e, m1, m2, m3, m4

\* Free cells are all alike.
AnyCell == Permutations(Cells)

NoFold == [x \in Keys |-> x] @@ NoKey :> NoKey

Member1(item) == <<[key |-> k, item |-> item]>>

\* A text with one member, null
OneMember == {Member1(CreateNull)}

Min(T) == IF T = "int32" THEN -(M32 \div 2) ELSE IF T = "int64" THEN -(M64 \div 2) ELSE 0
Max(T) == IF T = "int32" THEN M32 \div 2 - 1
          ELSE IF T = "uint32" THEN M32 - 1
          ELSE IF T = "int64" THEN M64 \div 2 - 1 ELSE M64 - 1

\* operator[] is called on the one variable only, or on none.
WrapsD == d :> 2 @@ e :> 1
NoWraps == d :> 1 @@ e :> 1

Value(T, x) == [type |-> T, value |-> x]

\* The bounds of the integer types but 0 and the largest int32
Boundaries == {Value(T, Min(T)) : T \in {"int32", "int64"}}
                \cup {Value(T, Max(T)) : T \in {"uint32", "int64", "uint64"}}

\* -1.5, in halves
SomeReals == {-3}

\* Numbers as texts: the largest unsigned one, -0.5, 1.5e1
SomeTexts == {Text(FALSE, M64 - 1, NoFraction, 0), Text(TRUE, 0, 1, 0), Text(FALSE, 1, 1, 1)}

NumberMembers == {Member1(ParseNumber(t)) : t \in SomeTexts}

\* The numbers of both instances come out as they went in.
ASSUME InstanceFits == NumbersFit
=============================================================================
