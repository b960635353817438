-------------------------- MODULE CJsonProperties --------------------------
(***************************************************************************)
(* What neb::CJsonObject hands back, and what its callers rely on.         *)
(***************************************************************************)
EXTENDS CJsonCalls

(***************************************************************************)
(* The calls that read. A result is the set of the one value that was      *)
(* read, {} when the call returned false.                                  *)
(***************************************************************************)
Result(item, can, value) == IF item # NULL /\ can THEN {value} ELSE {}

\* An integer comes from valueint, or from the double.
IntegerOf(n, T) ==
  Result(n, IsNumber(heap[n]),
         Cast(T, IF heap[n].type = "Int" THEN heap[n].valueint ELSE Truncated(heap[n].valuedouble)))

RealOf(n) == Result(n, IsNumber(heap[n]), heap[n].valuedouble)
StringOf(n) == Result(n, heap[n].type = "String", heap[n].valuestring)
BoolOf(n) == Result(n, heap[n].type \in {"False", "True"}, heap[n].type = "True")

KeyExist(w, k) == Lookup(w, k) # NULL
GetInteger(w, k, T) == IntegerOf(Lookup(w, k), T)
GetReal(w, k) == RealOf(Lookup(w, k))
GetString(w, k) == StringOf(Lookup(w, k))
GetBool(w, k) == BoolOf(Lookup(w, k))
IsNull(w, k) == KeyExist(w, k) /\ heap[Lookup(w, k)].type = "NULL"

GetArraySize(w) == IF Is(w, "Array") THEN Len(heap[Focus(w)].child) ELSE 0
GetIntegerAt(w, i, T) == IntegerOf(LookupAt(w, i), T)
GetRealAt(w, i) == RealOf(LookupAt(w, i))
GetStringAt(w, i) == StringOf(LookupAt(w, i))
GetBoolAt(w, i) == BoolOf(LookupAt(w, i))
IsNullAt(w, i) == LookupAt(w, i) # NULL /\ heap[LookupAt(w, i)].type = "NULL"

(***************************************************************************)
(* Types                                                                   *)
(***************************************************************************)
Parent(w) == SubSeq(w, 1, Len(w) - 1)

Pointers == Cells \cup {NULL}

Wrapper == [own : Pointers, ext : Pointers, trav : Pointers]

\* Every variable is there, a wrapper is below one that is there, and only
\* arrays and objects have items below them.
TypeOK ==
  /\ heap \in [Cells -> Item]
  /\ \A c \in Cells : heap[c].child # <<>> => heap[c].type \in {"Array", "Object"}
  /\ obj \in [DOMAIN obj -> Wrapper]
  /\ \A w \in DOMAIN obj :
       /\ w \in Seq(Vars \cup Keys \cup Indices) /\ w # <<>> /\ w[1] \in Vars
       /\ \A i \in 2..Len(w) : w[i] \in Keys \cup Indices
       /\ Len(w) > 1 => Parent(w) \in DOMAIN obj
       /\ obj[w].own = NULL \/ obj[w].ext = NULL
  /\ \A v \in Vars : <<v>> \in DOMAIN obj
  /\ moved \subseteq Vars

(***************************************************************************)
(* Memory                                                                  *)
(***************************************************************************)
Live1(c) == heap[c].type # "freed"

\* Who frees the item c: the lists it is in, the wrappers that own it
Holders(c) ==
  {s \in Cells \X (1..Cardinality(Cells)) :
     s[2] \in DOMAIN heap[s[1]].child /\ heap[s[1]].child[s[2]] = c}
    \cup {w \in DOMAIN obj : obj[w].own = c}

\* Every item has at most one owner and a freed item none: nothing is freed
\* twice or used after it was freed, whatever is moved between documents,
\* replaced or deleted (cJSON_Delete, the destructor and the && overloads).
SingleOwner == \A c \in Cells : Cardinality(Holders(c)) <= (IF Live1(c) THEN 1 ELSE 0)

\* Every item there is will be freed: it is in the document of a variable or
\* of a wrapper that is kept, a document that was added or replaced included.
NoLeak ==
  {c \in Cells : Live1(c)} \subseteq Trees(heap, {obj[w].own : w \in DOMAIN obj} \ {NULL})

(***************************************************************************)
(* Wrappers                                                                *)
(***************************************************************************)
Designated(w) ==
  LET s == w[Len(w)]
  IN IF s \in Indices THEN LookupAt(Parent(w), s) ELSE Lookup(Parent(w), s)

\* operator[] returns the wrapper it has kept without looking: it must be about
\* the member or element it would find now, however the document has changed
\* since. A wrapper that got a document of its own is no view any more.
WrappersFresh ==
  \A w \in DOMAIN obj :
    (Len(w) > 1 /\ Live(Parent(w)) /\ obj[w].own = NULL) => obj[w].ext = Designated(w)

\* GetKey goes on from the item the cursor is at: it is still in the document,
\* also when members were added, deleted or replaced between two calls.
CursorLive ==
  \A w \in DOMAIN obj :
    (Live(w) /\ Focus(w) # NULL) => obj[w].trav \in {NULL, Focus(w)} \cup Range(heap[Focus(w)].child)

(***************************************************************************)
(* Documents are values                                                    *)
(***************************************************************************)
\* The items of the variable v's document, what they hold and how they are linked
Content(v) ==
  LET own == obj[<<v>>].own
  IN IF own = NULL THEN {} ELSE {<<c, heap[c]>> : c \in Trees(heap, {own})}

\* A call changes the document of one variable; a second one changes only by
\* being moved away, whole. What was added to a document or copied from it
\* earlier is no part of it: a document is a value.
Changes(v) == Content(v)' # {} /\ Content(v)' # Content(v)

OneDocumentChanges == [][Cardinality({v \in Vars : Changes(v)}) <= 1]_vars

(***************************************************************************)
(* Numbers                                                                 *)
(***************************************************************************)
Numbers == {c \in Cells : IsNumber(heap[c])}

\* ToString gives the number that was put in, or that the parsed text denotes:
\* through every overload, every copy and every reparse.
PrintedAsGiven == \A c \in Numbers : Denotes(PrintNumber(heap[c])) = heap[c].number

\* What a double is printed and parsed as is exact while an int64 holds the digits
\* before the point, and an integer while it is one of the types. Beyond that
\* parse_number overflows (n in cJSON.c:137), and an exponent without a fraction
\* gives 0 (base in cJSON.c:174).
NumbersFit ==
  /\ \A d \in Reals : Abs(d) < M64
  /\ \A t \in NumberTexts :
       IF t.half = NoFraction
       THEN t.exp = 0 /\ t.digits < (IF t.neg THEN M64 \div 2 + 1 ELSE M64)
       ELSE t.digits < M64 \div 2 /\ Abs(Denotes(t)) < M64

Fits(T, number) == number % 2 = 0 /\ Cast(T, number \div 2) = number \div 2

\* Get gives the number of n back, into every integer type that can hold it and
\* into a double: not into a double when it is a negative integer that was put in
\* (valuedouble is made from it as an unsigned one, cJSON.c:1023), or an unsigned
\* one that was parsed and is above the signed ones (cJSON.c:166).
Returns(n, Integer(_), Real) ==
  \A T \in IntTypes :
    /\ n # NULL /\ IsNumber(heap[n]) /\ Fits(T, heap[n].number)
         => Integer(T) = {heap[n].number \div 2}
    /\ n # NULL /\ IsNumber(heap[n]) /\ (heap[n].type = "Double" \/ heap[n].number \in 0..(M64 - 1))
         => Real = {heap[n].number}

\* Get(key, v) and Get(index, v) give back the number that was put in or parsed,
\* by whichever overload and through whatever copies it came.
ReadsBack ==
  \A w \in DOMAIN obj : Live(w) =>
    /\ \A k \in Keys : Returns(Lookup(w, k), LAMBDA T : GetInteger(w, k, T), GetReal(w, k))
    /\ \A i \in Indices : Returns(LookupAt(w, i), LAMBDA T : GetIntegerAt(w, i, T), GetRealAt(w, i))

\* What the calls above return for w, but for the doubles
Reads(w) ==
  [size |-> GetArraySize(w),
   members |-> [k \in Keys |-> <<KeyExist(w, k), [T \in IntTypes |-> GetInteger(w, k, T)],
                                 GetString(w, k), GetBool(w, k), IsNull(w, k)>>],
   elements |-> [i \in Indices |-> <<[T \in IntTypes |-> GetIntegerAt(w, i, T)],
                                     GetStringAt(w, i), GetBoolAt(w, i), IsNullAt(w, i)>>]]

\* A copy is made by way of the text, by operator= and the copy constructor. It
\* answers every Get the way the original did, integers of all types included.
CopiesReadTheSame ==
  [][\A v \in Vars : \A w \in DOMAIN obj : Assign(<<v>>, w) => Reads(<<v>>)' = Reads(w)]_vars
=============================================================================
