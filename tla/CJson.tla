------------------------------- MODULE CJson -------------------------------
(***************************************************************************)
(* The C layer of the JSON library the server and the client are built     *)
(* with (src/thridparty/CJsonObject-master/cJSON.c): items in memory, what *)
(* the functions that link, unlink, copy and delete them do to it, and how *)
(* a number becomes text and text a number.                                *)
(*                                                                         *)
(* A memory is a function from cells to items. The sibling list of an item *)
(* (next, prev) is the sequence `child` of its parent.                     *)
(***************************************************************************)
EXTENDS Integers, Sequences, FiniteSets, Functions

CONSTANTS
  Cells,   \* the memory cells: a bound on the items there can be at a time
  NULL,    \* a pointer to nothing
  Keys,    \* the keys as callers spell them
  Fold,    \* tolower: two keys with the same fold name the same member
  NoKey,   \* item->string at NULL
  M32,     \* how many values a 32-bit integer has
  M64      \* how many values a 64-bit integer has

ASSUME CellsAssumption == IsFiniteSet(Cells) /\ NULL \notin Cells
ASSUME KeysAssumption == NoKey \notin Keys /\ Keys \subseteq DOMAIN Fold
ASSUME WidthAssumption ==
  /\ M32 \in Nat \ {0, 1} /\ M32 % 2 = 0
  /\ M64 \in Nat /\ M64 % 2 = 0 /\ 2 * M32 <= M64

(***************************************************************************)
(* Integers of the four widths. A double is counted in halves: 3 is 1.5.   *)
(***************************************************************************)
IntTypes == {"int32", "uint32", "int64", "uint64"}

\* The bits of v read as an unsigned, as a signed integer of m values.
Unsigned(v, m) == v % m
Signed(v, m) == IF v % m < m \div 2 THEN v % m ELSE (v % m) - m

\* A value of one integer type converted to another
Cast(T, v) ==
  CASE T = "int32"  -> Signed(v, M32)
    [] T = "uint32" -> Unsigned(v, M32)
    [] T = "int64"  -> Signed(v, M64)
    [] T = "uint64" -> Unsigned(v, M64)

\* A double converted to an integer: the fraction is dropped.
Truncated(d) == IF d >= 0 THEN d \div 2 ELSE -((-d) \div 2)

(***************************************************************************)
(* struct cJSON. `number` is no field of it: the number, in halves, that   *)
(* the caller gave or that the parsed text denotes.                        *)
(***************************************************************************)
NewItem == [type |-> "False", string |-> NoKey, valuestring |-> "",
            valueint |-> 0, valuedouble |-> 0, sign |-> 0, child |-> <<>>, number |-> 0]

Freed == [NewItem EXCEPT !.type = "freed"]

CreateNull == [NewItem EXCEPT !.type = "NULL"]
CreateBool(b) == [NewItem EXCEPT !.type = IF b THEN "True" ELSE "False"]
CreateString(s) == [NewItem EXCEPT !.type = "String", !.valuestring = s]
CreateArray == [NewItem EXCEPT !.type = "Array"]
CreateObject == [NewItem EXCEPT !.type = "Object"]

\* The integer is kept in 32 bits.
CreateIntNarrow(num, sign) ==
  [NewItem EXCEPT !.type = "Int", !.valueint = Cast("int32", num),
                  !.valuedouble = 2 * Cast("uint64", num), !.sign = sign]

\* The double is made from the unsigned parameter, whatever the sign says.
CreateInt(num, sign) ==
  [NewItem EXCEPT !.type = "Int", !.valueint = Cast("int64", num),
                  !.valuedouble = 2 * Cast("uint64", num), !.sign = sign]

CreateDouble(num, sign) ==
  [NewItem EXCEPT !.type = "Double", !.valueint = Truncated(num),
                  !.valuedouble = num, !.sign = sign]

(***************************************************************************)
(* Numbers as text: a sign, the digits before the point, those after it    *)
(* (halves, or none) and the power of ten (0 is none).                     *)
(***************************************************************************)
NoFraction == 2

Abs(v) == IF v < 0 THEN -v ELSE v

\* The number, in halves, that a text denotes
Denotes(t) ==
  LET size == (2 * t.digits + (IF t.half = NoFraction THEN 0 ELSE t.half)) * 10 ^ t.exp
  IN IF t.neg THEN -size ELSE size

Text(neg, digits, half, exp) == [neg |-> neg, digits |-> digits, half |-> half, exp |-> exp]

\* %d of every integer
PrintIntNarrow(item) ==
  LET v == Cast("int32", item.valueint) IN Text(v < 0, Abs(v), NoFraction, 0)

PrintInt(item) ==
  LET v == IF item.sign = -1 THEN item.valueint ELSE Cast("uint64", item.valueint)
  IN Text(v < 0, Abs(v), NoFraction, 0)

PrintDouble(item) ==
  LET size == Abs(item.valuedouble)
  IN Text(item.valuedouble < 0, size \div 2, size % 2, 0)

PrintNumber(item) == IF item.type = "Int" THEN PrintInt(item) ELSE PrintDouble(item)

\* The sign is left out of the integer.
ParseNumberUnsigned(t) ==
  [NewItem EXCEPT !.type = "Int", !.valueint = Cast("int64", t.digits),
                  !.sign = IF t.neg THEN -1 ELSE 1, !.number = Denotes(t)]

\* `base` is set by the fraction alone, and is what the power of ten scales.
ParseNumber(t) ==
  LET sign == IF t.neg THEN -1 ELSE 1
      n == Cast("int64", t.digits)
      whole == t.half = NoFraction
      value == IF t.exp = 0 THEN 2 * n + (IF whole THEN 0 ELSE t.half)
               ELSE IF whole THEN 0 ELSE (2 * n + t.half) * 10 ^ t.exp
      item == [NewItem EXCEPT !.valuedouble = sign * value, !.sign = sign, !.number = Denotes(t)]
  IN IF whole /\ t.exp = 0
     THEN [item EXCEPT !.type = "Int", !.valueint = Cast("int64", sign * n)]
     ELSE [item EXCEPT !.type = "Double", !.valueint = n]

IsNumber(item) == item.type \in {"Int", "Double"}

(***************************************************************************)
(* Items in a memory h.                                                    *)
(***************************************************************************)
\* The sets of cells that have with an item its children
Closed(h) == {S \in SUBSET Cells : \A n \in S : Range(h[n].child) \subseteq S}

\* The cells of the trees at N
Trees(h, N) ==
  LET holding == {S \in Closed(h) : N \subseteq S} IN {c \in Cells : \A S \in holding : c \in S}

\* Only the items themselves are freed, their children are not.
DeleteShallow(h, N) == [n \in Cells |-> IF n \in N THEN Freed ELSE h[n]]

\* cJSON_Delete, of several trees
Delete(h, N) == LET gone == Trees(h, N) IN [n \in Cells |-> IF n \in gone THEN Freed ELSE h[n]]

\* An index below zero gives the first item.
GetArrayItem(h, a, i) ==
  IF h[a].child = <<>> \/ i >= Len(h[a].child) THEN NULL
  ELSE h[a].child[IF i > 0 THEN i + 1 ELSE 1]

GetObjectItem(h, o, k) ==
  LET Named(i) == Fold[h[h[o].child[i]].string] = Fold[k]
      named == {i \in DOMAIN h[o].child : Named(i)}
  IN IF named = {} THEN NULL
     ELSE h[o].child[CHOOSE i \in named : \A j \in named : i <= j]

AddItemToArray(h, a, n) == [h EXCEPT ![a].child = Append(@, n)]

AddItemToArrayHead(h, a, n) == [h EXCEPT ![a].child = <<n>> \o @]

AddItemToObject(h, o, k, n) == AddItemToArray([h EXCEPT ![n].string = k], o, n)

\* cJSON_DetachItemFromArray, of the item found: those behind it move up.
Detached(list, n) ==
  LET at == CHOOSE i \in DOMAIN list : list[i] = n
  IN [i \in 1..(Len(list) - 1) |-> list[IF i < at THEN i ELSE i + 1]]

\* cJSON_DeleteItemFromArray and cJSON_DeleteItemFromObject, of the item found
DeleteItem(h, a, n) ==
  IF n = NULL THEN h ELSE Delete([h EXCEPT ![a].child = Detached(@, n)], {n})

\* cJSON_ReplaceItemInArray, of the item found: the new one takes its place
ReplaceItem(h, a, n, new) ==
  IF n = NULL THEN h
  ELSE Delete([h EXCEPT ![a].child = [i \in DOMAIN @ |-> IF @[i] = n THEN new ELSE @[i]]], {n})

\* cJSON_ReplaceItemInObject
ReplaceItemInObject(h, o, k, new) ==
  LET n == GetObjectItem(h, o, k)
  IN IF n = NULL THEN h ELSE ReplaceItem([h EXCEPT ![new].string = k], o, n, new)

(***************************************************************************)
(* A copy is the tree printed and parsed again, into cells of its own.     *)
(***************************************************************************)
\* What a printed item is when parsed
Reparsed(item) ==
  IF IsNumber(item) THEN [ParseNumber(PrintNumber(item)) EXCEPT !.number = item.number]
  ELSE [item EXCEPT !.sign = 0, !.valueint = IF item.type = "True" THEN 1 ELSE 0]

\* New cells for what is numbered or named by S
Allocate(S, free) == CHOOSE f \in [S -> free] : IsInjective(f)

\* The copy of the tree at n: where it goes, and the memory with it. The text
\* of a value does not hold the key it stands under.
CopyCell(h, n, free) == Allocate(Trees(h, {n}), free)

Copy(h, n, free) ==
  LET at == CopyCell(h, n, free)
      from == AntiFunction(at)
      Copied(m) == [Reparsed(h[m]) EXCEPT
                      !.string = IF m = n THEN NoKey ELSE h[m].string,
                      !.child = [i \in DOMAIN h[m].child |-> at[h[m].child[i]]]]
  IN [c \in Cells |-> IF c \in DOMAIN from THEN Copied(from[c]) ELSE h[c]]
=============================================================================
