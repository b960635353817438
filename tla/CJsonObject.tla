---------------------------- MODULE CJsonObject ----------------------------
(***************************************************************************)
(* neb::CJsonObject (src/thridparty/CJsonObject-master/CJsonObject.cpp):   *)
(* variables of the program that hold JSON documents, the wrappers their   *)
(* operator[] hands out and keeps, and the calls made on both.             *)
(*                                                                         *)
(* A wrapper is named by the way to it: <<v>> is the variable v, <<v, k>>  *)
(* what v[k] returned, kept in m_mapJsonObjectRef of v (k a key) or in     *)
(* m_mapJsonArrayRef (k an index). A CJsonObject is m_pJsonData (own),     *)
(* m_pExternJsonDataRef (ext) and m_pKeyTravers (trav). A call that        *)
(* returns false and changes nothing is no step.                           *)
(***************************************************************************)
EXTENDS CJson

CONSTANTS
  Vars,        \* the variables of type CJsonObject
  Indices,     \* the array indexes callers use
  MaxDepth,    \* bound on the ways from each variable: how many operator[] in a row, plus 1
  MaxWrappers, \* bound on the wrappers there can be at a time
  Strings, Booleans, Integers32or64, Reals, Documents,   \* what callers pass: strings,
               \* booleans, [type, value] of integers, halves, texts of objects
  NumberTexts, \* the numbers in those texts
  Liberties    \* the uses below that callers make of the library

\* What callers may do that the library takes but does not survive, or does not
\* survive as expected. The server and the client do none of it.
Uses == {"replace_missing",   \* Replace of a member or element that is not there
         "replace_ahead",     \* Replace of the member GetKey returns next
         "first_scalar",      \* AddAsFirst of a scalar to an array with wrappers
         "first_unsigned",    \* AddAsFirst of an unsigned number no signed one can hold
         "late_member",       \* Add of a scalar under a key looked up in vain before
         "assign_member"}     \* =, Parse or Get into a wrapper

ASSUME CallersAssumption ==
  /\ Indices \subseteq Int /\ Booleans \subseteq BOOLEAN /\ MaxDepth \in [Vars -> Nat \ {0}]
  /\ MaxWrappers \in Nat
  /\ Liberties \subseteq Uses
  /\ \A n \in Integers32or64 :
       n.type \in IntTypes /\ n.value \in Int /\ Cast(n.type, n.value) = n.value

Types == {"freed", "False", "True", "NULL", "Int", "Double", "String", "Array", "Object"}

Int64 == -(M64 \div 2)..(M64 \div 2 - 1)

\* struct cJSON
Item ==
  [type : Types, string : Keys \cup {NoKey}, valuestring : Strings \cup {""},
   valueint : Int64, valuedouble : Int, sign : {-1, 0, 1}, child : Seq(Cells), number : Int]

\* A double whose whole part no int64 can hold has no defined valueint (cJSON.c:1012).
\* The members of a parsed text are scalars here.
ASSUME ValuesAssumption ==
  /\ \A d \in Reals : d \in Int /\ Truncated(d) \in Int64
  /\ \A t \in NumberTexts : /\ t.neg \in BOOLEAN /\ t.digits \in Nat
                           /\ t.half \in 0..NoFraction /\ t.exp \in Nat
  /\ \A doc \in Documents :
       /\ doc \in Seq([key : Keys, item : Item])
       /\ \A i \in DOMAIN doc :
            /\ doc[i].item.type # "freed" /\ doc[i].item.child = <<>>
            /\ IsNumber(doc[i].item) => \E t \in NumberTexts : doc[i].item = ParseNumber(t)

VARIABLES
  heap,    \* heap[c]: the item in cell c
  obj,     \* obj[w]: the wrapper at w, for the wrappers there are
  moved    \* the variables whose document was moved away: assigned before used again

vars == <<heap, obj, moved>>

Empty == [own |-> NULL, ext |-> NULL, trav |-> NULL]

Init ==
  /\ heap = [c \in Cells |-> Freed]
  /\ obj = [w \in {<<v>> : v \in Vars} |-> Empty]
  /\ moved = {}

(***************************************************************************)
(* What a wrapper is about                                                 *)
(***************************************************************************)
\* pFocusData
Focus(w) == IF obj[w].own # NULL THEN obj[w].own ELSE obj[w].ext

TypeOf(w) == LET focus == Focus(w) IN IF focus = NULL THEN "nothing" ELSE heap[focus].type

Is(w, type) == TypeOf(w) = type

\* A variable moved from, and memory that was freed, are not used.
Live(w) == w[1] \notin moved /\ ~Is(w, "freed")

\* The member k, the element i of what w is about
Lookup(w, k) == IF Is(w, "Object") THEN GetObjectItem(heap, Focus(w), k) ELSE NULL
LookupAt(w, i) == IF Is(w, "Array") THEN GetArrayItem(heap, Focus(w), i) ELSE NULL

\* The wrappers kept below w under one of the keys or indexes S
Cached(w, S) ==
  {p \in DOMAIN obj : Len(p) > Len(w) /\ SubSeq(p, 1, Len(w)) = w /\ p[Len(w) + 1] \in S}

Below(w) == Cached(w, Keys \cup Indices)

\* iter->first >= (unsigned int)i
From(i) == IF i < 0 THEN {} ELSE {j \in Indices : j >= i}

\* Clear frees what a wrapper owns: delete of the wrappers P.
Owned(P) == {obj[p].own : p \in P} \ {NULL}
Without(P) == Restrict(obj, DOMAIN obj \ P)

(***************************************************************************)
(* Memory: a new item goes to a cell nobody points at, whichever.          *)
(***************************************************************************)
Pointed == UNION {{obj[p].own, obj[p].ext, obj[p].trav} : p \in DOMAIN obj}

Free == {c \in Cells : heap[c].type = "freed"} \ Pointed

First(S) == CHOOSE c \in S : TRUE

\* A wrapper about nothing gets an empty object or array (root) of its own first.
Opened(w, root) == IF Focus(w) = NULL THEN [heap EXCEPT ![First(Free)] = root] ELSE heap
At(w) == IF Focus(w) = NULL THEN First(Free) ELSE Focus(w)
Own(w) == IF Focus(w) = NULL THEN First(Free) ELSE obj[w].own
Rest(w) == IF Focus(w) = NULL THEN Free \ {First(Free)} ELSE Free
Room(w, n) == Cardinality(Free) >= n + (IF Focus(w) = NULL THEN 1 ELSE 0)

TreeSize(w) == Cardinality(Trees(heap, {Focus(w)}))

Unless(use, harmless) == use \in Liberties \/ harmless

(***************************************************************************)
(* operator[]: a wrapper is made once and kept, also where nothing is.     *)
(***************************************************************************)
Wrap(w, s, item) ==
  /\ Live(w) /\ Len(w) < MaxDepth[w[1]] /\ Append(w, s) \notin DOMAIN obj
  /\ Cardinality(DOMAIN obj) < Cardinality(Vars) + MaxWrappers
  /\ obj' = [p \in DOMAIN obj \cup {Append(w, s)} |->
               IF p = Append(w, s) THEN [own |-> NULL, ext |-> item, trav |-> item] ELSE obj[p]]
  /\ UNCHANGED <<heap, moved>>

Member(w, k) == Wrap(w, k, Lookup(w, k))

Element(w, i) == i >= 0 /\ Wrap(w, i, LookupAt(w, i))

(***************************************************************************)
(* Clear, Parse, copying and moving whole documents                        *)
(***************************************************************************)
Assignable(w) == Len(w) = 1 \/ (Live(w) /\ Unless("assign_member", FALSE))

\* Clear: what w owns and the wrappers below it go, w is about nothing.
Cleared(w) == Delete(heap, Owned(Below(w) \cup {w}))

Becomes(w, h, own) ==
  /\ heap' = h
  /\ obj' = [Without(Below(w)) EXCEPT ![w] = [own |-> own, ext |-> NULL, trav |-> own]]
  /\ moved' = IF Len(w) = 1 THEN moved \ {w[1]} ELSE moved

\* Also what Parse leaves when the text is no JSON
Clear(w) == Assignable(w) /\ Becomes(w, Cleared(w), NULL)

\* A text of an object: its members in order, keys that differ in case among them
Parse(w, doc) ==
  /\ Assignable(w) /\ Cardinality(Free) > Len(doc)
  /\ LET root == First(Free)
         rest == Free \ {root}
         cell == Allocate(DOMAIN doc, rest)
         Parsed(c) == CASE c = root -> [CreateObject EXCEPT !.child = cell]
                        [] c \in Range(cell) ->
                             LET m == doc[AntiFunction(cell)[c]]
                             IN [m.item EXCEPT !.string = m.key]
                        [] OTHER -> Cleared(w)[c]
     IN Becomes(w, [c \in Cells |-> Parsed(c)], root)

\* x.Parse(text of the item n): the text is made before x is cleared.
ParseTextOf(x, n) ==
  /\ Assignable(x)
  /\ IF n = NULL THEN Becomes(x, Cleared(x), NULL)
     ELSE /\ Cardinality(Free) >= Cardinality(Trees(heap, {n}))
          /\ LET copy == Copy(heap, n, Free)
             IN Becomes(x, Delete(copy, Owned(Below(x) \cup {x})), CopyCell(heap, n, Free)[n])

\* operator= and the copy constructor
Assign(x, w) == Live(w) /\ ParseTextOf(x, Focus(w))

\* Get of a CJsonObject: nothing happens when the member is not there.
GetObject(w, k, x) == Live(w) /\ Lookup(w, k) # NULL /\ ParseTextOf(x, Lookup(w, k))
GetObjectAt(w, i, x) == Live(w) /\ LookupAt(w, i) # NULL /\ ParseTextOf(x, LookupAt(w, i))

\* operator=(CJsonObject&&): the wrappers below u are below v from then on.
MoveAssign(v, u) ==
  LET kept == DOMAIN obj \ (Below(<<v>>) \cup Below(<<u>>))
      Rebased(p) == <<u>> \o Tail(p)
      below == {<<v>> \o Tail(p) : p \in Below(<<u>>)}
  IN /\ v # u /\ u \notin moved
     /\ heap' = Cleared(<<v>>)
     /\ obj' = [p \in kept \cup below |->
                  CASE p = <<v>> -> obj[<<u>>]
                    [] p = <<u>> -> Empty
                    [] p \in below -> obj[Rebased(p)]
                    [] OTHER -> obj[p]]
     /\ moved' = moved \ {v}

(***************************************************************************)
(* Traversal                                                               *)
(***************************************************************************)
\* item->next
NextOf(c) ==
  LET Follows(n) == \E p \in Cells : \E i \in 1..(Len(heap[p].child) - 1) :
                      heap[p].child[i] = c /\ heap[p].child[i + 1] = n
      next == {n \in Cells : Follows(n)}
  IN IF next = {} THEN NULL ELSE First(next)

Cursor(w, c) == obj' = [obj EXCEPT ![w].trav = c] /\ UNCHANGED <<heap, moved>>

GetKey(w) ==
  /\ Live(w) /\ ~Is(w, "Array")
  /\ \/ obj[w].trav = NULL /\ Cursor(w, Focus(w))
     \/ /\ obj[w].trav # NULL /\ obj[w].trav = Focus(w)
        /\ heap[Focus(w)].child # <<>>
        /\ Cursor(w, NextOf(heap[Focus(w)].child[1]))
     \/ /\ obj[w].trav \notin {NULL, Focus(w)}
        /\ heap[obj[w].trav].type # "freed"
        /\ Cursor(w, NextOf(obj[w].trav))

ResetTraversing(w) == Live(w) /\ Cursor(w, Focus(w))
=============================================================================
