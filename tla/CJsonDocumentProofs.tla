------------------------ MODULE CJsonDocumentProofs ------------------------
(***************************************************************************)
(* Documents of neb::CJsonObject are values: a call changes the document   *)
(* of one variable, and what lies aside of it, in other documents and in   *)
(* free cells, is not linked from it and does not link to it.              *)
(* A copy, which goes by the text, answers every call as the original did. *)
(***************************************************************************)
EXTENDS CJsonObjectProofs

(***************************************************************************)
(* A call is about one document: the cells S, which are all but those of   *)
(* another variable's document, are where it stays. No list in S has an    *)
(* item that is not in S.                                                  *)
(***************************************************************************)
Shut(h, S) ==
  /\ S \subseteq Cells /\ DOMAIN h = Cells
  /\ \A c \in S : "child" \in DOMAIN h[c] /\ h[c].child \in Seq(S)

\* The memory g is b outside S.
Within(b, g, S) == Shut(g, S) /\ \A c \in Cells \ S : g[c] = b[c]

\* A function of indexes is a list of what it has.
LEMMA FunctionIsList ==
  ASSUME NEW n \in Nat, NEW A, NEW f \in [1..n -> A], NEW S, \A i \in 1..n : f[i] \in S
  PROVE  f \in Seq(S)
  <1>1. f \in [1..n -> S]
    OBVIOUS
  <1> QED  BY <1>1

\* Lists in S: one more item, one item less, one for another
LEMMA ListsWithin ==
  ASSUME NEW S, NEW list \in Seq(S), NEW n \in S, NEW m
  PROVE  /\ Append(list, n) \in Seq(S) /\ <<n>> \o list \in Seq(S)
         /\ list # <<>> => Detached(list, m) \in Seq(S)
         /\ [i \in DOMAIN list |-> IF list[i] = m THEN n ELSE list[i]] \in Seq(S)
  <1>1. /\ Len(list) \in Nat /\ DOMAIN list = 1..Len(list)
        /\ \A i \in 1..Len(list) : list[i] \in S
    OBVIOUS
  <1>2. Append(list, n) \in Seq(S) /\ <<n>> \o list \in Seq(S)
    OBVIOUS
  <1>3. ASSUME list # <<>> PROVE Detached(list, m) \in Seq(S)
    <2>1. PICK at : at = CHOOSE i \in DOMAIN list : list[i] = m
      OBVIOUS
    <2>2. Len(list) - 1 \in Nat
      BY <1>1, <1>3
    <2>3. PICK f : f = [i \in 1..(Len(list) - 1) |-> list[IF i < at THEN i ELSE i + 1]]
      OBVIOUS
    <2>4. \A i \in 1..(Len(list) - 1) : f[i] \in S
      <3> SUFFICES ASSUME NEW i \in 1..(Len(list) - 1) PROVE f[i] \in S
        OBVIOUS
      <3>1. PICK j : j = IF i < at THEN i ELSE i + 1
        OBVIOUS
      <3>2. j \in 1..Len(list) /\ f[i] = list[j]
        BY <1>1, <2>3, <3>1
      <3> QED  BY <1>1, <3>2
    <2>5. f \in [1..(Len(list) - 1) -> S]
      BY <2>3, <2>4
    <2>6. Detached(list, m) = f
      BY <2>1, <2>3 DEF Detached
    <2> QED  BY <2>2, <2>5, <2>6
  <1>4. [i \in DOMAIN list |-> IF list[i] = m THEN n ELSE list[i]] \in Seq(S)
    <2>1. PICK f : f = [i \in 1..Len(list) |-> IF list[i] = m THEN n ELSE list[i]]
      OBVIOUS
    <2>2. f \in [1..Len(list) -> S]
      BY <1>1, <2>1
    <2> QED  BY <1>1, <2>1, <2>2
  <1> QED  BY <1>2, <1>3, <1>4

\* A new item in a cell, a new list or a key for one
LEMMA CellWithin ==
  ASSUME NEW b, NEW h, NEW S, Within(b, h, S), NEW a \in S, NEW x, NEW g,
         \/ g = [h EXCEPT ![a] = x] /\ "child" \in DOMAIN x /\ x.child = <<>>
         \/ g = [h EXCEPT ![a].child = x] /\ x \in Seq(S)
         \/ g = [h EXCEPT ![a].string = x]
  PROVE  Within(b, g, S)
  <1>1. /\ a \in Cells /\ "child" \in DOMAIN h[a] /\ h[a].child \in Seq(S)
        /\ DOMAIN g = Cells /\ \A c \in Cells : c # a => g[c] = h[c]
    BY DEF Within, Shut
  <1>2. "child" \in DOMAIN g[a] /\ g[a].child \in Seq(S)
    <2>1. CASE g = [h EXCEPT ![a] = x] /\ "child" \in DOMAIN x /\ x.child = <<>>
      <3>1. g[a] = x /\ <<>> \in Seq(S)
        BY <1>1, <2>1 DEF Within, Shut
      <3> QED  BY <2>1, <3>1
    <2>2. CASE g = [h EXCEPT ![a].child = x] /\ x \in Seq(S)
      <3>1. g[a] = [h[a] EXCEPT !.child = x]
        BY <1>1, <2>2 DEF Within, Shut
      <3> QED  BY <1>1, <2>2, <3>1
    <2>3. CASE g = [h EXCEPT ![a].string = x]
      <3>1. g[a] = [h[a] EXCEPT !.string = x]
        BY <1>1, <2>3 DEF Within, Shut
      <3> QED  BY <1>1, <3>1
    <2> QED  BY <2>1, <2>2, <2>3
  <1> QED  BY <1>1, <1>2 DEF Within, Shut

\* Freeing
LEMMA DeleteWithin ==
  ASSUME NEW b, NEW h, NEW S, Within(b, h, S), NEW N, N \subseteq S
  PROVE  Within(b, Delete(h, N), S)
  <1>1. Trees(h, N) \subseteq S
    <2>1. \A c \in S : Kids(h, c) \subseteq S
      BY DEF Within, Shut, Kids, Range
    <2> QED  BY <2>1, TreesLeast DEF Within, Shut
  <1>2. PICK g : g = Delete(h, N)
    OBVIOUS
  <1>3. /\ DOMAIN g = Cells
        /\ \A c \in Cells : g[c] = Freed \/ g[c] = h[c]
        /\ \A c \in Cells \ S : g[c] = h[c]
    BY <1>1, <1>2 DEF Delete
  <1>4. "child" \in DOMAIN Freed /\ Freed.child \in Seq(S)
    BY DEF Freed, NewItem
  <1> QED  BY <1>2, <1>3, <1>4 DEF Within, Shut

\* Linking an item
LEMMA LinkWithin ==
  ASSUME NEW b, NEW h, NEW S, Within(b, h, S), NEW a \in S, NEW n \in S
  PROVE  /\ Within(b, AddItemToArray(h, a, n), S) /\ Within(b, AddItemToArrayHead(h, a, n), S)
         /\ \A k : Within(b, AddItemToObject(h, a, k, n), S)
  <1>1. ASSUME NEW g, Within(b, g, S)
        PROVE  Within(b, AddItemToArray(g, a, n), S) /\ Within(b, AddItemToArrayHead(g, a, n), S)
    <2>1. PICK list \in Seq(S) : list = g[a].child
      BY <1>1 DEF Within, Shut
    <2>2. PICK x : x = Append(list, n)
      OBVIOUS
    <2>3. PICK y : y = <<n>> \o list
      OBVIOUS
    <2>4. x \in Seq(S) /\ y \in Seq(S)
      BY <2>2, <2>3, ListsWithin
    <2>5. AddItemToArray(g, a, n) = [g EXCEPT ![a].child = x]
      BY <2>1, <2>2 DEF AddItemToArray
    <2>6. AddItemToArrayHead(g, a, n) = [g EXCEPT ![a].child = y]
      BY <2>1, <2>3 DEF AddItemToArrayHead
    <2>7. Within(b, [g EXCEPT ![a].child = x], S) /\ Within(b, [g EXCEPT ![a].child = y], S)
      BY <1>1, <2>4, CellWithin
    <2> QED  BY <2>5, <2>6, <2>7
  <1>2. ASSUME NEW k
        PROVE  Within(b, AddItemToObject(h, a, k, n), S)
    <2>1. PICK g : g = [h EXCEPT ![n].string = k]
      OBVIOUS
    <2>2. Within(b, g, S)
      BY <2>1, CellWithin
    <2> QED  BY <1>1, <2>1, <2>2 DEF AddItemToObject
  <1> QED  BY <1>1, <1>2

\* Deleting and replacing one that is in the list
LEMMA UnlinkWithin ==
  ASSUME NEW b, NEW h, NEW S, Within(b, h, S), NEW a \in S,
         NEW n, n = NULL \/ n \in Kids(h, a), NEW m \in S
  PROVE  Within(b, DeleteItem(h, a, n), S) /\ Within(b, ReplaceItem(h, a, n, m), S)
  <1>1. PICK list \in Seq(S) : list = h[a].child
    BY DEF Within, Shut
  <1>2. CASE n = NULL
    BY <1>2 DEF DeleteItem, ReplaceItem
  <1>3. CASE n # NULL
    <2>1. n \in S /\ list # <<>>
      BY <1>1, <1>3 DEF Kids, Range
    <2>2. PICK x : x = Detached(list, n)
      OBVIOUS
    <2>3. PICK y : y = [i \in DOMAIN list |-> IF list[i] = n THEN m ELSE list[i]]
      OBVIOUS
    <2>4. x \in Seq(S) /\ y \in Seq(S)
      BY <2>1, <2>2, <2>3, ListsWithin
    <2>5. DeleteItem(h, a, n) = Delete([h EXCEPT ![a].child = x], {n})
      BY <1>1, <1>3, <2>2 DEF DeleteItem
    <2>6. ReplaceItem(h, a, n, m) = Delete([h EXCEPT ![a].child = y], {n})
      BY <1>1, <1>3, <2>3 DEF ReplaceItem
    <2>7. Within(b, [h EXCEPT ![a].child = x], S) /\ Within(b, [h EXCEPT ![a].child = y], S)
      BY <2>4, CellWithin
    <2> QED  BY <2>1, <2>5, <2>6, <2>7, DeleteWithin
  <1> QED  BY <1>2, <1>3

\* Replacing a member
LEMMA ReplaceWithin ==
  ASSUME NEW b, NEW h \in Memories, NEW S, Within(b, h, S), NEW a \in S, NEW k, NEW m \in S
  PROVE  Within(b, ReplaceItemInObject(h, a, k, m), S)
  <1>1. PICK g : g = [h EXCEPT ![m].string = k]
    OBVIOUS
  <1>2. PICK n : n = GetObjectItem(h, a, k)
    OBVIOUS
  <1>3. Within(b, g, S)
    BY <1>1, CellWithin
  <1>4. n = NULL \/ n \in Kids(g, a)
    <2>1. a \in Cells /\ m \in Cells
      BY DEF Within, Shut
    <2>2. g[a].child = h[a].child
      BY <1>1, <2>1 DEF Memories, Item
    <2> QED  BY <1>2, <2>1, <2>2, FoundIsKid DEF Kids
  <1>5. ReplaceItemInObject(h, a, k, m) = IF n = NULL THEN h ELSE ReplaceItem(g, a, n, m)
    BY <1>1, <1>2 DEF ReplaceItemInObject
  <1> QED  BY <1>3, <1>4, <1>5, UnlinkWithin

\* Copying a tree, wherever it is
LEMMA CopyWithin ==
  ASSUME NEW b, NEW h \in Memories, NEW S, Within(b, h, S), NEW n \in Cells, NEW free, free \subseteq S,
         Cardinality(free) >= Cardinality(Trees(h, {n}))
  PROVE  Within(b, Copy(h, n, free), S) /\ CopyCell(h, n, free)[n] \in free
  <1>1. PICK T : T = Trees(h, {n})
    OBVIOUS
  <1>2. T \subseteq Cells /\ n \in T /\ \A m \in T : Kids(h, m) \subseteq T
    <2>1. PICK N : N = {n}
      OBVIOUS
    <2> QED  BY <1>1, <2>1, TreesHold
  <1>3. PICK at : at = CopyCell(h, n, free)
    OBVIOUS
  <1>4. at \in [T -> free] /\ IsInjective(at)
    <2>1. free \subseteq Cells
      BY DEF Within, Shut
    <2>2. IsFiniteSet(T) /\ IsFiniteSet(free)
      BY <1>2, <2>1, FS_Subset, CellsAssumption
    <2>3. Cardinality(T) \in Nat /\ Cardinality(free) \in Nat
      BY <2>2, FS_CardinalityType
    <2>4. Cardinality(T) <= Cardinality(free)
      BY <1>1, <2>3
    <2> QED  BY <2>2, <2>4, <1>1, <1>3, Allocated DEF CopyCell
  <1>5. PICK from : from = AntiFunction(at)
    OBVIOUS
  <1>6. DOMAIN from \subseteq free /\ \A c \in DOMAIN from : from[c] \in T
    <2>1. DOMAIN at = T /\ Range(at) \subseteq free
      BY <1>4 DEF Range
    <2>2. DOMAIN from = Range(at) /\ \A c \in Range(at) : from[c] \in T
      BY <1>4, <1>5, <2>1, AntiOf
    <2> QED  BY <2>1, <2>2
  <1> DEFINE Copied(m) == [Reparsed(h[m]) EXCEPT
                            !.string = IF m = n THEN NoKey ELSE h[m].string,
                            !.child = [i \in DOMAIN h[m].child |-> at[h[m].child[i]]]]
  <1>7. PICK g : g = [c \in Cells |-> IF c \in DOMAIN from THEN Copied(from[c]) ELSE h[c]]
    OBVIOUS
  <1>8. g = Copy(h, n, free)
    BY <1>3, <1>5, <1>7 DEF Copy
  <1>9. ASSUME NEW m \in T PROVE "child" \in DOMAIN Copied(m) /\ Copied(m).child \in Seq(S)
    <2>1. h[m].child \in Seq(Cells) /\ \A i \in DOMAIN h[m].child : h[m].child[i] \in T
      <3>1. m \in Cells
        BY <1>2
      <3>2. h[m].child \in Seq(Cells) /\ \A i \in DOMAIN h[m].child : h[m].child[i] \in Kids(h, m)
        BY <3>1, KidsAreCells
      <3> QED  BY <1>2, <3>2
    <2>2. PICK list : list = [i \in DOMAIN h[m].child |-> at[h[m].child[i]]]
      OBVIOUS
    <2>3. list \in Seq(S)
      <3>1. PICK len \in Nat : DOMAIN h[m].child = 1..len
        BY <2>1
      <3>2. \A i \in 1..len : list[i] \in S
        BY <1>4, <2>1, <2>2, <3>1
      <3>3. list \in [1..len -> S]
        BY <2>2, <3>1, <3>2
      <3> QED  BY <3>3
    <2>4. PICK it : it = Reparsed(h[m])
      OBVIOUS
    <2>5. "child" \in DOMAIN it
      <3>1. CASE IsNumber(h[m])
        <4>1. PICK p : p = ParseNumber(PrintNumber(h[m]))
          OBVIOUS
        <4>2. "child" \in DOMAIN p
          BY <4>1 DEF ParseNumber, NewItem
        <4>3. it = [p EXCEPT !.number = h[m].number]
          BY <2>4, <3>1, <4>1 DEF Reparsed
        <4> QED  BY <4>2, <4>3
      <3>2. CASE ~IsNumber(h[m])
        <4>1. "child" \in DOMAIN h[m]
          BY <1>2 DEF Memories, Item
        <4>2. PICK x : x = IF h[m].type = "True" THEN 1 ELSE 0
          OBVIOUS
        <4>3. it = [h[m] EXCEPT !.sign = 0, !.valueint = x]
          BY <2>4, <3>2, <4>2 DEF Reparsed
        <4> QED  BY <4>1, <4>3
      <3> QED  BY <3>1, <3>2
    <2>6. PICK key : key = IF m = n THEN NoKey ELSE h[m].string
      OBVIOUS
    <2>7. PICK new : new = Copied(m)
      OBVIOUS
    <2>8. new = [it EXCEPT !.string = key, !.child = list]
      BY <2>2, <2>4, <2>6, <2>7
    <2>9. "child" \in DOMAIN new /\ new.child = list
      <3> HIDE DEF Copied
      <3> QED  BY <2>5, <2>8
    <2> QED  BY <2>3, <2>7, <2>9
  <1> HIDE DEF Copied
  <1>10. \A c \in Cells \ S : g[c] = h[c]
    BY <1>6, <1>7
  <1>11. \A c \in S : "child" \in DOMAIN g[c] /\ g[c].child \in Seq(S)
    <2> SUFFICES ASSUME NEW c \in S PROVE "child" \in DOMAIN g[c] /\ g[c].child \in Seq(S)
      OBVIOUS
    <2>1. c \in Cells
      BY DEF Within, Shut
    <2>2. CASE c \in DOMAIN from
      BY <1>6, <1>7, <1>9, <2>1, <2>2
    <2>3. CASE c \notin DOMAIN from
      BY <1>7, <2>1, <2>3 DEF Within, Shut
    <2> QED  BY <2>2, <2>3
  <1>12. at[n] \in free
    BY <1>2, <1>4
  <1> QED  BY <1>3, <1>7, <1>8, <1>10, <1>11, <1>12 DEF Within, Shut

\* Parsing a text
LEMMA ParseWithin ==
  ASSUME NEW b, NEW h, NEW S, Within(b, h, S), NEW free, free \subseteq S, NEW root \in free,
         NEW doc \in Documents, Len(doc) < Cardinality(free),
         NEW cell, cell = Allocate(DOMAIN doc, free \ {root})
  PROVE  Within(b, ParsedMemory(h, doc, root, cell), S)
  <1>1. free \subseteq Cells
    BY DEF Within, Shut
  <1>2. /\ cell \in [DOMAIN doc -> free \ {root}] /\ IsInjective(cell)
        /\ DOMAIN doc = 1..Len(doc) /\ Len(doc) \in Nat
        /\ \A i \in DOMAIN doc : doc[i].item \in Item /\ doc[i].item.child = <<>>
    BY <1>1, MembersPlaced
  <1>3. cell \in Seq(S)
    <2>1. PICK len \in Nat : len = Len(doc)
      BY <1>2
    <2>2. cell \in [1..len -> free \ {root}]
      BY <1>2, <2>1
    <2>3. \A i \in 1..len : cell[i] \in S
      BY <2>2
    <2> QED  BY <2>1, <2>2, <2>3, FunctionIsList
  <1>4. Range(cell) \subseteq S /\ root \in S /\ root \notin Range(cell)
    BY <1>2 DEF Range
  <1>5. \A c \in Range(cell) : AntiFunction(cell)[c] \in DOMAIN doc
    BY <1>2, AntiOf
  <1>6. PICK g : g = ParsedMemory(h, doc, root, cell)
    OBVIOUS
  <1>7. g[root] = [CreateObject EXCEPT !.child = cell]
    BY <1>1, <1>4, <1>6 DEF ParsedMemory
  <1>8. ASSUME NEW c \in Range(cell) PROVE "child" \in DOMAIN g[c] /\ g[c].child = <<>>
    <2>1. PICK i \in DOMAIN doc : i = AntiFunction(cell)[c]
      BY <1>5
    <2>2. g[c] = [doc[i].item EXCEPT !.string = doc[i].key]
      BY <1>1, <1>4, <1>6, <1>8, <2>1 DEF ParsedMemory, Within, Shut
    <2> QED  BY <1>2, <2>2 DEF Item
  <1>9. \A c \in Cells : c # root /\ c \notin Range(cell) => g[c] = h[c]
    BY <1>6 DEF ParsedMemory
  <1>10. "child" \in DOMAIN g[root] /\ g[root].child = cell
    BY <1>7 DEF CreateObject, NewItem
  <1>11. <<>> \in Seq(S) /\ DOMAIN g = Cells
    BY <1>6 DEF ParsedMemory
  <1>12. \A c \in Cells \ S : g[c] = b[c]
    BY <1>4, <1>9 DEF Within
  <1>13. ASSUME NEW c \in S PROVE "child" \in DOMAIN g[c] /\ g[c].child \in Seq(S)
    <2>1. c \in Cells
      BY DEF Within, Shut
    <2>2. CASE c = root
      BY <1>3, <1>10, <2>2
    <2>3. CASE c \in Range(cell)
      BY <1>8, <1>11, <2>3
    <2>4. CASE c # root /\ c \notin Range(cell)
      BY <1>9, <2>1, <2>4 DEF Within, Shut
    <2> QED  BY <2>2, <2>3, <2>4
  <1> QED  BY <1>6, <1>11, <1>12, <1>13 DEF Within, Shut

(***************************************************************************)
(* What lies aside of the document of the variable v                       *)
(***************************************************************************)
Aside(v) == Cells \ Trees(heap, {obj[<<v>>].own})

\* Where calls through the wrappers of other variables find themselves
Bystander(v, S) ==
  /\ Within(heap, heap, S) /\ Free \subseteq S
  /\ \A w \in DOMAIN obj : w # <<v>> => obj[w].own \in S \cup {NULL}
  /\ \A w \in DOMAIN obj : w[1] # v /\ Live(w) /\ Focus(w) # NULL => Focus(w) \in S

\* Free cells, other wrappers' documents and what other variables' wrappers are
\* about: all that is aside, and no list leads from there into the document.
LEMMA AsideOf ==
  ASSUME WrappersOK(obj), NEW X, Sound(heap, obj, moved, X),
         NEW v \in Vars, obj[<<v>>].own # NULL
  PROVE  Bystander(v, Aside(v))
  <1>1. PICK r : r = obj[<<v>>].own
    OBVIOUS
  <1>2. PICK z : z = <<v>>
    OBVIOUS
  <1>3. PICK A : A = {r}
    OBVIOUS
  <1>4. PICK T : T = Trees(heap, A)
    OBVIOUS
  <1>5. PICK S : S = Cells \ T
    OBVIOUS
  <1>6. S = Aside(v)
    BY <1>1, <1>3, <1>4, <1>5 DEF Aside
  <1>7. PICK R : R = Roots(obj) \cup X
    OBVIOUS
  <1>8. heap \in Memories /\ Tidy(heap, R)
    BY <1>7 DEF Sound
  <1>9. z \in DOMAIN obj /\ r = obj[z].own /\ r # NULL /\ z[1] = v
    BY <1>1, <1>2 DEF WrappersOK
  <1>10. r \in Roots(obj) /\ r \in R /\ A \subseteq R /\ R \subseteq Cells /\ A \subseteq Cells
    BY <1>3, <1>7, <1>8, <1>9 DEF Roots, Tidy
  <1>11. \A c \in T : c \in Cells /\ (c = r \/ \E d \in T : c \in Kids(heap, d))
    BY <1>3, <1>4, <1>8, <1>10, TreesHold, TreesFrom
  <1>12. \A c \in T : Alive(heap, c)
    BY <1>8, <1>10, <1>11 DEF Tidy
  <1>13. Within(heap, heap, S)
    <2>1. ASSUME NEW c \in S PROVE "child" \in DOMAIN heap[c] /\ heap[c].child \in Seq(S)
      <3>1. c \in Cells /\ c \notin T
        BY <1>5
      <3>2. "child" \in DOMAIN heap[c]
        BY <1>8, <3>1 DEF Memories, Item
      <3>3. heap[c].child \in Seq(Cells) /\ \A i \in DOMAIN heap[c].child : heap[c].child[i] \in Kids(heap, c)
        BY <1>8, <3>1, KidsAreCells
      <3>4. ASSUME NEW d \in Kids(heap, c) PROVE d \in S
        <4>1. d \in Cells /\ d # r
          BY <1>8, <1>10, <3>1, KidsAreCells DEF Tidy
        <4>2. ASSUME d \in T PROVE FALSE
          <5>1. PICK e \in T : d \in Kids(heap, e)
            BY <1>11, <4>1, <4>2
          <5>2. e \in Cells /\ e = c
            BY <1>8, <1>11, <3>1, <5>1, <3>4 DEF Tidy
          <5> QED  BY <3>1, <5>2
        <4> QED  BY <1>5, <4>1, <4>2
      <3>5. PICK list : list = heap[c].child
        OBVIOUS
      <3>6. PICK len \in Nat : list \in [1..len -> Cells] /\ \A i \in 1..len : list[i] \in S
        <4>1. list \in Seq(Cells) /\ \A i \in DOMAIN list : list[i] \in S
          BY <3>3, <3>4, <3>5
        <4> QED  BY <4>1
      <3>7. list \in Seq(S)
        BY <3>6, FunctionIsList
      <3> QED  BY <3>2, <3>5, <3>7
    <2> QED  BY <1>5, <1>8, <2>1 DEF Within, Shut, Memories
  <1>14. Free \subseteq S
    BY <1>5, <1>12, FreeCells
  <1>15. ASSUME NEW B, B \subseteq R, r \notin B PROVE Trees(heap, B) \subseteq S
    <2>1. Trees(heap, A) \cap Trees(heap, B) = {}
      BY <1>3, <1>8, <1>10, <1>15, TreesApart
    <2>2. Trees(heap, B) \subseteq Cells
      BY DEF Trees
    <2> QED  BY <1>4, <1>5, <2>1, <2>2
  <1>16. ASSUME NEW w \in DOMAIN obj, w # z, obj[w].own # NULL PROVE obj[w].own \in S
    <2>1. PICK s : s = obj[w].own
      OBVIOUS
    <2>2. s # r /\ s \in R
      BY <1>7, <1>9, <1>16, <2>1 DEF Sound, Roots
    <2>3. PICK B : B = {s}
      OBVIOUS
    <2>4. B \subseteq R /\ r \notin B /\ B \subseteq Cells
      BY <1>10, <2>2, <2>3
    <2>5. s \in Trees(heap, B)
      BY <1>8, <2>3, <2>4, TreesHold
    <2> QED  BY <1>15, <2>1, <2>4, <2>5
  <1>17. ASSUME NEW w \in DOMAIN obj, w[1] # v, Live(w), Focus(w) # NULL PROVE Focus(w) \in S
    <2>1. PICK B : B = OwnsOf(obj, w[1])
      OBVIOUS
    <2>2. Focus(w) \in Trees(heap, B)
      BY <1>17, <2>1, FocusOwned
    <2>3. B \subseteq R
      BY <1>7, <2>1, OwnsAreRoots
    <2>4. r \notin B
      <3> SUFFICES ASSUME r \in B PROVE FALSE
        OBVIOUS
      <3>1. PICK p \in DOMAIN obj : p[1] = w[1] /\ obj[p].own = r
        BY <2>1 DEF OwnsOf
      <3>2. p = z
        BY <1>9, <3>1 DEF Sound
      <3> QED  BY <1>9, <1>17, <3>1, <3>2
    <2> QED  BY <1>15, <2>2, <2>3, <2>4
  <1> QED  BY <1>2, <1>6, <1>13, <1>14, <1>16, <1>17 DEF Bystander

\* So a call that stays aside leaves the document as it is.
LEMMA ContentStays ==
  ASSUME heap \in Memories, NEW v \in Vars, obj[<<v>>].own \in Cells,
         obj'[<<v>>].own = obj[<<v>>].own, Within(heap, heap', Aside(v))
  PROVE  Content(v)' = Content(v)
  <1>1. PICK r : r = obj[<<v>>].own
    OBVIOUS
  <1>2. PICK T : T = Trees(heap, {r})
    OBVIOUS
  <1>3. PICK g : g = heap'
    OBVIOUS
  <1>4. PICK U : U = Trees(g, {r})
    OBVIOUS
  <1>5. r # NULL /\ r \in Cells
    BY <1>1, CellsAssumption
  <1>6. {r} \subseteq T /\ T \subseteq Cells /\ \A c \in T : Kids(heap, c) \subseteq T
    BY <1>2, <1>5, TreesHold
  <1>7. \A c \in T : g[c] = heap[c]
    BY <1>1, <1>2, <1>3, <1>6 DEF Within, Aside
  <1>8. U \subseteq T
    <2>1. \A c \in T : Kids(g, c) \subseteq T
      BY <1>6, <1>7 DEF Kids
    <2> QED  BY <1>4, <1>6, <2>1, TreesLeast
  <1>9. T \subseteq U
    <2>1. \A S \in Closed(g) : \A c \in S : Kids(g, c) \subseteq S
      BY DEF Closed, Kids
    <2>2. U \subseteq Cells /\ {r} \subseteq U
      BY <1>4, <1>5 DEF Trees
    <2>3. \A c \in U : Kids(g, c) \subseteq U
      <3> SUFFICES ASSUME NEW c \in U, NEW d \in Kids(g, c) PROVE d \in U
        OBVIOUS
      <3>1. d \in Cells
        BY <1>6, <1>7, <1>8 DEF Kids
      <3>2. \A S \in Closed(g) : {r} \subseteq S => d \in S
        BY <1>4, <2>1 DEF Trees
      <3> QED  BY <1>4, <3>1, <3>2 DEF Trees
    <2>4. \A c \in U : Kids(heap, c) \subseteq U
      BY <1>7, <1>8, <2>3 DEF Kids
    <2> QED  BY <1>2, <2>2, <2>4, TreesLeast
  <1>10. T = U
    BY <1>8, <1>9
  <1>11. Content(v) = {<<c, heap[c]>> : c \in T}
    BY <1>1, <1>2, <1>5 DEF Content
  <1>12. Content(v)' = {<<c, g[c]>> : c \in U}
    BY <1>1, <1>3, <1>4, <1>5 DEF Content
  <1>13. {<<c, heap[c]>> : c \in T} = {<<c, g[c]>> : c \in U}
    BY <1>7, <1>10
  <1> QED  BY <1>11, <1>12, <1>13

(***************************************************************************)
(* The calls of other variables' wrappers                                  *)
(***************************************************************************)
\* What other wrappers own is aside.
LEMMA OwnedAside ==
  ASSUME NEW v \in Vars, NEW S, Bystander(v, S), NEW P, P \subseteq DOMAIN obj, <<v>> \notin P
  PROVE  Owned(P) \subseteq S
  BY DEF Owned, Bystander

\* Opening another wrapper
LEMMA OpenedAside ==
  ASSUME NEW v \in Vars, NEW S, Bystander(v, S), NEW w \in DOMAIN obj, w[1] # v, Live(w),
         NEW n \in Nat, Room(w, n), NEW root \in {CreateObject, CreateArray}
  PROVE  /\ Within(heap, Opened(w, root), S) /\ At(w) \in S /\ Rest(w) \subseteq S
         /\ Cardinality(Rest(w)) >= n
         /\ n >= 1 => First(Rest(w)) \in S
  <1>1. Free \subseteq Cells /\ IsFiniteSet(Free) /\ Cardinality(Free) \in Nat /\ Free \subseteq S
    BY FreeCells DEF Bystander
  <1>2. CASE Focus(w) = NULL
    <2>1. Cardinality(Free) >= 1 /\ Cardinality(Free) >= n + 1
      BY <1>1, <1>2 DEF Room
    <2>2. First(Free) \in S /\ Cardinality(Free \ {First(Free)}) = Cardinality(Free) - 1
      BY <1>1, <2>1, FirstFree
    <2>3. PICK a : a = First(Free)
      OBVIOUS
    <2>4. Within(heap, [heap EXCEPT ![a] = root], S)
      <3>1. "child" \in DOMAIN root /\ root.child = <<>>
        BY DEF CreateObject, CreateArray, NewItem
      <3> QED  BY <2>2, <2>3, <3>1, CellWithin DEF Bystander
    <2>5. Cardinality(Rest(w)) >= n /\ Rest(w) \subseteq Free
      BY <1>1, <1>2, <2>1, <2>2 DEF Rest
    <2>6. n >= 1 => First(Rest(w)) \in S
      <3> SUFFICES ASSUME n >= 1 PROVE First(Rest(w)) \in S
        OBVIOUS
      <3>1. Cardinality(Rest(w)) \in Nat
        BY <1>1, <2>5, FS_Subset, FS_CardinalityType
      <3>2. Cardinality(Rest(w)) >= 1 /\ Rest(w) \subseteq Cells
        BY <1>1, <2>5, <3>1
      <3> QED  BY <1>1, <2>5, <3>2, FirstFree
    <2> QED  BY <1>1, <1>2, <2>2, <2>3, <2>4, <2>5, <2>6 DEF Opened, At
  <1>3. CASE Focus(w) # NULL
    <2>1. Cardinality(Free) >= n
      BY <1>1, <1>3 DEF Room
    <2>2. n >= 1 => First(Free) \in S
      BY <1>1, <2>1, FirstFree
    <2> QED  BY <1>1, <1>3, <2>1, <2>2 DEF Opened, At, Rest, Bystander
  <1> QED  BY <1>2, <1>3

\* And copying into it
LEMMA OpenedCopyAside ==
  ASSUME WrappersOK(obj), NEW X, Sound(heap, obj, moved, X),
         NEW v \in Vars, NEW S, Bystander(v, S), NEW w \in DOMAIN obj, w[1] # v, Live(w),
         NEW x \in DOMAIN obj, Live(x), Focus(x) # NULL, Room(w, TreeSize(x)),
         NEW root \in {CreateObject, CreateArray}
  PROVE  /\ Within(heap, Copy(Opened(w, root), Focus(x), Rest(w)), S) /\ At(w) \in S
         /\ CopyCell(heap, Focus(x), Rest(w))[Focus(x)] \in S
  <1>1. PICK h : h = Opened(w, root)
    OBVIOUS
  <1>2. PICK m \in Cells : m = Focus(x)
    BY FocusIsItem
  <1>3. PICK n \in Nat : n = TreeSize(x)
    <2>1. Trees(heap, {Focus(x)}) \subseteq Cells
      BY DEF Trees
    <2> QED  BY <2>1, CellsAssumption, FS_Subset, FS_CardinalityType DEF TreeSize
  <1>4. /\ Within(heap, h, S) /\ At(w) \in S /\ Rest(w) \subseteq S /\ Cardinality(Rest(w)) >= n
    BY <1>1, <1>3, OpenedAside
  <1>5. heap \in Memories
    BY DEF Sound
  <1>6. h \in Memories /\ \A c \in Cells : h[c].child = heap[c].child
    <2>1. CASE Focus(w) = NULL
      <3>1. PICK a : a = First(Free)
        OBVIOUS
      <3>2. h = [heap EXCEPT ![a] = root]
        BY <1>1, <2>1, <3>1 DEF Opened
      <3>3. a \in Free
        <4>1. Free \subseteq Cells /\ Cardinality(Free) >= 1
          BY <1>3, <2>1, FreeCells DEF Room
        <4> QED  BY <3>1, <4>1, FirstFree
      <3>4. a \in Cells /\ heap[a].type = "freed"
        BY <3>3 DEF Free
      <3>5. heap[a].child = <<>>
        BY <3>4 DEF Sound, Tidy
      <3>6. root \in Item /\ root.child = <<>>
        BY RootsMade
      <3> QED  BY <1>5, <3>2, <3>4, <3>5, <3>6 DEF Memories
    <2>2. CASE Focus(w) # NULL
      BY <1>1, <1>5, <2>2 DEF Opened
    <2> QED  BY <2>1, <2>2
  <1>7. Trees(h, {m}) = Trees(heap, {m})
    BY <1>6, SameTrees
  <1>8. Cardinality(Rest(w)) >= Cardinality(Trees(h, {m}))
    BY <1>2, <1>3, <1>4, <1>7 DEF TreeSize
  <1>9. Within(heap, Copy(h, m, Rest(w)), S) /\ CopyCell(h, m, Rest(w))[m] \in Rest(w)
    BY <1>4, <1>6, <1>8, CopyWithin
  <1>10. CopyCell(h, m, Rest(w)) = CopyCell(heap, m, Rest(w))
    BY <1>7 DEF CopyCell
  <1> QED  BY <1>1, <1>2, <1>4, <1>9, <1>10

\* The wrappers a call drops are no variables.
LEMMA DroppedAside ==
  ASSUME NEW v \in Vars, NEW S, Bystander(v, S), NEW gone, Droppable(gone)
  PROVE  Owned(gone) \subseteq S
  BY OwnedAside DEF Droppable

\* A new item
LEMMA MadeAside ==
  ASSUME NEW b, NEW h, NEW S, Within(b, h, S), NEW n \in S, NEW item, Scalar(item)
  PROVE  Within(b, [h EXCEPT ![n] = item], S)
  <1>1. "child" \in DOMAIN item /\ item.child = <<>>
    BY DEF Scalar, Item
  <1> QED  BY <1>1, CellWithin

\* Add of a value, under a key and in an array
LEMMA AddsWithin ==
  ASSUME WrappersOK(obj), NEW X, Sound(heap, obj, moved, X), NEW w \in DOMAIN obj,
         NEW v \in Vars, v # w[1], NEW S, Bystander(v, S)
  PROVE  /\ \A k, item : Scalar(item) /\ AddScalar(w, k, item) => Within(heap, heap', S)
         /\ \A item, first : Scalar(item) /\ PutScalar(w, item, first) => Within(heap, heap', S)
         /\ \A root \in {CreateObject, CreateArray} : AddNothing(w, root) => Within(heap, heap', S)
         /\ \A k : \A x \in DOMAIN obj : AddCopy(w, k, x) => Within(heap, heap', S)
         /\ \A first : \A x \in DOMAIN obj : PutCopy(w, x, first) => Within(heap, heap', S)
         /\ \A k : \A u \in Vars : u # v /\ AddMove(w, k, u) => Within(heap, heap', S)
         /\ \A first : \A u \in Vars : u # v /\ PutMove(w, u, first) => Within(heap, heap', S)
  <1>1. ASSUME NEW h, Within(heap, h, S), At(w) \in S, NEW n \in S, NEW g,
               \/ \E k : g = AddItemToObject(h, At(w), k, n)
               \/ \E first : g = Put(h, At(w), n, first),
               NEW gone, Droppable(gone), NEW f, f = Delete(g, Owned(gone))
        PROVE  Within(heap, f, S)
    <2>1. Within(heap, g, S)
      BY <1>1, LinkWithin DEF Put
    <2> QED  BY <1>1, <2>1, DroppedAside, DeleteWithin
  <1>2. \A K : Droppable(Cached(w, K)) /\ Droppable({})
    BY CachedDroppable
  <1>3. \A first : Droppable(Shifted(w, first))
    BY ShiftedDroppable
  <1>4. ASSUME NEW item, Scalar(item), NEW root \in {CreateObject, CreateArray}, Live(w), Room(w, 1),
               NEW n, n = First(Rest(w)), NEW h, h = [Opened(w, root) EXCEPT ![n] = item]
        PROVE  Within(heap, h, S) /\ At(w) \in S /\ n \in S
    <2>1. Within(heap, Opened(w, root), S) /\ At(w) \in S /\ n \in S
      BY <1>4, OpenedAside
    <2> QED  BY <1>4, <2>1, MadeAside
  <1>5. ASSUME NEW root \in {CreateObject, CreateArray}, Live(w), Room(w, 0)
        PROVE  Within(heap, Opened(w, root), S) /\ At(w) \in S
    BY <1>5, OpenedAside
  <1>6. ASSUME NEW root \in {CreateObject, CreateArray}, AddNothing(w, root)
        PROVE  Within(heap, heap', S)
    <2>1. heap' = Delete(Opened(w, root), Owned({})) /\ Live(w) /\ Room(w, 0)
      BY <1>6 DEF AddNothing, Leaves
    <2> QED  BY <1>2, <1>5, <2>1, DroppedAside, DeleteWithin
  <1>7. ASSUME NEW k, NEW item, Scalar(item), AddScalar(w, k, item) PROVE Within(heap, heap', S)
    <2>1. PICK n : n = First(Rest(w))
      OBVIOUS
    <2>2. PICK h : h = [Opened(w, CreateObject) EXCEPT ![n] = item]
      OBVIOUS
    <2>3. PICK g : g = AddItemToObject(h, At(w), k, n)
      OBVIOUS
    <2>4. heap' = Delete(g, Owned({})) /\ Live(w) /\ Room(w, 1)
      BY <1>7, <2>1, <2>2, <2>3 DEF AddScalar, CanAdd, Leaves
    <2>5. Within(heap, h, S) /\ At(w) \in S /\ n \in S
      BY <1>4, <1>7, <2>1, <2>2, <2>4
    <2> QED  BY <1>1, <1>2, <2>3, <2>4, <2>5
  <1>8. ASSUME NEW item, NEW first, Scalar(item), PutScalar(w, item, first)
        PROVE  Within(heap, heap', S)
    <2>1. PICK n : n = First(Rest(w))
      OBVIOUS
    <2>2. PICK h : h = [Opened(w, CreateArray) EXCEPT ![n] = item]
      OBVIOUS
    <2>3. PICK g : g = Put(h, At(w), n, first)
      OBVIOUS
    <2>4. heap' = Delete(g, Owned({})) /\ Live(w) /\ Room(w, 1)
      BY <1>8, <2>1, <2>2, <2>3 DEF PutScalar, CanPut, Leaves
    <2>5. Within(heap, h, S) /\ At(w) \in S /\ n \in S
      BY <1>4, <1>8, <2>1, <2>2, <2>4
    <2> QED  BY <1>1, <1>2, <2>3, <2>4, <2>5
  <1>9. ASSUME NEW x \in DOMAIN obj, Live(w), Live(x), Focus(x) # NULL, Room(w, TreeSize(x)),
               NEW root \in {CreateObject, CreateArray},
               NEW h, h = Copy(Opened(w, root), Focus(x), Rest(w)),
               NEW n, n = CopyCell(heap, Focus(x), Rest(w))[Focus(x)]
        PROVE  Within(heap, h, S) /\ At(w) \in S /\ n \in S
    BY <1>9, OpenedCopyAside
  <1>10. ASSUME NEW k, NEW x \in DOMAIN obj, AddCopy(w, k, x) PROVE Within(heap, heap', S)
    <2>1. CASE Focus(x) = NULL
      BY <1>6, <1>10, <2>1 DEF AddCopy
    <2>2. CASE Focus(x) # NULL
      <3>1. PICK h : h = Copy(Opened(w, CreateObject), Focus(x), Rest(w))
        OBVIOUS
      <3>2. PICK n : n = CopyCell(heap, Focus(x), Rest(w))[Focus(x)]
        OBVIOUS
      <3>3. PICK g : g = AddItemToObject(h, At(w), k, n)
        OBVIOUS
      <3>4. /\ heap' = Delete(g, Owned(Cached(w, {k})))
            /\ Room(w, TreeSize(x)) /\ Live(w) /\ Live(x)
        BY <1>10, <2>2, <3>1, <3>2, <3>3 DEF AddCopy, CanAdd, Leaves
      <3>5. Within(heap, h, S) /\ At(w) \in S /\ n \in S
        BY <1>9, <2>2, <3>1, <3>2, <3>4
      <3> QED  BY <1>1, <1>2, <3>3, <3>4, <3>5
    <2> QED  BY <2>1, <2>2
  <1>11. ASSUME NEW first, NEW x \in DOMAIN obj, PutCopy(w, x, first) PROVE Within(heap, heap', S)
    <2>1. CASE Focus(x) = NULL
      BY <1>6, <1>11, <2>1 DEF PutCopy
    <2>2. CASE Focus(x) # NULL
      <3>1. PICK h : h = Copy(Opened(w, CreateArray), Focus(x), Rest(w))
        OBVIOUS
      <3>2. PICK n : n = CopyCell(heap, Focus(x), Rest(w))[Focus(x)]
        OBVIOUS
      <3>3. PICK g : g = Put(h, At(w), n, first)
        OBVIOUS
      <3>4. /\ heap' = Delete(g, Owned(Shifted(w, first)))
            /\ Room(w, TreeSize(x)) /\ Live(w) /\ Live(x)
        BY <1>11, <2>2, <3>1, <3>2, <3>3 DEF PutCopy, CanPut, Leaves
      <3>5. Within(heap, h, S) /\ At(w) \in S /\ n \in S
        BY <1>9, <2>2, <3>1, <3>2, <3>4
      <3> QED  BY <1>1, <1>3, <3>3, <3>4, <3>5
    <2> QED  BY <2>1, <2>2
  <1>12. ASSUME NEW u \in Vars, u # v, obj[<<u>>].own # NULL
         PROVE  obj[<<u>>].own \in S
    <2>1. <<u>> \in DOMAIN obj /\ <<u>> # <<v>>
      BY <1>12 DEF WrappersOK
    <2> QED  BY <1>12, <2>1 DEF Bystander
  <1>13. ASSUME NEW k, NEW u \in Vars, u # v, AddMove(w, k, u) PROVE Within(heap, heap', S)
    <2>1. CASE AddNothing(w, CreateObject)
      BY <1>6, <2>1
    <2>2. CASE ~AddNothing(w, CreateObject)
      <3>1. PICK h : h = Opened(w, CreateObject)
        OBVIOUS
      <3>2. PICK n : n = obj[<<u>>].own
        OBVIOUS
      <3>3. PICK g : g = AddItemToObject(h, At(w), k, n)
        OBVIOUS
      <3>4. heap' = Delete(g, Owned(Cached(w, {k}))) /\ n # NULL /\ Live(w) /\ Room(w, 0)
        BY <1>13, <2>2, <3>1, <3>2, <3>3 DEF AddMove, CanAdd
      <3>5. Within(heap, h, S) /\ At(w) \in S /\ n \in S
        BY <1>5, <1>12, <1>13, <3>1, <3>2, <3>4
      <3> QED  BY <1>1, <1>2, <3>3, <3>4, <3>5
    <2> QED  BY <2>1, <2>2
  <1>14. ASSUME NEW first, NEW u \in Vars, u # v, PutMove(w, u, first) PROVE Within(heap, heap', S)
    <2>1. CASE AddNothing(w, CreateArray)
      BY <1>6, <2>1
    <2>2. CASE ~AddNothing(w, CreateArray)
      <3>1. PICK h : h = Opened(w, CreateArray)
        OBVIOUS
      <3>2. PICK n : n = obj[<<u>>].own
        OBVIOUS
      <3>3. PICK g : g = Put(h, At(w), n, first)
        OBVIOUS
      <3>4. heap' = Delete(g, Owned(Shifted(w, first))) /\ n # NULL /\ Live(w) /\ Room(w, 0)
        BY <1>14, <2>2, <3>1, <3>2, <3>3 DEF PutMove, CanPut
      <3>5. Within(heap, h, S) /\ At(w) \in S /\ n \in S
        BY <1>5, <1>12, <1>14, <3>1, <3>2, <3>4
      <3> QED  BY <1>1, <1>3, <3>3, <3>4, <3>5
    <2> QED  BY <2>1, <2>2
  <1> QED  BY <1>6, <1>7, <1>8, <1>10, <1>11, <1>13, <1>14

\* Delete and Replace
LEMMA ReplacesWithin ==
  ASSUME WrappersOK(obj), NEW X, Sound(heap, obj, moved, X), NEW w \in DOMAIN obj,
         NEW v \in Vars, v # w[1], NEW S, Bystander(v, S)
  PROVE  /\ \A k : DeleteMember(w, k) => Within(heap, heap', S)
         /\ \A i \in Indices : DeleteElement(w, i) => Within(heap, heap', S)
         /\ \A k, item : Scalar(item) /\ ReplaceScalar(w, k, item) => Within(heap, heap', S)
         /\ \A i \in Indices : \A item :
              Scalar(item) /\ ReplaceScalarAt(w, i, item) => Within(heap, heap', S)
         /\ \A k : \A x \in DOMAIN obj : ReplaceCopy(w, k, x) => Within(heap, heap', S)
         /\ \A i \in Indices : \A x \in DOMAIN obj : ReplaceCopyAt(w, i, x) => Within(heap, heap', S)
         /\ \A k : \A u \in Vars : u # v /\ ReplaceMove(w, k, u) => Within(heap, heap', S)
         /\ \A i \in Indices : \A u \in Vars :
              u # v /\ ReplaceMoveAt(w, i, u) => Within(heap, heap', S)
  <1>1. heap \in Memories /\ Within(heap, heap, S)
    BY DEF Sound, Bystander
  <1>2. ASSUME NEW type \in {"Array", "Object"}, Live(w), Is(w, type)
        PROVE  Focus(w) \in S /\ Focus(w) \in Cells /\ Focus(w) # NULL /\ Alive(heap, Focus(w))
    <2>1. Focus(w) \in Cells /\ Focus(w) # NULL /\ Alive(heap, Focus(w))
      BY <1>2, ContainerIsItem
    <2> QED  BY <1>2, <2>1 DEF Bystander
  <1>3. \A K : Droppable(Cached(w, K))
    BY CachedDroppable
  <1>4. \A item, s : Droppable(DroppedWith(w, item, s))
    BY DroppedWithDroppable
  <1>5. ASSUME NEW g, Within(heap, g, S), NEW gone, Droppable(gone)
        PROVE  Within(heap, Delete(g, Owned(gone)), S)
    BY <1>5, DroppedAside, DeleteWithin
  <1>6. ASSUME Live(w), Is(w, "Object"), NEW h \in Memories, Within(heap, h, S), NEW m \in S, NEW k
        PROVE  Within(heap, ReplaceItemInObject(h, Focus(w), k, m), S)
    BY <1>2, <1>6, ReplaceWithin
  <1>7. ASSUME Live(w), Is(w, "Array"), NEW h, Within(heap, h, S), NEW m \in S, NEW i \in Indices,
               NEW F, \A c \in F : ~Alive(heap, c), \A c \in Cells \ F : h[c] = heap[c]
        PROVE  Within(heap, ReplaceItem(h, Focus(w), LookupAt(w, i), m), S)
    <2>1. Kids(h, Focus(w)) = Kids(heap, Focus(w))
      BY <1>2, <1>7 DEF Kids
    <2>2. LookupAt(w, i) = NULL \/ LookupAt(w, i) \in Kids(h, Focus(w))
      BY <1>7, <2>1, LookupAtIsKid
    <2> QED  BY <1>2, <1>7, <2>2, UnlinkWithin
  <1>8. ASSUME NEW type \in {"Array", "Object"}, Live(w), Is(w, type), Room(w, 1),
               NEW item, Scalar(item), NEW n, n = First(Free), NEW h, h = [heap EXCEPT ![n] = item]
        PROVE  /\ n \in S /\ ~Alive(heap, n) /\ h \in Memories /\ Within(heap, h, S)
               /\ \A c \in Cells \ {n} : h[c] = heap[c]
    <2>1. {n} \subseteq {c \in Cells : ~Alive(heap, c)} /\ h \in Memories
      BY <1>2, <1>8, MadeInFree DEF WithItem
    <2>2. n \in S
      <3>1. Cardinality(Free) >= 1 /\ Free \subseteq Cells /\ Free \subseteq S
        BY <1>2, <1>8, FreeCells DEF Room, Bystander
      <3> QED  BY <1>8, <3>1, FirstFree
    <2>3. Within(heap, h, S)
      BY <1>1, <1>8, <2>2, MadeAside
    <2>4. \A c \in Cells \ {n} : h[c] = heap[c]
      BY <1>8, <1>1 DEF Memories
    <2> QED  BY <2>1, <2>2, <2>3, <2>4
  <1>9. ASSUME NEW type \in {"Array", "Object"}, Live(w), Is(w, type),
               NEW x \in DOMAIN obj, Live(x), Focus(x) # NULL, Room(w, TreeSize(x)),
               NEW n, n = CopyCell(heap, Focus(x), Free)[Focus(x)],
               NEW h, h = Copy(heap, Focus(x), Free)
        PROVE  /\ n \in S /\ \A c \in Free : ~Alive(heap, c)
               /\ h \in Memories /\ Within(heap, h, S)
               /\ \A c \in Cells \ Free : h[c] = heap[c]
    <2>1. Focus(x) \in Cells /\ Alive(heap, Focus(x))
      BY <1>9, FocusIsItem
    <2>2. Cardinality(Free) >= Cardinality(Trees(heap, {Focus(x)}))
      BY <1>2, <1>9, RoomForCopy
    <2>3. /\ \A c \in Free : ~Alive(heap, c)
          /\ h \in Memories /\ \A c \in Cells \ Free : h[c] = heap[c]
      <3>1. PICK m \in Cells : m = Focus(x)
        BY <2>1
      <3>2. Free \subseteq {c \in Cells : ~Alive(heap, c)} /\ h \in Memories /\ Grown(heap, h, Free)
        BY <1>9, <2>1, <2>2, <3>1, CopiedInFree
      <3> QED  BY <3>2 DEF Grown
    <2>4. Free \subseteq S
      BY DEF Bystander
    <2>5. Within(heap, h, S) /\ n \in S
      BY <1>1, <1>9, <2>1, <2>2, <2>4, CopyWithin
    <2> QED  BY <2>3, <2>5
  <1>10. ASSUME NEW u \in Vars, u # v, obj[<<u>>].own # NULL
         PROVE  obj[<<u>>].own \in S
    <2>1. <<u>> \in DOMAIN obj /\ <<u>> # <<v>>
      BY <1>10 DEF WrappersOK
    <2> QED  BY <1>10, <2>1 DEF Bystander
  <1>11. ASSUME NEW n, NEW a \in S, n = NULL \/ n \in Kids(heap, a)
         PROVE  Within(heap, DeleteItem(heap, a, n), S)
    BY <1>1, <1>11, UnlinkWithin
  <1>12. ASSUME NEW k, DeleteMember(w, k) PROVE Within(heap, heap', S)
    <2>1. /\ heap' = Delete(DeleteItem(heap, Focus(w), Lookup(w, k)), Owned(Cached(w, {k})))
          /\ Live(w) /\ Is(w, "Object")
      BY <1>12 DEF DeleteMember, Leaves
    <2>2. Within(heap, DeleteItem(heap, Focus(w), Lookup(w, k)), S)
      BY <1>2, <1>11, <2>1, LookupIsKid
    <2> QED  BY <1>3, <1>5, <2>1, <2>2
  <1>13. ASSUME NEW i \in Indices, DeleteElement(w, i) PROVE Within(heap, heap', S)
    <2>1. /\ heap' = Delete(DeleteItem(heap, Focus(w), LookupAt(w, i)), Owned(Cached(w, From(i))))
          /\ Live(w) /\ Is(w, "Array")
      BY <1>13 DEF DeleteElement, Leaves
    <2>2. Within(heap, DeleteItem(heap, Focus(w), LookupAt(w, i)), S)
      BY <1>2, <1>11, <2>1, LookupAtIsKid
    <2> QED  BY <1>3, <1>5, <2>1, <2>2
  <1>14. ASSUME NEW k, NEW item, Scalar(item), ReplaceScalar(w, k, item)
         PROVE  Within(heap, heap', S)
    <2>1. PICK n : n = First(Free)
      OBVIOUS
    <2>2. PICK h : h = [heap EXCEPT ![n] = item]
      OBVIOUS
    <2>3. /\ heap' = Delete(ReplaceItemInObject(h, Focus(w), k, n), Owned(Cached(w, {k})))
          /\ Live(w) /\ Is(w, "Object") /\ Room(w, 1)
      BY <1>14, <2>1, <2>2 DEF ReplaceScalar, Stays, Leaves
    <2>4. n \in S /\ h \in Memories /\ Within(heap, h, S)
      BY <1>8, <1>14, <2>1, <2>2, <2>3
    <2> QED  BY <1>3, <1>5, <1>6, <2>3, <2>4
  <1>15. ASSUME NEW i \in Indices, NEW item, Scalar(item), ReplaceScalarAt(w, i, item)
         PROVE  Within(heap, heap', S)
    <2>1. PICK n : n = First(Free)
      OBVIOUS
    <2>2. PICK h : h = [heap EXCEPT ![n] = item]
      OBVIOUS
    <2>3. /\ heap' = Delete(ReplaceItem(h, Focus(w), LookupAt(w, i), n), Owned(Cached(w, {i})))
          /\ Live(w) /\ Is(w, "Array") /\ Room(w, 1)
      BY <1>15, <2>1, <2>2 DEF ReplaceScalarAt, Stays, Leaves
    <2>4. /\ n \in S /\ ~Alive(heap, n) /\ Within(heap, h, S)
          /\ \A c \in Cells \ {n} : h[c] = heap[c]
      <3>1. n \in S /\ ~Alive(heap, n) /\ Within(heap, h, S)
        BY <1>8, <1>15, <2>1, <2>2, <2>3
      <3>2. \A c \in Cells \ {n} : h[c] = heap[c]
        BY <1>1, <2>2 DEF Memories
      <3> QED  BY <3>1, <3>2
    <2>5. PICK F : F = {n}
      OBVIOUS
    <2>6. (\A c \in F : ~Alive(heap, c)) /\ \A c \in Cells \ F : h[c] = heap[c]
      BY <2>4, <2>5
    <2>7. Within(heap, ReplaceItem(h, Focus(w), LookupAt(w, i), n), S)
      BY <1>7, <2>3, <2>4, <2>6
    <2> QED  BY <1>3, <1>5, <2>3, <2>7
  <1>16. ASSUME NEW k, NEW x \in DOMAIN obj, ReplaceCopy(w, k, x) PROVE Within(heap, heap', S)
    <2>1. PICK h : h = Copy(heap, Focus(x), Free)
      OBVIOUS
    <2>2. PICK n : n = CopyCell(heap, Focus(x), Free)[Focus(x)]
      OBVIOUS
    <2>3. /\ heap' = Delete(ReplaceItemInObject(h, Focus(w), k, n), Owned(DroppedWith(w, Lookup(w, k), k)))
          /\ Live(w) /\ Is(w, "Object") /\ Live(x) /\ Focus(x) # NULL /\ Room(w, TreeSize(x))
      BY <1>16, <2>1, <2>2 DEF ReplaceCopy, Stays, Leaves
    <2>4. n \in S /\ h \in Memories /\ Within(heap, h, S)
      BY <1>9, <2>1, <2>2, <2>3
    <2> QED  BY <1>4, <1>5, <1>6, <2>3, <2>4
  <1>17. ASSUME NEW i \in Indices, NEW x \in DOMAIN obj, ReplaceCopyAt(w, i, x)
         PROVE  Within(heap, heap', S)
    <2>1. PICK h : h = Copy(heap, Focus(x), Free)
      OBVIOUS
    <2>2. PICK n : n = CopyCell(heap, Focus(x), Free)[Focus(x)]
      OBVIOUS
    <2>3. /\ heap' = Delete(ReplaceItem(h, Focus(w), LookupAt(w, i), n), Owned(DroppedWith(w, LookupAt(w, i), i)))
          /\ Live(w) /\ Is(w, "Array") /\ Live(x) /\ Focus(x) # NULL /\ Room(w, TreeSize(x))
      BY <1>17, <2>1, <2>2 DEF ReplaceCopyAt, Stays, Leaves
    <2>4. /\ n \in S /\ (\A c \in Free : ~Alive(heap, c)) /\ Within(heap, h, S)
          /\ \A c \in Cells \ Free : h[c] = heap[c]
      BY <1>9, <2>1, <2>2, <2>3
    <2>5. Within(heap, ReplaceItem(h, Focus(w), LookupAt(w, i), n), S)
      BY <1>7, <2>3, <2>4
    <2> QED  BY <1>4, <1>5, <2>3, <2>5
  <1>18. ASSUME NEW k, NEW u \in Vars, u # v, ReplaceMove(w, k, u) PROVE Within(heap, heap', S)
    <2>1. PICK n : n = obj[<<u>>].own
      OBVIOUS
    <2>2. /\ heap' = Delete(ReplaceItemInObject(heap, Focus(w), k, n), Owned(DroppedWith(w, Lookup(w, k), k)))
          /\ Live(w) /\ Is(w, "Object") /\ n # NULL
      BY <1>18, <2>1 DEF ReplaceMove
    <2>3. Within(heap, ReplaceItemInObject(heap, Focus(w), k, n), S)
      BY <1>1, <1>6, <1>10, <1>18, <2>1, <2>2
    <2> QED  BY <1>4, <1>5, <2>2, <2>3
  <1>19. ASSUME NEW i \in Indices, NEW u \in Vars, u # v, ReplaceMoveAt(w, i, u)
         PROVE  Within(heap, heap', S)
    <2>1. PICK n : n = obj[<<u>>].own
      OBVIOUS
    <2>2. /\ heap' = Delete(ReplaceItem(heap, Focus(w), LookupAt(w, i), n), Owned(DroppedWith(w, LookupAt(w, i), i)))
          /\ Live(w) /\ Is(w, "Array") /\ n # NULL
      BY <1>19, <2>1 DEF ReplaceMoveAt
    <2>3. n \in S
      BY <1>10, <1>19, <2>1, <2>2
    <2>4. Within(heap, ReplaceItem(heap, Focus(w), LookupAt(w, i), n), S)
      BY <1>1, <1>2, <2>2, <2>3, LookupAtIsKid, UnlinkWithin
    <2> QED  BY <1>4, <1>5, <2>2, <2>4
  <1> QED  BY <1>12, <1>13, <1>14, <1>15, <1>16, <1>17, <1>18, <1>19

\* Clear, Parse, and the assignments: x is what is cleared.
LEMMA WholeWithin ==
  ASSUME WrappersOK(obj), NEW X, Sound(heap, obj, moved, X), NEW x \in DOMAIN obj,
         NEW v \in Vars, v # x[1], NEW S, Bystander(v, S)
  PROVE  /\ Clear(x) => Within(heap, heap', S)
         /\ \A doc \in Documents : Parse(x, doc) => Within(heap, heap', S)
         /\ \A n \in Cells : ParseTextOf(x, n) => Within(heap, heap', S)
         /\ ParseTextOf(x, NULL) => Within(heap, heap', S)
         /\ \A u \in Vars : x = <<x[1]>> /\ MoveAssign(x[1], u) => Within(heap, heap', S)
  <1>1. heap \in Memories /\ Within(heap, heap, S) /\ Free \subseteq S
    BY DEF Sound, Bystander
  <1>2. Owned(Below(x) \cup {x}) \subseteq S
    <2>1. Below(x) \cup {x} \subseteq DOMAIN obj /\ <<v>> \notin Below(x) \cup {x}
      BY CachedBelow DEF Below
    <2> QED  BY <2>1, OwnedAside
  <1>3. Within(heap, Cleared(x), S)
    BY <1>1, <1>2, DeleteWithin DEF Cleared
  <1>4. Clear(x) => Within(heap, heap', S)
    BY <1>3 DEF Clear, Becomes
  <1>5. ParseTextOf(x, NULL) => Within(heap, heap', S)
    BY <1>3 DEF ParseTextOf, Becomes
  <1>6. ASSUME NEW u \in Vars, x = <<x[1]>>, MoveAssign(x[1], u) PROVE Within(heap, heap', S)
    BY <1>3, <1>6 DEF MoveAssign
  <1>7. ASSUME NEW n \in Cells, ParseTextOf(x, n) PROVE Within(heap, heap', S)
    <2>1. PICK copy : copy = Copy(heap, n, Free)
      OBVIOUS
    <2>2. /\ Cardinality(Free) >= Cardinality(Trees(heap, {n}))
          /\ heap' = Delete(copy, Owned(Below(x) \cup {x}))
      BY <1>7, <2>1, CellsAssumption DEF ParseTextOf, Becomes
    <2>3. Within(heap, copy, S)
      BY <1>1, <2>1, <2>2, CopyWithin
    <2> QED  BY <1>2, <2>2, <2>3, DeleteWithin
  <1>8. ASSUME NEW doc \in Documents, Parse(x, doc) PROVE Within(heap, heap', S)
    <2>1. PICK root : root = First(Free)
      OBVIOUS
    <2>2. PICK cell : cell = Allocate(DOMAIN doc, Free \ {root})
      OBVIOUS
    <2>3. Cardinality(Free) > Len(doc) /\ heap' = ParsedMemory(Cleared(x), doc, root, cell)
      BY <1>8, <2>1, <2>2 DEF Parse, Becomes, ParsedMemory
    <2>4. Len(doc) \in Nat
      <3>1. PICK M : M = [key : Keys, item : Item]
        OBVIOUS
      <3>2. doc \in Seq(M)
        BY <3>1, ValuesAssumption
      <3> QED  BY <3>2
    <2>5. root \in Free /\ Len(doc) < Cardinality(Free)
      <3>1. Free \subseteq Cells /\ Cardinality(Free) >= 1
        BY <2>3, <2>4, FreeCells
      <3> QED  BY <2>1, <2>3, <2>4, <3>1, FirstFree, FreeCells
    <2> QED  BY <1>1, <1>3, <2>2, <2>3, <2>5, ParseWithin
  <1> QED  BY <1>4, <1>5, <1>6, <1>7, <1>8

(***************************************************************************)
(* Who keeps what                                                          *)
(***************************************************************************)
\* The variable v keeps its document, or it was moved from.
OwnLeft(v) == obj'[<<v>>].own \in {NULL, obj[<<v>>].own}

\* And while it keeps it, the call stays aside.
Untouched(v) == OwnLeft(v) /\ (obj'[<<v>>].own # NULL => Within(heap, heap', Aside(v)))

\* What the calls through w do to the other variables' wrappers
LEMMA OwnsLeft ==
  ASSUME WrappersOK(obj), NEW w \in DOMAIN obj, NEW v \in Vars, v # w[1], NEW gone, Droppable(gone)
  PROVE  /\ \A own, trav : obj' = Rewrapped(gone, w, own, trav) => OwnLeft(v)
         /\ \A own, trav : \A u \in Vars : obj' = MovedOut(u, Rewrapped(gone, w, own, trav)) =>
              OwnLeft(v) /\ (u = v => obj'[<<v>>].own = NULL)
         /\ \A u \in Vars : obj' = MovedOut(u, Without(gone)) =>
              OwnLeft(v) /\ (u = v => obj'[<<v>>].own = NULL)
  <1>1. PICK z : z = <<v>>
    OBVIOUS
  <1>2. z \in DOMAIN obj \ gone /\ z # w /\ z[1] = v
    BY <1>1 DEF WrappersOK, Droppable
  <1>3. PICK ob : ob = Without(gone)
    OBVIOUS
  <1>4. z \in DOMAIN ob /\ ob[z] = obj[z]
    BY <1>2, <1>3 DEF Without, Restrict
  <1>5. ASSUME NEW own, NEW trav, NEW ob2, ob2 = Rewrapped(gone, w, own, trav)
        PROVE  z \in DOMAIN ob2 /\ ob2[z] = obj[z]
    BY <1>2, <1>3, <1>4, <1>5 DEF Rewrapped
  <1>6. "own" \in DOMAIN obj[z]
    BY <1>2 DEF WrappersOK, Wrapper
  <1>7. ASSUME NEW ob2, z \in DOMAIN ob2, ob2[z] = obj[z], NEW u \in Vars, obj' = MovedOut(u, ob2)
        PROVE  OwnLeft(v) /\ (u = v => obj'[<<v>>].own = NULL)
    <2>1. PICK y : y = <<u>>
      OBVIOUS
    <2>2. y = z <=> u = v
      BY <1>1, <2>1
    <2>3. PICK ob3 : ob3 = [ob2 EXCEPT ![y].own = NULL]
      OBVIOUS
    <2>4. ob3[z].own = IF y = z THEN NULL ELSE obj[z].own
      BY <1>6, <1>7, <2>3
    <2>5. obj' = ob3
      BY <1>7, <2>1, <2>3 DEF MovedOut
    <2> QED  BY <1>1, <2>2, <2>4, <2>5 DEF OwnLeft
  <1>8. ASSUME NEW own, NEW trav, obj' = Rewrapped(gone, w, own, trav) PROVE OwnLeft(v)
    BY <1>1, <1>5, <1>8 DEF OwnLeft
  <1>9. ASSUME NEW own, NEW trav, NEW u \in Vars, obj' = MovedOut(u, Rewrapped(gone, w, own, trav))
        PROVE  OwnLeft(v) /\ (u = v => obj'[<<v>>].own = NULL)
    <2>1. PICK ob2 : ob2 = Rewrapped(gone, w, own, trav)
      OBVIOUS
    <2> QED  BY <1>5, <1>7, <1>9, <2>1
  <1>10. ASSUME NEW u \in Vars, obj' = MovedOut(u, Without(gone))
         PROVE  OwnLeft(v) /\ (u = v => obj'[<<v>>].own = NULL)
    BY <1>3, <1>4, <1>7, <1>10
  <1> QED  BY <1>8, <1>9, <1>10

\* Where v is left its document, the call finds itself aside.
LEMMA LeftAside ==
  ASSUME WrappersOK(obj), NEW X, Sound(heap, obj, moved, X), NEW v \in Vars,
         OwnLeft(v), obj'[<<v>>].own # NULL
  PROVE  Bystander(v, Aside(v))
  BY AsideOf DEF OwnLeft

\* Add
LEMMA AddsUntouched ==
  ASSUME WrappersOK(obj), NEW X, Sound(heap, obj, moved, X), NEW w \in DOMAIN obj,
         NEW v \in Vars, v # w[1]
  PROVE  /\ \A k, item : Scalar(item) /\ AddScalar(w, k, item) => Untouched(v)
         /\ \A item, first : Scalar(item) /\ PutScalar(w, item, first) => Untouched(v)
         /\ \A k : \A x \in DOMAIN obj : AddCopy(w, k, x) => Untouched(v)
         /\ \A first : \A x \in DOMAIN obj : PutCopy(w, x, first) => Untouched(v)
         /\ \A k : \A u \in Vars : AddMove(w, k, u) => Untouched(v)
         /\ \A first : \A u \in Vars : PutMove(w, u, first) => Untouched(v)
  <1>1. ASSUME OwnLeft(v),
               obj'[<<v>>].own # NULL /\ Bystander(v, Aside(v)) => Within(heap, heap', Aside(v))
        PROVE  Untouched(v)
    BY <1>1, LeftAside DEF Untouched
  <1>2. \A K : Droppable(Cached(w, K)) /\ Droppable({})
    BY CachedDroppable
  <1>3. \A first : Droppable(Shifted(w, first))
    BY ShiftedDroppable
  <1>4. \A root : AddNothing(w, root) => OwnLeft(v)
    BY <1>2, OwnsLeft DEF AddNothing, Leaves
  <1>5. ASSUME NEW k, NEW item, Scalar(item), AddScalar(w, k, item) PROVE Untouched(v)
    <2>1. OwnLeft(v)
      BY <1>2, <1>5, OwnsLeft DEF AddScalar, Leaves
    <2> QED  BY <1>1, <1>5, <2>1, AddsWithin
  <1>6. ASSUME NEW item, NEW first, Scalar(item), PutScalar(w, item, first) PROVE Untouched(v)
    <2>1. OwnLeft(v)
      BY <1>2, <1>6, OwnsLeft DEF PutScalar, Leaves
    <2> QED  BY <1>1, <1>6, <2>1, AddsWithin
  <1>7. ASSUME NEW k, NEW x \in DOMAIN obj, AddCopy(w, k, x) PROVE Untouched(v)
    <2>1. OwnLeft(v)
      BY <1>2, <1>4, <1>7, OwnsLeft DEF AddCopy, Leaves
    <2> QED  BY <1>1, <1>7, <2>1, AddsWithin
  <1>8. ASSUME NEW first, NEW x \in DOMAIN obj, PutCopy(w, x, first) PROVE Untouched(v)
    <2>1. OwnLeft(v)
      BY <1>3, <1>4, <1>8, OwnsLeft DEF PutCopy, Leaves
    <2> QED  BY <1>1, <1>8, <2>1, AddsWithin
  <1>9. ASSUME NEW k, NEW u \in Vars, AddMove(w, k, u) PROVE Untouched(v)
    <2>1. OwnLeft(v) /\ (u = v => obj'[<<v>>].own = NULL)
      <3>1. CASE obj[<<u>>].own = NULL
        <4>1. OwnLeft(v)
          BY <1>4, <1>9, <3>1 DEF AddMove
        <4> QED  BY <3>1, <4>1 DEF OwnLeft
      <3>2. CASE obj[<<u>>].own # NULL
        <4>1. obj' = MovedOut(u, Rewrapped(Cached(w, {k}), w, Own(w), At(w)))
          BY <1>9, <3>2 DEF AddMove
        <4> QED  BY <1>2, <4>1, OwnsLeft
      <3> QED  BY <3>1, <3>2
    <2> QED  BY <1>1, <1>9, <2>1, AddsWithin
  <1>10. ASSUME NEW first, NEW u \in Vars, PutMove(w, u, first) PROVE Untouched(v)
    <2>1. OwnLeft(v) /\ (u = v => obj'[<<v>>].own = NULL)
      <3>1. CASE obj[<<u>>].own = NULL
        <4>1. OwnLeft(v)
          BY <1>4, <1>10, <3>1 DEF PutMove
        <4> QED  BY <3>1, <4>1 DEF OwnLeft
      <3>2. CASE obj[<<u>>].own # NULL
        <4>1. obj' = MovedOut(u, Rewrapped(Shifted(w, first), w, Own(w), obj[w].trav))
          BY <1>10, <3>2 DEF PutMove
        <4> QED  BY <1>3, <4>1, OwnsLeft
      <3> QED  BY <3>1, <3>2
    <2> QED  BY <1>1, <1>10, <2>1, AddsWithin
  <1> QED  BY <1>5, <1>6, <1>7, <1>8, <1>9, <1>10

\* Delete and Replace
LEMMA ReplacesUntouched ==
  ASSUME WrappersOK(obj), NEW X, Sound(heap, obj, moved, X), NEW w \in DOMAIN obj,
         NEW v \in Vars, v # w[1]
  PROVE  /\ \A k : DeleteMember(w, k) => Untouched(v)
         /\ \A i \in Indices : DeleteElement(w, i) => Untouched(v)
         /\ \A k, item : Scalar(item) /\ ReplaceScalar(w, k, item) => Untouched(v)
         /\ \A i \in Indices : \A item :
              Scalar(item) /\ ReplaceScalarAt(w, i, item) => Untouched(v)
         /\ \A k : \A x \in DOMAIN obj : ReplaceCopy(w, k, x) => Untouched(v)
         /\ \A i \in Indices : \A x \in DOMAIN obj : ReplaceCopyAt(w, i, x) => Untouched(v)
         /\ \A k : \A u \in Vars : ReplaceMove(w, k, u) => Untouched(v)
         /\ \A i \in Indices : \A u \in Vars : ReplaceMoveAt(w, i, u) => Untouched(v)
  <1>1. ASSUME OwnLeft(v),
               obj'[<<v>>].own # NULL /\ Bystander(v, Aside(v)) => Within(heap, heap', Aside(v))
        PROVE  Untouched(v)
    BY <1>1, LeftAside DEF Untouched
  <1>2. \A K : Droppable(Cached(w, K))
    BY CachedDroppable
  <1>3. \A item, s : Droppable(DroppedWith(w, item, s))
    BY DroppedWithDroppable
  <1>4. ASSUME NEW k, DeleteMember(w, k) PROVE Untouched(v)
    <2>1. OwnLeft(v)
      BY <1>2, <1>4, OwnsLeft DEF DeleteMember, Leaves
    <2> QED  BY <1>1, <1>4, <2>1, ReplacesWithin
  <1>5. ASSUME NEW i \in Indices, DeleteElement(w, i) PROVE Untouched(v)
    <2>1. OwnLeft(v)
      BY <1>2, <1>5, OwnsLeft DEF DeleteElement, Leaves
    <2> QED  BY <1>1, <1>5, <2>1, ReplacesWithin
  <1>6. ASSUME NEW k, NEW item, Scalar(item), ReplaceScalar(w, k, item) PROVE Untouched(v)
    <2>1. OwnLeft(v)
      BY <1>2, <1>6, OwnsLeft DEF ReplaceScalar, Stays, Leaves
    <2> QED  BY <1>1, <1>6, <2>1, ReplacesWithin
  <1>7. ASSUME NEW i \in Indices, NEW item, Scalar(item), ReplaceScalarAt(w, i, item)
        PROVE  Untouched(v)
    <2>1. OwnLeft(v)
      BY <1>2, <1>7, OwnsLeft DEF ReplaceScalarAt, Stays, Leaves
    <2> QED  BY <1>1, <1>7, <2>1, ReplacesWithin
  <1>8. ASSUME NEW k, NEW x \in DOMAIN obj, ReplaceCopy(w, k, x) PROVE Untouched(v)
    <2>1. OwnLeft(v)
      BY <1>3, <1>8, OwnsLeft DEF ReplaceCopy, Stays, Leaves
    <2> QED  BY <1>1, <1>8, <2>1, ReplacesWithin
  <1>9. ASSUME NEW i \in Indices, NEW x \in DOMAIN obj, ReplaceCopyAt(w, i, x) PROVE Untouched(v)
    <2>1. OwnLeft(v)
      BY <1>3, <1>9, OwnsLeft DEF ReplaceCopyAt, Stays, Leaves
    <2> QED  BY <1>1, <1>9, <2>1, ReplacesWithin
  <1>10. ASSUME NEW k, NEW u \in Vars, ReplaceMove(w, k, u) PROVE Untouched(v)
    <2>1. OwnLeft(v) /\ (u = v => obj'[<<v>>].own = NULL)
      BY <1>3, <1>10, OwnsLeft DEF ReplaceMove
    <2> QED  BY <1>1, <1>10, <2>1, ReplacesWithin
  <1>11. ASSUME NEW i \in Indices, NEW u \in Vars, ReplaceMoveAt(w, i, u) PROVE Untouched(v)
    <2>1. OwnLeft(v) /\ (u = v => obj'[<<v>>].own = NULL)
      BY <1>3, <1>11, OwnsLeft DEF ReplaceMoveAt
    <2> QED  BY <1>1, <1>11, <2>1, ReplacesWithin
  <1> QED  BY <1>4, <1>5, <1>6, <1>7, <1>8, <1>9, <1>10, <1>11

\* What MoveAssign does to the variables but y, which gets the document
LEMMA MoveOwns ==
  ASSUME WrappersOK(obj), NEW y \in Vars, NEW u \in Vars, MoveAssign(y, u), NEW v \in Vars, v # y
  PROVE  OwnLeft(v)
  <1>1. PICK ob2 : ob2 = obj'
    OBVIOUS
  <1>2. PICK w : w = <<u>>
    OBVIOUS
  <1>3. /\ w \in DOMAIN ob2 /\ ob2[w] = Empty
        /\ \A p \in DOMAIN obj : p[1] \notin {u, y} => p \in DOMAIN ob2 /\ ob2[p] = obj[p]
    BY <1>1, <1>2, MovedWrappers
  <1>4. CASE u = v
    BY <1>1, <1>2, <1>3, <1>4, EmptyWrapper DEF OwnLeft
  <1>5. CASE u # v
    <2>1. PICK z : z = <<v>>
      OBVIOUS
    <2>2. z \in DOMAIN obj /\ z[1] \notin {u, y}
      BY <1>5, <2>1 DEF WrappersOK
    <2> QED  BY <1>1, <1>3, <2>1, <2>2 DEF OwnLeft
  <1> QED  BY <1>4, <1>5

\* Clear, Parse and the assignments, of x
LEMMA WholeUntouched ==
  ASSUME WrappersOK(obj), NEW X, Sound(heap, obj, moved, X), NEW x \in DOMAIN obj,
         NEW v \in Vars, v # x[1]
  PROVE  /\ Clear(x) => Untouched(v)
         /\ \A doc \in Documents : Parse(x, doc) => Untouched(v)
         /\ \A n \in Cells \cup {NULL} : ParseTextOf(x, n) => Untouched(v)
         /\ \A u \in Vars : x = <<x[1]>> /\ MoveAssign(x[1], u) => Untouched(v)
  <1>1. ASSUME OwnLeft(v),
               obj'[<<v>>].own # NULL /\ Bystander(v, Aside(v)) => Within(heap, heap', Aside(v))
        PROVE  Untouched(v)
    BY <1>1, LeftAside DEF Untouched
  <1>2. ASSUME NEW h, NEW own, Becomes(x, h, own) PROVE OwnLeft(v)
    <2>1. PICK z : z = <<v>>
      OBVIOUS
    <2>2. z \in DOMAIN obj \ Below(x) /\ z # x
      BY <2>1, CachedBelow DEF WrappersOK, Below
    <2>3. obj' = [Without(Below(x)) EXCEPT ![x] = [own |-> own, ext |-> NULL, trav |-> own]]
      BY <1>2 DEF Becomes
    <2>4. obj'[z] = obj[z]
      BY <2>2, <2>3 DEF Without, Restrict
    <2> QED  BY <2>1, <2>4 DEF OwnLeft
  <1>3. ASSUME Clear(x) PROVE Untouched(v)
    <2>1. OwnLeft(v)
      BY <1>2, <1>3 DEF Clear
    <2> QED  BY <1>1, <1>3, <2>1, WholeWithin
  <1>4. ASSUME NEW doc \in Documents, Parse(x, doc) PROVE Untouched(v)
    <2>1. OwnLeft(v)
      BY <1>2, <1>4 DEF Parse
    <2> QED  BY <1>1, <1>4, <2>1, WholeWithin
  <1>5. ASSUME NEW n \in Cells \cup {NULL}, ParseTextOf(x, n) PROVE Untouched(v)
    <2>1. OwnLeft(v)
      BY <1>2, <1>5 DEF ParseTextOf
    <2> QED  BY <1>1, <1>5, <2>1, WholeWithin
  <1>6. ASSUME NEW u \in Vars, x = <<x[1]>>, MoveAssign(x[1], u) PROVE Untouched(v)
    <2>1. x[1] \in Vars
      BY DEF WrappersOK, Way
    <2>2. OwnLeft(v)
      BY <1>6, <2>1, MoveOwns
    <2> QED  BY <1>1, <1>6, <2>2, WholeWithin
  <1> QED  BY <1>3, <1>4, <1>5, <1>6

\* The overloads that take a scalar
LEMMA ScalarsUntouched ==
  ASSUME WrappersOK(obj), NEW X, Sound(heap, obj, moved, X), NEW w \in DOMAIN obj,
         NEW v \in Vars, v # w[1]
  PROVE  /\ \A k \in Keys : ScalarMember(w, k) => Untouched(v)
         /\ ScalarElement(w) => Untouched(v)
         /\ \A i \in Indices : ElementAt(w, i) => Untouched(v)
  <1>1. ASSUME NEW k \in Keys, ScalarMember(w, k) PROVE Untouched(v)
    <2>1. ASSUME NEW item, Scalar(item), AddScalar(w, k, item) \/ ReplaceScalar(w, k, item)
          PROVE  Untouched(v)
      BY <2>1, AddsUntouched, ReplacesUntouched
    <2>2. CASE \E s \in Strings : AddString(w, k, s) \/ ReplaceString(w, k, s)
      BY <2>1, <2>2, ScalarsMade DEF AddString, ReplaceString
    <2>3. CASE \E n \in Integers32or64 : AddInteger(w, k, n) \/ ReplaceInteger(w, k, n)
      BY <2>1, <2>3, ScalarsMade DEF AddInteger, ReplaceInteger
    <2>4. CASE \E d \in Reals : AddReal(w, k, d) \/ ReplaceReal(w, k, d)
      BY <2>1, <2>4, ScalarsMade DEF AddReal, ReplaceReal
    <2>5. CASE \E b \in Booleans : AddBool(w, k, b) \/ ReplaceBool(w, k, b)
      BY <2>1, <2>5, ScalarsMade DEF AddBool, ReplaceBool
    <2>6. CASE AddNull(w, k) \/ ReplaceNull(w, k)
      BY <2>1, <2>6, ScalarsMade DEF AddNull, ReplaceNull
    <2>7. CASE AddEmptySubObject(w, k) \/ AddEmptySubArray(w, k)
      BY <2>1, <2>7, ScalarsMade DEF AddEmptySubObject, AddEmptySubArray
    <2>8. CASE DeleteMember(w, k)
      BY <2>8, ReplacesUntouched
    <2> QED  BY <1>1, <2>2, <2>3, <2>4, <2>5, <2>6, <2>7, <2>8 DEF ScalarMember
  <1>2. ASSUME ScalarElement(w) PROVE Untouched(v)
    <2>1. ASSUME NEW item, Scalar(item), Append1(w, item) \/ Prepend1(w, item)
          PROVE  Untouched(v)
      <3>1. PutScalar(w, item, FALSE) \/ PutScalar(w, item, TRUE)
        BY <2>1 DEF Append1, Prepend1
      <3> QED  BY <2>1, <3>1, AddsUntouched
    <2>2. CASE \E s \in Strings : AppendString(w, s) \/ PrependString(w, s)
      BY <2>1, <2>2, ScalarsMade DEF AppendString, PrependString
    <2>3. CASE \E n \in Integers32or64 : AppendInteger(w, n) \/ PrependInteger(w, n)
      BY <2>1, <2>3, ScalarsMade DEF AppendInteger, PrependInteger
    <2>4. CASE \E d \in Reals : AppendReal(w, d) \/ PrependReal(w, d)
      BY <2>1, <2>4, ScalarsMade DEF AppendReal, PrependReal
    <2>5. CASE \E b \in Booleans : AppendBool(w, b) \/ PrependBool(w, b)
      BY <2>1, <2>5, ScalarsMade DEF AppendBool, PrependBool
    <2>6. CASE AppendNull(w) \/ PrependNull(w)
      BY <2>1, <2>6, ScalarsMade DEF AppendNull, PrependNull
    <2> QED  BY <1>2, <2>2, <2>3, <2>4, <2>5, <2>6 DEF ScalarElement
  <1>3. ASSUME NEW i \in Indices, ElementAt(w, i) PROVE Untouched(v)
    <2>1. ASSUME NEW item, Scalar(item), ReplaceScalarAt(w, i, item)
          PROVE  Untouched(v)
      BY <2>1, ReplacesUntouched
    <2>2. CASE \E s \in Strings : ReplaceStringAt(w, i, s)
      BY <2>1, <2>2, ScalarsMade DEF ReplaceStringAt
    <2>3. CASE \E n \in Integers32or64 : ReplaceIntegerAt(w, i, n)
      BY <2>1, <2>3, ScalarsMade DEF ReplaceIntegerAt
    <2>4. CASE \E d \in Reals : ReplaceRealAt(w, i, d)
      BY <2>1, <2>4, ScalarsMade DEF ReplaceRealAt
    <2>5. CASE \E b \in Booleans : ReplaceBoolAt(w, i, b)
      BY <2>1, <2>5, ScalarsMade DEF ReplaceBoolAt
    <2>6. CASE ReplaceNullAt(w, i)
      BY <2>1, <2>6, ScalarsMade DEF ReplaceNullAt
    <2>7. CASE DeleteElement(w, i)
      BY <2>7, ReplacesUntouched
    <2> QED  BY <1>3, <2>2, <2>3, <2>4, <2>5, <2>6, <2>7 DEF ElementAt
  <1> QED  BY <1>1, <1>2, <1>3

\* operator[] and the cursor
LEMMA LooksUntouched ==
  ASSUME WrappersOK(obj), NEW X, Sound(heap, obj, moved, X), NEW w \in DOMAIN obj, NEW v \in Vars
  PROVE  /\ \A s, item : Wrap(w, s, item) => Untouched(v)
         /\ \A c : Cursor(w, c) => Untouched(v)
  <1>1. PICK z : z = <<v>>
    OBVIOUS
  <1>2. z \in DOMAIN obj /\ obj[z] \in Wrapper
    BY <1>1 DEF WrappersOK
  <1>3. ASSUME heap' = heap, obj'[z].own = obj[z].own PROVE Untouched(v)
    <2>1. OwnLeft(v)
      BY <1>1, <1>3 DEF OwnLeft
    <2>2. obj'[<<v>>].own # NULL => Within(heap, heap, Aside(v))
      BY <2>1, LeftAside DEF Bystander
    <2> QED  BY <1>3, <2>1, <2>2 DEF Untouched
  <1>4. ASSUME NEW s, NEW item, Wrap(w, s, item) PROVE Untouched(v)
    <2>1. PICK u : u = Append(w, s)
      OBVIOUS
    <2>2. /\ heap' = heap /\ u \notin DOMAIN obj
          /\ obj' = [p \in DOMAIN obj \cup {u} |->
                       IF p = u THEN [own |-> NULL, ext |-> item, trav |-> item] ELSE obj[p]]
      BY <1>4, <2>1 DEF Wrap
    <2> QED  BY <1>2, <1>3, <2>2
  <1>5. ASSUME NEW c, Cursor(w, c) PROVE Untouched(v)
    <2>1. heap' = heap /\ obj' = [obj EXCEPT ![w].trav = c]
      BY <1>5 DEF Cursor
    <2>2. obj'[z].own = obj[z].own
      BY <1>2, <2>1 DEF Wrapper
    <2> QED  BY <1>3, <2>1, <2>2
  <1> QED  BY <1>4, <1>5

\* Every call touches the document of one variable at most: that of the wrapper
\* it is made on, or that of the wrapper it copies to.
LEMMA CallUntouched ==
  ASSUME WrappersOK(obj), NEW X, Sound(heap, obj, moved, X), NEW w \in DOMAIN obj, Call(w)
  PROVE  \E x \in DOMAIN obj : \A v \in Vars : v # x[1] => Untouched(v)
  <1>1. ASSUME NEW x \in DOMAIN obj, Combine(w, x)
        PROVE  \E y \in {w, x} : \A v \in Vars : v # y[1] => Untouched(v)
    <2>1. ASSUME NEW n \in Cells \cup {NULL}, ParseTextOf(x, n)
          PROVE  \A v \in Vars : v # x[1] => Untouched(v)
      BY <2>1, WholeUntouched
    <2>2. CASE Assign(x, w)
      <3>1. Focus(w) \in Cells \cup {NULL}
        BY FocusIsPointer DEF Pointers
      <3> QED  BY <2>1, <2>2, <3>1 DEF Assign
    <2>3. CASE \E k \in Keys : GetObject(w, k, x)
      <3>1. PICK k \in Keys : GetObject(w, k, x)
        BY <2>3
      <3>2. Live(w) /\ Lookup(w, k) # NULL /\ ParseTextOf(x, Lookup(w, k))
        BY <3>1 DEF GetObject
      <3>3. Is(w, "Object")
        BY <3>2 DEF Lookup
      <3>4. Lookup(w, k) \in Cells
        BY <3>2, <3>3, LookupIsKid, ContainerIsItem, KidsAlive
      <3> QED  BY <2>1, <3>2, <3>4
    <2>4. CASE \E i \in Indices : GetObjectAt(w, i, x)
      <3>1. PICK i \in Indices : GetObjectAt(w, i, x)
        BY <2>4
      <3>2. Live(w) /\ LookupAt(w, i) # NULL /\ ParseTextOf(x, LookupAt(w, i))
        BY <3>1 DEF GetObjectAt
      <3>3. Is(w, "Array")
        BY <3>2 DEF LookupAt
      <3>4. LookupAt(w, i) \in Cells
        BY <3>2, <3>3, LookupAtIsKid, ContainerIsItem, KidsAlive
      <3> QED  BY <2>1, <3>2, <3>4
    <2>5. CASE \E k \in Keys : AddCopy(w, k, x) \/ ReplaceCopy(w, k, x)
      BY <2>5, AddsUntouched, ReplacesUntouched
    <2>6. CASE \E i \in Indices : ReplaceCopyAt(w, i, x)
      BY <2>6, ReplacesUntouched
    <2>7. CASE AppendCopy(w, x) \/ PrependCopy(w, x)
      <3>1. PutCopy(w, x, FALSE) \/ PutCopy(w, x, TRUE)
        BY <2>7 DEF AppendCopy, PrependCopy
      <3> QED  BY <3>1, AddsUntouched
    <2> QED  BY <1>1, <2>2, <2>3, <2>4, <2>5, <2>6, <2>7 DEF Combine
  <1>2. CASE \E x \in DOMAIN obj : Combine(w, x)
    BY <1>1, <1>2
  <1>3. ASSUME NEW v \in Vars, v # w[1], ~ \E x \in DOMAIN obj : Combine(w, x)
        PROVE  Untouched(v)
    <2>1. CASE \E k \in Keys : Member(w, k) \/ ScalarMember(w, k)
      BY <1>3, <2>1, LooksUntouched, ScalarsUntouched DEF Member
    <2>2. CASE \E i \in Indices : Element(w, i) \/ ElementAt(w, i)
      BY <1>3, <2>2, LooksUntouched, ScalarsUntouched DEF Element
    <2>3. CASE ScalarElement(w)
      BY <1>3, <2>3, ScalarsUntouched
    <2>4. CASE Clear(w) \/ \E doc \in Documents : Parse(w, doc)
      BY <1>3, <2>4, WholeUntouched
    <2>5. CASE GetKey(w) \/ ResetTraversing(w)
      BY <2>5, LooksUntouched DEF GetKey, ResetTraversing
    <2>6. CASE \E u \in Vars : Move(w, u)
      <3>1. PICK u \in Vars : Move(w, u)
        BY <2>6
      <3>2. CASE w = <<w[1]>> /\ MoveAssign(w[1], u)
        BY <1>3, <3>2, WholeUntouched
      <3>3. CASE \E k \in Keys : AddMove(w, k, u) \/ ReplaceMove(w, k, u)
        BY <1>3, <3>3, AddsUntouched, ReplacesUntouched
      <3>4. CASE AppendMove(w, u) \/ PrependMove(w, u)
        <4>1. PutMove(w, u, FALSE) \/ PutMove(w, u, TRUE)
          BY <3>4 DEF AppendMove, PrependMove
        <4> QED  BY <1>3, <4>1, AddsUntouched
      <3>5. CASE \E i \in Indices : ReplaceMoveAt(w, i, u)
        BY <1>3, <3>5, ReplacesUntouched
      <3> QED  BY <3>1, <3>2, <3>3, <3>4, <3>5 DEF Move
    <2> QED  BY <1>3, <2>1, <2>2, <2>3, <2>4, <2>5, <2>6 DEF Call
  <1> QED  BY <1>2, <1>3

\* What is untouched is as it was.
LEMMA UntouchedStays ==
  ASSUME WrappersOK(obj), NEW X, Sound(heap, obj, moved, X), NEW v \in Vars, Untouched(v)
  PROVE  ~Changes(v)
  <1>1. CASE obj'[<<v>>].own = NULL
    BY <1>1 DEF Changes, Content
  <1>2. CASE obj'[<<v>>].own # NULL
    <2>1. obj'[<<v>>].own = obj[<<v>>].own /\ Within(heap, heap', Aside(v))
      BY <1>2 DEF Untouched, OwnLeft
    <2>2. obj[<<v>>].own \in Cells
      BY <1>2, <2>1 DEF WrappersOK, Wrapper, Pointers
    <2>3. heap \in Memories
      BY DEF Sound
    <2> QED  BY <2>1, <2>2, <2>3, ContentStays DEF Changes
  <1> QED  BY <1>1, <1>2

\* A document is a value: whatever is called, on whatever wrappers, the document of
\* one variable changes, or of none; and another variable's document that was moved
\* into it has left that variable.
THEOREM OneDocumentHolds == Spec => OneDocumentChanges
  <1>1. ASSUME Inv, [Next]_vars PROVE [Cardinality({v \in Vars : Changes(v)}) <= 1]_vars
    <2>1. CASE Next
      <3>1. PICK X : Sound(heap, obj, moved, X)
        BY <1>1 DEF Inv
      <3>2. WrappersOK(obj)
        BY <1>1 DEF Inv
      <3>3. PICK w \in DOMAIN obj : Call(w)
        BY <2>1 DEF Next
      <3>4. PICK x \in DOMAIN obj : \A v \in Vars : v # x[1] => Untouched(v)
        BY <3>1, <3>2, <3>3, CallUntouched
      <3>5. PICK C : C = {v \in Vars : Changes(v)}
        OBVIOUS
      <3>6. \A v \in C : v = x[1]
        BY <3>1, <3>2, <3>4, <3>5, UntouchedStays
      <3>7. C = {} \/ C = {x[1]}
        BY <3>6
      <3>8. Cardinality(C) <= 1
        <4>1. Cardinality({}) = 0 /\ Cardinality({x[1]}) = 1
          BY FS_EmptySet, FS_Singleton
        <4> QED  BY <3>7, <4>1
      <3> QED  BY <3>5, <3>8
    <2>2. CASE UNCHANGED vars
      BY <2>2
    <2> QED  BY <1>1, <2>1, <2>2
  <1> QED  BY <1>1, MemoryIsSound, PTL DEF Spec, OneDocumentChanges

(***************************************************************************)
(* Copies                                                                  *)
(***************************************************************************)
\* The item b answers every Get the way a does, but for the doubles.
Alike(a, b) ==
  /\ b.type = a.type
  /\ a.type = "String" => b.valuestring = a.valuestring
  /\ a.type = "Int" => b.valueint = a.valueint
  /\ a.type = "Double" => b.valuedouble = a.valuedouble

\* An integer of 64 bits is known by the unsigned one with the same bits.
LEMMA SameBits ==
  ASSUME NEW x \in Int64, NEW y \in Int64,
         \/ x = y
         \/ x = Cast("uint64", y)
         \/ Cast("uint64", x) = y
         \/ Cast("uint64", x) = Cast("uint64", y)
  PROVE  x = y
  <1>1. PICK m \in Nat : m = M64 \div 2 /\ M64 = 2 * m /\ m > 0
    BY WidthAssumption
  <1>2. x \in Int /\ x \in (-m)..(m - 1) /\ y \in Int /\ y \in (-m)..(m - 1)
    BY <1>1 DEF Int64
  <1>3. ASSUME NEW z \in Int, z \in (-m)..(m - 1)
        PROVE  Cast("uint64", z) = IF z < 0 THEN z + M64 ELSE z
    <2>1. z < 0 => z % M64 = z + M64
      BY <1>1, <1>3, Remainder
    <2>2. z >= 0 => z % M64 = z
      BY <1>1, <1>3, Remainder
    <2> QED  BY <1>3, <2>1, <2>2 DEF Cast, Unsigned
  <1>4. /\ Cast("uint64", x) = IF x < 0 THEN x + M64 ELSE x
        /\ Cast("uint64", y) = IF y < 0 THEN y + M64 ELSE y
    BY <1>2, <1>3
  <1> QED  BY <1>1, <1>2, <1>4

\* Printed and parsed again, an item is alike.
LEMMA ReparsedAlike ==
  ASSUME NEW item, Says(item), {"valuestring"} \subseteq DOMAIN item
  PROVE  Alike(item, Reparsed(item))
  <1>1. CASE IsNumber(item)
    <2>1. PICK t : t = PrintNumber(item)
      OBVIOUS
    <2>2. PICK it : it = ParseNumber(t)
      OBVIOUS
    <2>3. PICK new : new = Reparsed(item)
      OBVIOUS
    <2>4. /\ t.exp = 0
          /\ item.type = "Int" => t.half = NoFraction
          /\ item.type = "Double" => t.half \in {0, 1}
      BY <1>1, <2>1, PrintSays
    <2>5. it.type = item.type /\ {"type", "number"} \subseteq DOMAIN it
      <3>1. item.type = "Int" => it.type = "Int"
        BY <2>2, <2>4 DEF ParseNumber, NewItem
      <3>2. item.type = "Double" => it.type = "Double"
        BY <2>2, <2>4 DEF ParseNumber, NewItem, NoFraction
      <3>3. {"type", "number"} \subseteq DOMAIN it
        BY <2>2 DEF ParseNumber, NewItem
      <3> QED  BY <1>1, <3>1, <3>2, <3>3 DEF IsNumber
    <2>6. new = [it EXCEPT !.number = item.number]
      BY <1>1, <2>1, <2>2, <2>3 DEF Reparsed
    <2>7. new.type = item.type /\ new.number = item.number
      BY <2>5, <2>6
    <2>8. SaysNumber(new) /\ SaysNumber(item)
      BY <1>1, <2>3, <2>7, ReparsedSays DEF Says, IsNumber
    <2>9. CASE item.type = "Int"
      <3>1. PICK x \in Int64, y \in Int64 : x = item.valueint /\ y = new.valueint
        BY <2>8 DEF SaysNumber
      <3>2. /\ x \in Int /\ y \in Int /\ Cast("uint64", x) \in Int /\ Cast("uint64", y) \in Int
        BY CastType DEF Int64
      <3>3. /\ item.number = 2 * (IF item.sign = -1 THEN x ELSE Cast("uint64", x))
            /\ item.number = 2 * (IF new.sign = -1 THEN y ELSE Cast("uint64", y))
        BY <2>7, <2>8, <2>9, <3>1 DEF SaysNumber
      <3>4. \/ x = y
            \/ x = Cast("uint64", y)
            \/ Cast("uint64", x) = y
            \/ Cast("uint64", x) = Cast("uint64", y)
        BY <3>2, <3>3
      <3>5. x = y
        BY <3>1, <3>4, SameBits
      <3> QED  BY <2>3, <2>7, <2>9, <3>1, <3>5 DEF Alike
    <2>10. CASE item.type = "Double"
      BY <2>3, <2>7, <2>8, <2>10 DEF Alike, SaysNumber
    <2> QED  BY <1>1, <2>9, <2>10 DEF IsNumber
  <1>2. CASE ~IsNumber(item)
    <2>1. PICK new : new = [item EXCEPT !.sign = 0, !.valueint = IF item.type = "True" THEN 1 ELSE 0]
      OBVIOUS
    <2>2. new.type = item.type /\ new.valuestring = item.valuestring
      BY <2>1 DEF Says, Fields
    <2>3. new = Reparsed(item)
      BY <1>2, <2>1 DEF Reparsed
    <2> QED  BY <1>2, <2>2, <2>3 DEF Alike, IsNumber
  <1> QED  BY <1>1, <1>2

\* What is at r in the memory g has items alike, under the same keys and in the
\* same order, as what is at n in h.
Mirrors(h, n, g, r) ==
  /\ g[r].type = h[n].type /\ Len(g[r].child) = Len(h[n].child)
  /\ h[n].child \in Seq(Cells) /\ g[r].child \in Seq(Cells)
  /\ \A i \in DOMAIN h[n].child :
       /\ g[g[r].child[i]].string = h[h[n].child[i]].string
       /\ Alike(h[h[n].child[i]], g[g[r].child[i]])

\* A copy is a mirror.
LEMMA CopyMirrors ==
  ASSUME NEW h \in Memories, Numeric(h), NEW R, Tidy(h, R), NEW n \in Cells, Alive(h, n),
         NEW free, free \subseteq Cells, Cardinality(free) >= Cardinality(Trees(h, {n})),
         NEW g, g = Copy(h, n, free), NEW r, r = CopyCell(h, n, free)[n]
  PROVE  Mirrors(h, n, g, r)
  <1>1. PICK T : T = Trees(h, {n})
    OBVIOUS
  <1>2. T \subseteq Cells /\ n \in T /\ \A m \in T : Kids(h, m) \subseteq T
    BY <1>1, TreesHold
  <1>3. PICK at : at = CopyCell(h, n, free)
    OBVIOUS
  <1>4. at \in [T -> free] /\ IsInjective(at)
    <2>1. IsFiniteSet(T) /\ IsFiniteSet(free)
      BY <1>2, FS_Subset, CellsAssumption
    <2>2. Cardinality(T) \in Nat /\ Cardinality(free) \in Nat
      BY <2>1, FS_CardinalityType
    <2>3. Cardinality(T) <= Cardinality(free)
      BY <1>1, <2>2
    <2> QED  BY <2>1, <2>3, <1>1, <1>3, Allocated DEF CopyCell
  <1>5. PICK from : from = AntiFunction(at)
    OBVIOUS
  <1>6. \A m \in T : at[m] \in Cells /\ at[m] \in DOMAIN from /\ from[at[m]] = m
    <2>1. \A m \in T : at[m] \in DOMAIN from /\ from[at[m]] = m
      BY <1>4, <1>5, AntiOf
    <2> QED  BY <1>4, <2>1
  <1> DEFINE Key(m) == IF m = n THEN NoKey ELSE h[m].string
             List(m) == [i \in DOMAIN h[m].child |-> at[h[m].child[i]]]
             Copied(m) == [Reparsed(h[m]) EXCEPT !.string = Key(m), !.child = List(m)]
  <1>7. \A m \in T : g[at[m]] = Copied(m)
    <2>1. g = [c \in Cells |-> IF c \in DOMAIN from THEN Copied(from[c]) ELSE h[c]]
      BY <1>3, <1>5 DEF Copy
    <2> HIDE DEF Copied
    <2> QED  BY <1>6, <2>1
  <1>8. ASSUME NEW m \in T
        PROVE  /\ Alike(h[m], Copied(m)) /\ Copied(m).string = Key(m) /\ Copied(m).child = List(m)
    <2>1. h[m] \in Item /\ Says(h[m])
      BY <1>2 DEF Memories, Numeric
    <2>2. PICK it : it = Reparsed(h[m])
      OBVIOUS
    <2>3. Alike(h[m], it)
      BY <2>1, <2>2, ReparsedAlike DEF Item
    <2>4. h[m].type # "freed"
      <3>1. {c \in Cells : Alive(h, c)} \subseteq Cells /\ {n} \subseteq {c \in Cells : Alive(h, c)}
        OBVIOUS
      <3>2. \A c \in {d \in Cells : Alive(h, d)} : Kids(h, c) \subseteq {d \in Cells : Alive(h, d)}
        BY KidsAreCells DEF Tidy
      <3>3. T \subseteq {c \in Cells : Alive(h, c)}
        BY <1>1, <3>1, <3>2, TreesLeast
      <3> QED  BY <3>3 DEF Alive
    <2>5. it \in Item
      BY <2>1, <2>2, <2>4, ReparsedItem
    <2>6. PICK k : k = Key(m)
      OBVIOUS
    <2>7. PICK list : list = List(m)
      OBVIOUS
    <2>8. PICK new : new = [it EXCEPT !.string = k, !.child = list]
      OBVIOUS
    <2>9. new = Copied(m)
      BY <2>2, <2>6, <2>7, <2>8
    <2>10. /\ new.string = k /\ new.child = list /\ new.type = it.type /\ new.valueint = it.valueint
           /\ new.valuedouble = it.valuedouble /\ new.valuestring = it.valuestring
      BY <2>5, <2>8 DEF Item
    <2> HIDE DEF Copied
    <2> QED  BY <2>3, <2>6, <2>7, <2>9, <2>10 DEF Alike
  <1>9. PICK list \in Seq(Cells) : list = h[n].child
    BY KidsAreCells
  <1>10. /\ Len(list) \in Nat /\ DOMAIN list = 1..Len(list)
         /\ \A i \in DOMAIN list : list[i] \in T /\ list[i] # n
    <2>1. \A i \in DOMAIN list : list[i] \in Kids(h, n)
      BY <1>9 DEF Kids, Range
    <2>2. \A i \in DOMAIN list : list[i] \in T
      BY <1>2, <2>1
    <2>3. n \notin Kids(h, n)
      BY <1>1, <1>2, NoCycle
    <2> QED  BY <2>1, <2>2, <2>3
  <1>11. PICK new : new = [i \in 1..Len(list) |-> at[list[i]]]
    OBVIOUS
  <1>12. new \in Seq(Cells) /\ Len(new) = Len(list) /\ \A i \in DOMAIN list : new[i] = at[list[i]]
    <2>1. \A i \in 1..Len(list) : at[list[i]] \in Cells
      BY <1>6, <1>10
    <2> QED  BY <1>10, <1>11, <2>1
  <1>13. new = List(n)
    BY <1>9, <1>10, <1>11
  <1> HIDE DEF Copied, List
  <1>14. g[r].child = new /\ g[r].type = h[n].type
    BY <1>2, <1>3, <1>7, <1>8, <1>13 DEF Alike
  <1>15. ASSUME NEW i \in DOMAIN list
         PROVE  g[new[i]].string = h[list[i]].string /\ Alike(h[list[i]], g[new[i]])
    <2>1. g[new[i]] = Copied(list[i])
      BY <1>7, <1>10, <1>12
    <2> QED  BY <1>8, <1>10, <2>1
  <1> QED  BY <1>9, <1>12, <1>14, <1>15 DEF Mirrors

\* A mirror that part of the memory outside is freed of is one.
LEMMA MirrorStays ==
  ASSUME NEW h, NEW n, NEW b, NEW r, Mirrors(h, n, b, r), NEW g, g[r] = b[r],
         \A c \in Kids(b, r) : g[c] = b[c]
  PROVE  Mirrors(h, n, g, r)
  <1>1. ASSUME NEW i \in DOMAIN h[n].child
        PROVE  g[b[r].child[i]] = b[b[r].child[i]]
    <2>1. i \in DOMAIN b[r].child
      BY <1>1 DEF Mirrors
    <2> QED  BY <2>1 DEF Kids, Range
  <1> QED  BY <1>1 DEF Mirrors

\* A set of numbers has a smallest one.
LEMMA SmallestNat ==
  ASSUME NEW I \in SUBSET Nat, I # {}
  PROVE  \E i \in I : \A j \in I : i <= j
  <1> DEFINE Less == {p \in Nat \X Nat : p[1] < p[2]}
  <1>1. IsWellFoundedOn(Less, Nat)
    BY NatLessThanWellFounded DEF OpToRel
  <1>2. PICK i \in I : \A j \in I : ~(<<j, i>> \in Less)
    <2> HIDE DEF Less
    <2> QED  BY <1>1, WFMin
  <1>3. \A j \in I : ~(j < i)
    BY <1>2
  <1> QED  BY <1>2, <1>3

\* What is found in a mirror is alike, or nothing in both.
Found(h, x, g, y) == (x = NULL <=> y = NULL) /\ (x # NULL => Alike(h[x], g[y]))

\* By key and by index
LEMMA MirrorFinds ==
  ASSUME NEW h, NEW n, NEW g, NEW r, Mirrors(h, n, g, r)
  PROVE  /\ \A k : Found(h, GetObjectItem(h, n, k), g, GetObjectItem(g, r, k))
         /\ \A i \in Int : Found(h, GetArrayItem(h, n, i), g, GetArrayItem(g, r, i))
  <1>1. PICK old \in Seq(Cells), new \in Seq(Cells) :
          /\ old = h[n].child /\ new = g[r].child /\ Len(new) = Len(old) /\ DOMAIN new = DOMAIN old
    BY DEF Mirrors
  <1>2. \A i \in DOMAIN old : /\ old[i] # NULL /\ new[i] # NULL
                              /\ g[new[i]].string = h[old[i]].string /\ Alike(h[old[i]], g[new[i]])
    BY <1>1, CellsAssumption DEF Mirrors
  <1>3. ASSUME NEW k PROVE Found(h, GetObjectItem(h, n, k), g, GetObjectItem(g, r, k))
    <2>1. PICK I : I = {i \in DOMAIN old : Fold[h[old[i]].string] = Fold[k]}
      OBVIOUS
    <2>2. I = {i \in DOMAIN new : Fold[g[new[i]].string] = Fold[k]}
      BY <1>1, <1>2, <2>1
    <2>3. PICK first : first = CHOOSE i \in I : \A j \in I : i <= j
      OBVIOUS
    <2>4. /\ GetObjectItem(h, n, k) = IF I = {} THEN NULL ELSE old[first]
          /\ GetObjectItem(g, r, k) = IF I = {} THEN NULL ELSE new[first]
      <3> DEFINE named(m, o) == {i \in DOMAIN m[o].child : Fold[m[m[o].child[i]].string] = Fold[k]}
      <3>1. \A m, o : GetObjectItem(m, o, k) =
              IF named(m, o) = {} THEN NULL
              ELSE m[o].child[CHOOSE i \in named(m, o) : \A j \in named(m, o) : i <= j]
        BY DEF GetObjectItem
      <3>2. named(h, n) = I /\ named(g, r) = I
        BY <1>1, <2>1, <2>2
      <3> HIDE DEF named
      <3> QED  BY <1>1, <2>3, <3>1, <3>2
    <2>5. I # {} => first \in DOMAIN old
      <3>1. I \subseteq Nat
        BY <1>1, <2>1
      <3>2. I # {} => \E i \in I : \A j \in I : i <= j
        BY <3>1, SmallestNat
      <3> QED  BY <2>1, <2>3, <3>2
    <2> QED  BY <1>2, <2>4, <2>5 DEF Found
  <1>4. ASSUME NEW i \in Int PROVE Found(h, GetArrayItem(h, n, i), g, GetArrayItem(g, r, i))
    <2>1. PICK len \in Nat : len = Len(old) /\ len = Len(new) /\ DOMAIN old = 1..len /\ (old = <<>> <=> len = 0)
            /\ (new = <<>> <=> len = 0)
      BY <1>1
    <2>2. PICK j \in Int : j = IF i > 0 THEN i + 1 ELSE 1
      OBVIOUS
    <2>3. /\ GetArrayItem(h, n, i) = IF len = 0 \/ i >= len THEN NULL ELSE old[j]
          /\ GetArrayItem(g, r, i) = IF len = 0 \/ i >= len THEN NULL ELSE new[j]
      BY <1>1, <2>1, <2>2 DEF GetArrayItem
    <2>4. len # 0 /\ i < len => j \in DOMAIN old
      BY <2>1, <2>2
    <2> QED  BY <1>2, <2>1, <2>3, <2>4 DEF Found
  <1> QED  BY <1>3, <1>4

\* What the calls that read return when they find n in the memory h: whether it
\* is there, the integers, the string, the truth value, whether it is null.
Told(h, n) ==
  <<n # NULL,
    [T \in IntTypes |-> Result(n, IsNumber(h[n]),
        Cast(T, IF h[n].type = "Int" THEN h[n].valueint ELSE Truncated(h[n].valuedouble)))],
    Result(n, h[n].type = "String", h[n].valuestring),
    Result(n, h[n].type \in {"False", "True"}, h[n].type = "True"),
    n # NULL /\ h[n].type = "NULL">>

\* Items that are alike are told the same.
LEMMA ToldAlike ==
  ASSUME NEW h, NEW x, NEW g, NEW y, Found(h, x, g, y)
  PROVE  Told(g, y) = Told(h, x)
  <1>1. CASE x = NULL /\ y = NULL
    BY <1>1 DEF Told, Result
  <1>2. CASE x # NULL /\ y # NULL
    <2>1. PICK a, b : a = h[x] /\ b = g[y]
      OBVIOUS
    <2>2. Alike(a, b)
      BY <1>2, <2>1 DEF Found
    <2>3. \A T : Result(y, IsNumber(b), Cast(T, IF b.type = "Int" THEN b.valueint ELSE Truncated(b.valuedouble)))
               = Result(x, IsNumber(a), Cast(T, IF a.type = "Int" THEN a.valueint ELSE Truncated(a.valuedouble)))
      <3>1. IsNumber(a) <=> IsNumber(b)
        BY <2>2 DEF Alike, IsNumber
      <3>2. IsNumber(a) => (IF b.type = "Int" THEN b.valueint ELSE Truncated(b.valuedouble))
                         = (IF a.type = "Int" THEN a.valueint ELSE Truncated(a.valuedouble))
        BY <2>2 DEF Alike, IsNumber
      <3>3. CASE IsNumber(a)
        BY <1>2, <3>1, <3>2, <3>3, Zenon DEF Result
      <3>4. CASE ~IsNumber(a)
        BY <3>1, <3>4 DEF Result
      <3> QED  BY <3>3, <3>4
    <2>4. Result(y, b.type = "String", b.valuestring) = Result(x, a.type = "String", a.valuestring)
      BY <1>2, <2>2 DEF Result, Alike
    <2>5. Result(y, b.type \in {"False", "True"}, b.type = "True")
          = Result(x, a.type \in {"False", "True"}, a.type = "True")
      BY <1>2, <2>2 DEF Result, Alike
    <2>6. b.type = a.type
      BY <2>2 DEF Alike
    <2> QED  BY <1>2, <2>1, <2>3, <2>4, <2>5, <2>6 DEF Told
  <1> QED  BY <1>1, <1>2 DEF Found

\* What Reads(w) is made of
ReadsTold(w) ==
  [size |-> GetArraySize(w),
   members |-> [k \in Keys |-> Told(heap, Lookup(w, k))],
   elements |-> [i \in Indices |-> LET t == Told(heap, LookupAt(w, i)) IN <<t[2], t[3], t[4], t[5]>>]]

ReadsAreTold == \A w : Reads(w) = ReadsTold(w)

\* Reads(w) is what is told of the items w finds.
LEMMA ReadsIsTold == ReadsAreTold
  <1> SUFFICES ASSUME NEW w PROVE Reads(w) = ReadsTold(w)
    BY DEF ReadsAreTold
  <1>1. ASSUME NEW k \in Keys
        PROVE  Told(heap, Lookup(w, k)) =
                 <<KeyExist(w, k), [T \in IntTypes |-> GetInteger(w, k, T)],
                   GetString(w, k), GetBool(w, k), IsNull(w, k)>>
    BY DEF Told, KeyExist, GetInteger, GetString, GetBool, IsNull, IntegerOf, StringOf, BoolOf
  <1>2. ASSUME NEW i \in Indices
        PROVE  (LET t == Told(heap, LookupAt(w, i)) IN <<t[2], t[3], t[4], t[5]>>) =
                 <<[T \in IntTypes |-> GetIntegerAt(w, i, T)],
                   GetStringAt(w, i), GetBoolAt(w, i), IsNullAt(w, i)>>
    BY DEF Told, GetIntegerAt, GetStringAt, GetBoolAt, IsNullAt, IntegerOf, StringOf, BoolOf
  <1> QED  BY <1>1, <1>2 DEF Reads, ReadsTold

\* Now and after a step
LEMMA ReadsStayTold == ReadsAreTold /\ ReadsAreTold'
  <1>1. []ReadsAreTold
    BY ReadsIsTold, PTL
  <1> QED  BY <1>1, PTL

\* A variable that was assigned: what it is about, and the memory
LEMMA BecomesIs ==
  ASSUME WrappersOK(obj), NEW w \in DOMAIN obj, NEW h, NEW own, Becomes(w, h, own)
  PROVE  heap' = h /\ Focus(w)' = own
  <1>1. Below(w) \subseteq DOMAIN obj /\ w \notin Below(w)
    BY CachedBelow DEF Below
  <1>2. PICK old : old = Without(Below(w))
    OBVIOUS
  <1>3. w \in DOMAIN old
    BY <1>1, <1>2 DEF Without, Restrict
  <1>4. obj' = [old EXCEPT ![w] = [own |-> own, ext |-> NULL, trav |-> own]]
    BY <1>2 DEF Becomes
  <1>5. obj'[w].own = own /\ obj'[w].ext = NULL
    BY <1>3, <1>4
  <1> QED  BY <1>5 DEF Becomes, Focus

\* An item and those in its list stay when other documents are freed.
LEMMA MirrorLeft ==
  ASSUME NEW b, NEW ob, NEW mv, NEW X, NEW r, Sound(b, ob, mv, X \cup {r}),
         NEW P, P \subseteq Roots(ob), NEW h, NEW n, Mirrors(h, n, b, r)
  PROVE  Mirrors(h, n, Delete(b, P), r)
  <1>1. PICK R : R = Roots(ob) \cup (X \cup {r})
    OBVIOUS
  <1>2. b \in Memories /\ Tidy(b, R) /\ R \subseteq Cells /\ r \in R /\ P \subseteq R /\ r \notin P
    BY <1>1 DEF Sound, Tidy
  <1>3. PICK A : A = {r}
    OBVIOUS
  <1>4. A \subseteq R /\ A \cap P = {}
    BY <1>2, <1>3
  <1>5. Trees(b, A) \cap Trees(b, P) = {}
    BY <1>2, <1>4, TreesApart
  <1>6. r \in Trees(b, A) /\ Kids(b, r) \subseteq Trees(b, A) /\ Trees(b, A) \subseteq Cells
    BY <1>2, <1>3, <1>4, TreesHold
  <1>7. PICK g : g = Delete(b, P)
    OBVIOUS
  <1>8. \A c \in Trees(b, A) : g[c] = b[c]
    BY <1>5, <1>6, <1>7 DEF Delete
  <1>9. g[r] = b[r] /\ \A c \in Kids(b, r) : g[c] = b[c]
    BY <1>6, <1>8
  <1> QED  BY <1>7, <1>9, MirrorStays

\* The variable assigned to is about a mirror of what w is about, or both are about nothing.
LEMMA AssignMirrors ==
  ASSUME WrappersOK(obj), NEW X, Sound(heap, obj, moved, X), Numeric(heap),
         NEW v \in Vars, NEW w \in DOMAIN obj, Assign(<<v>>, w)
  PROVE  \/ Focus(w) = NULL /\ Focus(<<v>>)' = NULL
         \/ Focus(w) # NULL /\ Focus(<<v>>)' # NULL /\ Mirrors(heap, Focus(w), heap', Focus(<<v>>)')
  <1>1. Live(w) /\ ParseTextOf(<<v>>, Focus(w))
    BY DEF Assign
  <1>2. PICK x \in DOMAIN obj : x = <<v>>
    BY DEF WrappersOK
  <1>3. CASE Focus(w) = NULL
    <2>1. PICK own : own = NULL
      OBVIOUS
    <2>2. Becomes(x, Cleared(x), own)
      BY <1>1, <1>2, <1>3, <2>1 DEF ParseTextOf
    <2>3. Focus(x)' = own
      BY <2>2, BecomesIs
    <2> QED  BY <1>2, <1>3, <2>1, <2>3
  <1>4. CASE Focus(w) # NULL
    <2>1. PICK n \in Cells : n = Focus(w) /\ Alive(heap, n)
      BY <1>1, <1>4, FocusIsItem
    <2>2. PICK copy : copy = Copy(heap, n, Free)
      OBVIOUS
    <2>3. PICK r : r = CopyCell(heap, n, Free)[n]
      OBVIOUS
    <2>4. PICK P : P = Owned(Below(x) \cup {x})
      OBVIOUS
    <2>5. PICK h : h = Delete(copy, P)
      OBVIOUS
    <2>6. Cardinality(Free) >= Cardinality(Trees(heap, {n})) /\ Becomes(x, h, r)
      BY <1>1, <1>2, <1>4, <2>1, <2>2, <2>3, <2>4, <2>5 DEF ParseTextOf
    <2>7. heap' = h /\ Focus(x)' = r
      BY <2>6, BecomesIs
    <2>8. /\ Free \subseteq {c \in Cells : ~Alive(heap, c)} /\ r \in Free
          /\ Sound(copy, obj, moved, X \cup {r})
      BY <2>1, <2>2, <2>3, <2>6, CopiedInFree
    <2>9. Mirrors(heap, n, copy, r)
      <3>1. PICK R : R = Roots(obj) \cup X
        OBVIOUS
      <3>2. heap \in Memories /\ Tidy(heap, R)
        BY <3>1 DEF Sound
      <3>3. PICK free : free = Free
        OBVIOUS
      <3>4. free \subseteq Cells /\ Cardinality(free) >= Cardinality(Trees(heap, {n}))
        BY <2>6, <2>8, <3>3
      <3> QED  BY <2>1, <2>2, <2>3, <3>2, <3>3, <3>4, CopyMirrors
    <2>10. P \subseteq Roots(obj)
      <3>1. Below(x) \cup {x} \subseteq DOMAIN obj
        BY CachedBelow DEF Below
      <3> QED  BY <2>4, <3>1 DEF Owned, Roots
    <2>11. Mirrors(heap, n, h, r)
      BY <2>5, <2>8, <2>9, <2>10, MirrorLeft
    <2>12. r # NULL
      BY <2>8, CellsAssumption
    <2> QED  BY <1>2, <1>4, <2>1, <2>7, <2>11, <2>12
  <1> QED  BY <1>3, <1>4

\* A wrapper about a mirror finds what the other one finds.
LEMMA AssignFinds ==
  ASSUME NEW w, NEW x,
         \/ Focus(w) = NULL /\ Focus(x)' = NULL
         \/ Focus(w) # NULL /\ Focus(x)' # NULL /\ Mirrors(heap, Focus(w), heap', Focus(x)')
  PROVE  /\ GetArraySize(x)' = GetArraySize(w)
         /\ \A k \in Keys : Found(heap, Lookup(w, k), heap', Lookup(x, k)')
         /\ \A i \in Indices : Found(heap, LookupAt(w, i), heap', LookupAt(x, i)')
  <1>1. CASE Focus(w) = NULL /\ Focus(x)' = NULL
    <2>1. GetArraySize(w) = 0 /\ GetArraySize(x)' = 0
      BY <1>1 DEF GetArraySize, Is, TypeOf
    <2>2. \A k : Lookup(w, k) = NULL /\ Lookup(x, k)' = NULL
      BY <1>1 DEF Lookup, Is, TypeOf
    <2>3. \A i : LookupAt(w, i) = NULL /\ LookupAt(x, i)' = NULL
      BY <1>1 DEF LookupAt, Is, TypeOf
    <2> QED  BY <2>1, <2>2, <2>3 DEF Found
  <1>2. CASE Focus(w) # NULL /\ Focus(x)' # NULL /\ Mirrors(heap, Focus(w), heap', Focus(x)')
    <2>1. PICK n, r, h, g : n = Focus(w) /\ r = Focus(x)' /\ h = heap /\ g = heap'
      OBVIOUS
    <2>2. n # NULL /\ r # NULL /\ Mirrors(h, n, g, r)
      BY <1>2, <2>1
    <2>3. g[r].type = h[n].type /\ Len(g[r].child) = Len(h[n].child)
      BY <2>2 DEF Mirrors
    <2>4. /\ GetArraySize(w) = IF h[n].type = "Array" THEN Len(h[n].child) ELSE 0
          /\ GetArraySize(x)' = IF g[r].type = "Array" THEN Len(g[r].child) ELSE 0
      BY <2>1, <2>2 DEF GetArraySize, Is, TypeOf
    <2>5. /\ \A k : Lookup(w, k) = IF h[n].type = "Object" THEN GetObjectItem(h, n, k) ELSE NULL
          /\ \A k : Lookup(x, k)' = IF g[r].type = "Object" THEN GetObjectItem(g, r, k) ELSE NULL
      BY <2>1, <2>2 DEF Lookup, Is, TypeOf
    <2>6. /\ \A i : LookupAt(w, i) = IF h[n].type = "Array" THEN GetArrayItem(h, n, i) ELSE NULL
          /\ \A i : LookupAt(x, i)' = IF g[r].type = "Array" THEN GetArrayItem(g, r, i) ELSE NULL
      BY <2>1, <2>2 DEF LookupAt, Is, TypeOf
    <2>7. /\ \A k : Found(h, GetObjectItem(h, n, k), g, GetObjectItem(g, r, k))
          /\ \A i \in Int : Found(h, GetArrayItem(h, n, i), g, GetArrayItem(g, r, i))
          /\ Found(h, NULL, g, NULL)
      BY <2>2, MirrorFinds DEF Found
    <2>8. \A k : Found(h, Lookup(w, k), g, Lookup(x, k)')
      BY <2>3, <2>5, <2>7
    <2>9. \A i \in Indices : Found(h, LookupAt(w, i), g, LookupAt(x, i)')
      BY <2>3, <2>6, <2>7, CallersAssumption
    <2> QED  BY <2>1, <2>3, <2>4, <2>8, <2>9
  <1> QED  BY <1>1, <1>2

\* An assignment is read the same.
LEMMA AssignReads ==
  ASSUME WrappersOK(obj), NEW X, Sound(heap, obj, moved, X), Numeric(heap),
         NEW v \in Vars, NEW w \in DOMAIN obj, Assign(<<v>>, w)
  PROVE  Reads(<<v>>)' = Reads(w)
  <1>1. /\ GetArraySize(<<v>>)' = GetArraySize(w)
        /\ \A k \in Keys : Found(heap, Lookup(w, k), heap', Lookup(<<v>>, k)')
        /\ \A i \in Indices : Found(heap, LookupAt(w, i), heap', LookupAt(<<v>>, i)')
    BY AssignMirrors, AssignFinds
  <1>2. \A k \in Keys : Told(heap', Lookup(<<v>>, k)') = Told(heap, Lookup(w, k))
    BY <1>1, ToldAlike
  <1>3. \A i \in Indices : Told(heap', LookupAt(<<v>>, i)') = Told(heap, LookupAt(w, i))
    BY <1>1, ToldAlike
  <1>4. ReadsTold(<<v>>)' = ReadsTold(w)
    BY <1>1, <1>2, <1>3 DEF ReadsTold
  <1>5. Reads(w) = ReadsTold(w) /\ Reads(<<v>>)' = ReadsTold(<<v>>)'
    BY ReadsStayTold DEF ReadsAreTold
  <1> QED  BY <1>4, <1>5

\* A document that was copied by = or by the copy constructor answers every Get
\* (but for the doubles), KeyExist, IsNull and GetArraySize as the original did:
\* printing and parsing keep the order, the keys and the values.
THEOREM CopiesReadTheSameHolds ==
  ASSUME NumbersFit, "first_unsigned" \notin Liberties
  PROVE  Spec => CopiesReadTheSame
  <1>1. ASSUME Inv, Numeric(heap), NEW v \in Vars, NEW w \in DOMAIN obj, Assign(<<v>>, w)
        PROVE  Reads(<<v>>)' = Reads(w)
    BY <1>1, AssignReads DEF Inv
  <1>2. Inv /\ Numeric(heap) /\ [Next]_vars =>
          [\A v \in Vars : \A w \in DOMAIN obj : Assign(<<v>>, w) => Reads(<<v>>)' = Reads(w)]_vars
    BY <1>1
  <1> QED  BY <1>2, MemoryIsSound, NumbersKept, PTL DEF Spec, CopiesReadTheSame
=============================================================================
