------------------------- MODULE CJsonWrapperProofs -------------------------
(***************************************************************************)
(* The wrappers of neb::CJsonObject.  operator[] hands out objects that    *)
(* look into the document of their parent, and the map that keeps them is  *)
(* corrected call by call.  Whatever careful callers do, a wrapper that    *)
(* can be used is about the item a search would find now (WrappersFresh),  *)
(* and the cursor of GetKey is on a member of the document it goes through *)
(* (CursorLive).  One lemma for each call that changes a document, after   *)
(* what all of them have in common: a call edits the list of one item, and *)
(* only one wrapper is about that item.                                    *)
(***************************************************************************)
EXTENDS CJsonDocumentProofs

(***************************************************************************)
(* What wrappers see                                                       *)
(***************************************************************************)
\* Callers that use operator[] keep keys apart that the library keeps apart, and
\* indexes from 0 on: m_mapJsonObjectRef has the key as it is written, cJSON.c
\* compares without case, and an index below 0 finds the first element.
NamesApart ==
  /\ Keys \cap Indices = {} /\ Indices \subseteq Nat
  /\ \A k, l \in Keys : Fold[k] = Fold[l] => k = l

\* What the wrapper w is about: its own document, or an item of its parent's
About(ob, w) == IF ob[w].own # NULL THEN ob[w].own ELSE ob[w].ext

\* w can be used: no destructor or move took what it is about.
Usable(h, ob, mv, w) == w[1] \notin mv /\ (About(ob, w) = NULL \/ Alive(h, About(ob, w)))

\* What is found in the item a under the key or index s
Finds(h, a, s) ==
  IF a = NULL THEN NULL
  ELSE IF s \in Indices THEN IF h[a].type = "Array" THEN GetArrayItem(h, a, s) ELSE NULL
  ELSE IF h[a].type = "Object" THEN GetObjectItem(h, a, s) ELSE NULL

\* Variables look into no other document, what a wrapper looks into is there only
\* while its parent's item is, and it is what the parent would find now.
Fresh(h, ob, mv) ==
  /\ \A v \in Vars : ob[<<v>>].ext = NULL
  /\ \A w \in DOMAIN ob : Usable(h, ob, mv, w) /\ ob[w].ext # NULL => Usable(h, ob, mv, Parent(w))
  /\ \A w \in DOMAIN ob :
       Len(w) > 1 /\ Usable(h, ob, mv, Parent(w)) /\ ob[w].own = NULL
         => ob[w].ext = Finds(h, About(ob, Parent(w)), w[Len(w)])

\* A way of one step is a variable.
LEMMA ShortWay ==
  ASSUME NEW w, Way(w), Len(w) <= 1
  PROVE  w = <<w[1]>> /\ w[1] \in Vars /\ Len(w) = 1
  <1>1. w \in Seq(Steps) /\ w # <<>> /\ Len(w) \in Nat /\ w[1] \in Vars
    BY DEF Way
  <1>2. Len(w) = 1
    <2>1. PICK n : n = Len(w)
      OBVIOUS
    <2>2. n \in Nat /\ n # 0 /\ n <= 1
      BY <1>1, <2>1
    <2>3. n = 1
      BY <2>2
    <2> QED  BY <2>1, <2>3
  <1>3. DOMAIN w = 1..1
    BY <1>1, <1>2
  <1> QED  BY <1>1, <1>2, <1>3

\* A longer one ends in a key or an index.
LEMMA LongWay ==
  ASSUME NEW w, Way(w), Len(w) > 1
  PROVE  w[Len(w)] \in Keys \cup Indices /\ Len(w) \in Nat
  <1>1. w \in Seq(Steps) /\ Len(w) \in Nat /\ \A i \in 2..Len(w) : w[i] \in Keys \cup Indices
    BY DEF Way
  <1> QED  BY <1>1

\* Ways with the same parent and the same last step are the same.
LEMMA SameWay ==
  ASSUME NEW w, Way(w), Len(w) > 1, NEW x, Way(x), Len(x) > 1,
         Parent(w) = Parent(x), w[Len(w)] = x[Len(x)]
  PROVE  w = x
  <1>1. w \in Seq(Steps) /\ x \in Seq(Steps) /\ Len(w) \in Nat /\ Len(x) \in Nat
    BY DEF Way
  <1>2. /\ Len(Parent(w)) = Len(w) - 1 /\ \A i \in 1..(Len(w) - 1) : Parent(w)[i] = w[i]
        /\ Len(Parent(x)) = Len(x) - 1 /\ \A i \in 1..(Len(x) - 1) : Parent(x)[i] = x[i]
    BY ParentWay
  <1>3. Len(w) = Len(x)
    BY <1>1, <1>2
  <1>4. ASSUME NEW i \in 1..Len(w) PROVE w[i] = x[i]
    BY <1>1, <1>2, <1>3, <1>4
  <1>5. DOMAIN w = 1..Len(w) /\ DOMAIN x = 1..Len(x)
    BY <1>1
  <1> QED  BY <1>1, <1>3, <1>4, <1>5

\* What is found in an item is a child of it.
LEMMA FindsKid ==
  ASSUME NamesApart, NEW h \in Memories, NEW a, NEW s, a \in Cells \cup {NULL}, Finds(h, a, s) # NULL
  PROVE  a \in Cells /\ Finds(h, a, s) \in Kids(h, a)
  <1>1. a \in Cells
    BY DEF Finds
  <1>2. CASE s \in Indices
    <2>1. s \in Int
      BY <1>2 DEF NamesApart
    <2> QED  BY <1>1, <1>2, <2>1, FoundAtIsKid DEF Finds
  <1>3. CASE s \notin Indices
    BY <1>1, <1>3, FoundIsKid DEF Finds
  <1> QED  BY <1>1, <1>2, <1>3

\* What a key finds is named so, and so is nothing before it.
LEMMA FirstNamed ==
  ASSUME NEW h \in Memories, NEW a \in Cells, NEW k
  PROVE  \/ /\ GetObjectItem(h, a, k) = NULL
            /\ \A i \in DOMAIN h[a].child : Fold[h[h[a].child[i]].string] # Fold[k]
         \/ \E i \in DOMAIN h[a].child :
              /\ GetObjectItem(h, a, k) = h[a].child[i] /\ Fold[h[h[a].child[i]].string] = Fold[k]
              /\ \A j \in DOMAIN h[a].child : Fold[h[h[a].child[j]].string] = Fold[k] => i <= j
  <1> DEFINE Named(i) == Fold[h[h[a].child[i]].string] = Fold[k]
             named == {i \in DOMAIN h[a].child : Named(i)}
  <1>1. named \in SUBSET Nat
    <2>1. h[a].child \in Seq(Cells)
      BY KidsAreCells
    <2> QED  BY <2>1
  <1>2. GetObjectItem(h, a, k) = IF named = {} THEN NULL
                                 ELSE h[a].child[CHOOSE i \in named : \A j \in named : i <= j]
    BY DEF GetObjectItem
  <1>3. CASE named = {}
    BY <1>2, <1>3
  <1>4. CASE named # {}
    <2>1. \E i \in named : \A j \in named : i <= j
      BY <1>1, <1>4, SmallestNat
    <2> DEFINE n == CHOOSE i \in named : \A j \in named : i <= j
    <2>2. n \in named /\ \A j \in named : n <= j
      <3> HIDE DEF named
      <3> QED  BY <2>1
    <2>3. GetObjectItem(h, a, k) = h[a].child[n]
      BY <1>2, <1>4
    <2> HIDE DEF n
    <2> QED  BY <2>2, <2>3
  <1> QED  BY <1>3, <1>4

\* So it is found in a list that is the same.
LEMMA SameFound ==
  ASSUME NEW h, NEW g, NEW f, g[f].child = h[f].child,
         \A i \in DOMAIN h[f].child : g[h[f].child[i]].string = h[h[f].child[i]].string, NEW k
  PROVE  GetObjectItem(g, f, k) = GetObjectItem(h, f, k)
  <1> DEFINE named(m) == {i \in DOMAIN m[f].child : Fold[m[m[f].child[i]].string] = Fold[k]}
  <1>1. \A i : i \in named(g) <=> i \in named(h)
    OBVIOUS
  <1>2. named(g) = named(h)
    BY <1>1
  <1>3. \A m : GetObjectItem(m, f, k) = IF named(m) = {} THEN NULL
                                 ELSE m[f].child[CHOOSE i \in named(m) : \A j \in named(m) : i <= j]
    BY DEF GetObjectItem
  <1> HIDE DEF named
  <1> QED  BY <1>2, <1>3

\* Different steps find different items.
LEMMA FindsApart ==
  ASSUME NamesApart, NEW h \in Memories, NEW R, Tidy(h, R), NEW a, a \in Cells \cup {NULL},
         NEW s \in Keys \cup Indices, NEW t \in Keys \cup Indices,
         Finds(h, a, s) = Finds(h, a, t), Finds(h, a, s) # NULL
  PROVE  s = t
  <1>1. a \in Cells /\ a # NULL
    BY CellsAssumption DEF Finds
  <1>2. IsInjective(h[a].child) /\ h[a].child \in Seq(Cells)
    BY <1>1, KidsAreCells DEF Tidy
  <1>3. CASE s \in Indices
    <2>1. h[a].type = "Array" /\ t \in Indices
      BY <1>1, <1>3 DEF Finds
    <2>2. GetArrayItem(h, a, s) = GetArrayItem(h, a, t) /\ GetArrayItem(h, a, s) # NULL
      BY <1>1, <1>3, <2>1 DEF Finds
    <2>3. s \in Nat /\ t \in Nat
      BY <1>3, <2>1 DEF NamesApart
    <2>4. h[a].child[IF s > 0 THEN s + 1 ELSE 1] = h[a].child[IF t > 0 THEN t + 1 ELSE 1]
          /\ h[a].child # <<>> /\ s < Len(h[a].child) /\ t < Len(h[a].child)
      BY <1>2, <2>2, <2>3 DEF GetArrayItem
    <2>5. /\ (IF s > 0 THEN s + 1 ELSE 1) = s + 1 /\ (IF t > 0 THEN t + 1 ELSE 1) = t + 1
          /\ s + 1 \in DOMAIN h[a].child /\ t + 1 \in DOMAIN h[a].child
      BY <1>2, <2>3, <2>4
    <2>6. s + 1 = t + 1
      BY <1>2, <2>4, <2>5 DEF IsInjective
    <2> QED  BY <2>3, <2>6
  <1>4. CASE s \notin Indices
    <2>1. h[a].type = "Object" /\ t \notin Indices
      BY <1>1, <1>4 DEF Finds
    <2>2. GetObjectItem(h, a, s) = GetObjectItem(h, a, t) /\ GetObjectItem(h, a, s) # NULL
      BY <1>1, <1>4, <2>1 DEF Finds
    <2>3. Fold[h[GetObjectItem(h, a, s)].string] = Fold[s]
      BY <1>1, <2>2, FirstNamed
    <2>4. Fold[h[GetObjectItem(h, a, t)].string] = Fold[t]
      BY <1>1, <2>2, FirstNamed
    <2> QED  BY <1>4, <2>1, <2>2, <2>3, <2>4 DEF NamesApart
  <1> QED  BY <1>3, <1>4

\* What a wrapper is about is a cell, or nothing.
LEMMA AboutIsPointer ==
  ASSUME NEW ob, WrappersOK(ob), NEW w \in DOMAIN ob
  PROVE  About(ob, w) \in Cells \cup {NULL}
  BY DEF About, WrappersOK, Wrapper, Pointers

\* What a wrapper that owns nothing is about is an item its parent's item has.
LEMMA SeenThroughParent ==
  ASSUME NamesApart, NEW h, NEW ob, NEW mv, NEW X, WrappersOK(ob), Sound(h, ob, mv, X), Fresh(h, ob, mv),
         NEW w \in DOMAIN ob, Usable(h, ob, mv, w), ob[w].own = NULL, ob[w].ext # NULL,
         NEW d, d = About(ob, Parent(w))
  PROVE  /\ Len(w) > 1 /\ Parent(w) \in DOMAIN ob /\ Usable(h, ob, mv, Parent(w))
         /\ d \in Cells /\ d # NULL
         /\ ob[w].ext = Finds(h, d, w[Len(w)]) /\ ob[w].ext \in Kids(h, d)
  <1>1. Way(w) /\ h \in Memories
    BY DEF WrappersOK, Sound
  <1>2. Len(w) > 1
    <2>1. PICK n : n = Len(w)
      OBVIOUS
    <2>2. n \in Nat
      BY <1>1, <2>1 DEF Way
    <2>3. n <= 1 => w = <<w[1]>> /\ w[1] \in Vars
      BY <1>1, <2>1, ShortWay
    <2>4. ~(n <= 1)
      BY <2>3 DEF Fresh
    <2> QED  BY <2>1, <2>2, <2>4
  <1>3. Parent(w) \in DOMAIN ob
    BY <1>2 DEF WrappersOK
  <1>4. Usable(h, ob, mv, Parent(w))
    BY DEF Fresh
  <1>5. ob[w].ext = Finds(h, d, w[Len(w)])
    BY <1>2, <1>4 DEF Fresh
  <1>6. d \in Cells \cup {NULL}
    BY <1>3, AboutIsPointer
  <1>7. d \in Cells /\ Finds(h, d, w[Len(w)]) \in Kids(h, d)
    BY <1>1, <1>5, <1>6, FindsKid
  <1> QED  BY <1>2, <1>3, <1>4, <1>5, <1>7, CellsAssumption

\* No two wrappers that can be used are about the same item.
LEMMA Alone ==
  ASSUME NamesApart, NEW h, NEW ob, NEW mv, NEW X, WrappersOK(ob), Sound(h, ob, mv, X), Fresh(h, ob, mv)
  PROVE  \A w, x \in DOMAIN ob :
           Usable(h, ob, mv, w) /\ Usable(h, ob, mv, x)
           /\ About(ob, w) = About(ob, x) /\ About(ob, w) # NULL => w = x
  <1> DEFINE Shared(w, x) == /\ Usable(h, ob, mv, w) /\ Usable(h, ob, mv, x) /\ w # x
                             /\ About(ob, w) = About(ob, x) /\ About(ob, w) # NULL
             long == {n \in Nat : \E w, x \in DOMAIN ob : Shared(w, x) /\ n = Len(w)}
  <1>1. \A w \in DOMAIN ob : Way(w) /\ Len(w) \in Nat
    BY DEF WrappersOK, Way
  <1>2. h \in Memories /\ Tidy(h, Roots(ob) \cup X)
    BY DEF Sound
  <1>3. SUFFICES ASSUME long # {} PROVE FALSE
    BY <1>1, <1>3
  <1>4. PICK n \in long : \A m \in long : n <= m
    <2>1. long \in SUBSET Nat
      OBVIOUS
    <2> HIDE DEF long
    <2> QED  BY <1>3, <2>1, SmallestNat
  <1>5. PICK w \in DOMAIN ob, x \in DOMAIN ob : Shared(w, x) /\ n = Len(w)
    OBVIOUS
  <1>6. ~(ob[w].own # NULL /\ ob[x].own # NULL)
    BY <1>5 DEF About, Sound
  <1>7. ASSUME NEW y \in DOMAIN ob, NEW z \in DOMAIN ob, Usable(h, ob, mv, y), Usable(h, ob, mv, z),
               About(ob, y) = About(ob, z), About(ob, y) # NULL, ob[y].own # NULL, ob[z].own = NULL
        PROVE  FALSE
    <2>1. ob[z].ext # NULL /\ ob[z].ext = ob[y].own
      BY <1>7 DEF About
    <2>2. PICK d : d = About(ob, Parent(z))
      OBVIOUS
    <2>3. d \in Cells /\ ob[z].ext \in Kids(h, d)
      BY <1>7, <2>1, <2>2, SeenThroughParent
    <2>4. ob[y].own \in Roots(ob)
      BY <1>7 DEF Roots
    <2> QED  BY <1>2, <2>1, <2>3, <2>4 DEF Tidy
  <1>8. ob[w].own = NULL /\ ob[x].own = NULL
    BY <1>5, <1>6, <1>7
  <1>9. ob[w].ext # NULL /\ ob[x].ext # NULL /\ ob[w].ext = ob[x].ext
    BY <1>5, <1>8 DEF About
  <1>10. PICK a : a = About(ob, Parent(w))
    OBVIOUS
  <1>11. PICK b : b = About(ob, Parent(x))
    OBVIOUS
  <1>12. /\ Len(w) > 1 /\ Parent(w) \in DOMAIN ob /\ Usable(h, ob, mv, Parent(w))
         /\ a \in Cells /\ a # NULL /\ ob[w].ext = Finds(h, a, w[Len(w)]) /\ ob[w].ext \in Kids(h, a)
    BY <1>5, <1>8, <1>9, <1>10, SeenThroughParent
  <1>13. /\ Len(x) > 1 /\ Parent(x) \in DOMAIN ob /\ Usable(h, ob, mv, Parent(x))
         /\ b \in Cells /\ b # NULL /\ ob[x].ext = Finds(h, b, x[Len(x)]) /\ ob[x].ext \in Kids(h, b)
    BY <1>5, <1>8, <1>9, <1>11, SeenThroughParent
  <1>14. a = b
    BY <1>2, <1>9, <1>12, <1>13 DEF Tidy
  <1>15. Parent(w) = Parent(x)
    <2>1. SUFFICES ASSUME Parent(w) # Parent(x) PROVE FALSE
      OBVIOUS
    <2>2. Shared(Parent(w), Parent(x))
      BY <1>10, <1>11, <1>12, <1>13, <1>14, <2>1
    <2>3. PICK m : m = Len(Parent(w))
      OBVIOUS
    <2>4. m \in Nat
      BY <1>1, <1>12, <2>3
    <2>5. m \in long
      BY <1>12, <1>13, <2>2, <2>3, <2>4
    <2>6. n <= m
      BY <1>4, <2>5
    <2>7. m = n - 1
      BY <1>1, <1>5, <1>12, <2>3, ParentWay
    <2> QED  BY <2>4, <2>6, <2>7
  <1>16. w[Len(w)] \in Keys \cup Indices /\ x[Len(x)] \in Keys \cup Indices
    BY <1>1, <1>12, <1>13, LongWay
  <1>17. w[Len(w)] = x[Len(x)]
    BY <1>2, <1>9, <1>12, <1>13, <1>14, <1>16, FindsApart
  <1>18. w = x
    BY <1>1, <1>12, <1>13, <1>15, <1>17, SameWay
  <1> QED  BY <1>5, <1>18

(***************************************************************************)
(* What a call does to the memory                                          *)
(***************************************************************************)
\* But for the cells F that were free, only the list of a and the key of n change,
\* and only n is new in the list.
Alters(h, g, F, a, n) ==
  /\ \A c \in Cells \ F : Alive(g, c) =>
       /\ g[c].type = h[c].type
       /\ c # a => g[c].child = h[c].child
       /\ c # n => g[c].string = h[c].string
  /\ \A c \in F : Kids(g, c) \subseteq F \cup {n}
  /\ a \in Cells \ F => Kids(g, a) \subseteq Kids(h, a) \cup {n}

\* The cells nobody points at
Unused(h, ob, F) ==
  /\ F \subseteq {c \in Cells : ~Alive(h, c)}
  /\ \A p \in DOMAIN ob : ob[p].own \notin F /\ ob[p].ext \notin F

\* A step of the wrapper w: the other wrappers that can be used after it could be
\* before, and are as they were.
Besides(ob, mv, ob2, mv2, F, w) ==
  /\ DOMAIN ob2 \subseteq DOMAIN ob /\ w \in DOMAIN ob2
  /\ Roots(ob2) \subseteq Roots(ob) \cup F
  /\ \A p \in DOMAIN ob2 : p # w =>
       /\ ob2[p].ext = ob[p].ext /\ ob2[p].trav = ob[p].trav
       /\ p[1] \notin mv2 => p[1] \notin mv /\ ob2[p].own = ob[p].own

\* The wrapper that makes it: a variable that gets another document, ...
Whole(ob2, w) ==
  ~(Len(w) > 1) /\ ob2[w].ext = NULL /\ \A q \in DOMAIN ob2 : Len(q) > 1 => Parent(q) # w

\* ... or one that stays about what it was about, or is given a document when it had none.
Through(h, ob, mv, ob2, w) ==
  /\ Usable(h, ob, mv, w) /\ ob2[w].ext = ob[w].ext
  /\ About(ob, w) # NULL => ob2[w].own = ob[w].own

\* A call of w that edits the list of a, w's item or a new one, by n at most: a new
\* item, or the document of another variable.
Changed(h, ob, mv, h2, ob2, mv2, F, a, n, w) ==
  /\ Unused(h, ob, F) /\ Alters(h, h2, F, a, n) /\ n \in F \cup Roots(ob) \cup {NULL}
  /\ a \in F \cup {NULL} \/ (Usable(h, ob, mv, w) /\ a = About(ob, w))
  /\ Besides(ob, mv, ob2, mv2, F, w)
  /\ Whole(ob2, w) \/ Through(h, ob, mv, ob2, w)

\* Then the others find what they found:
LEMMA OthersFind ==
  ASSUME NamesApart, NEW h, NEW ob, NEW mv, NEW X, WrappersOK(ob), Sound(h, ob, mv, X), Fresh(h, ob, mv),
         NEW h2, NEW ob2, NEW mv2, NEW Y, WrappersOK(ob2), Sound(h2, ob2, mv2, Y),
         NEW F, NEW a, NEW n, NEW w \in DOMAIN ob, Changed(h, ob, mv, h2, ob2, mv2, F, a, n, w),
         NEW p \in DOMAIN ob2, p # w, Usable(h2, ob2, mv2, p)
  PROVE  /\ p \in DOMAIN ob /\ Usable(h, ob, mv, p) /\ About(ob2, p) = About(ob, p)
         /\ About(ob, p) # NULL =>
              /\ Kids(h2, About(ob, p)) = Kids(h, About(ob, p))
              /\ h2[About(ob, p)].type = h[About(ob, p)].type
         /\ \A s : Finds(h2, About(ob, p), s) = Finds(h, About(ob, p), s)
  <1>1. /\ h \in Memories /\ Tidy(h, Roots(ob) \cup X) /\ h2 \in Memories
        /\ Tidy(h2, Roots(ob2) \cup Y)
    BY DEF Sound
  <1>2. p \in DOMAIN ob /\ p[1] \notin mv2 /\ p[1] \notin mv /\ About(ob2, p) = About(ob, p)
    BY DEF Changed, Besides, Usable, About
  <1>3. CASE About(ob, p) = NULL
    BY <1>2, <1>3 DEF Usable, Finds
  <1>4. CASE About(ob, p) # NULL
    <2>1. PICK f : f = About(ob, p)
      OBVIOUS
    <2>2. f \in Cells /\ f # NULL /\ Alive(h2, f)
      BY <1>2, <1>4, <2>1, AboutIsPointer DEF Usable
    <2>3. f \notin F
      BY <1>2, <2>1 DEF Changed, Unused, About
    <2>4. h2[f].type = h[f].type
      BY <2>2, <2>3 DEF Changed, Alters
    <2>5. Usable(h, ob, mv, p)
      BY <1>2, <2>1, <2>2, <2>4 DEF Usable, Alive
    <2>6. f # a
      <3>1. CASE a \in F \cup {NULL}
        BY <2>2, <2>3, <3>1
      <3>2. CASE Usable(h, ob, mv, w) /\ a = About(ob, w)
        BY <1>2, <2>1, <2>2, <2>5, <3>2, Alone
      <3> QED  BY <3>1, <3>2 DEF Changed
    <2>7. h2[f].child = h[f].child
      BY <2>2, <2>3, <2>6 DEF Changed, Alters
    <2>8. ASSUME NEW i \in DOMAIN h[f].child
          PROVE  h2[h[f].child[i]].string = h[h[f].child[i]].string
      <3>1. PICK c : c = h[f].child[i]
        OBVIOUS
      <3>2. c \in Kids(h, f) /\ c \in Kids(h2, f) /\ c \in Cells
        BY <1>1, <2>2, <2>7, <2>8, <3>1, KidsAreCells
      <3>3. Alive(h, c) /\ Alive(h2, c) /\ c \notin Roots(ob)
        BY <1>1, <2>2, <3>2 DEF Tidy
      <3>4. c \notin F
        BY <3>3 DEF Changed, Unused
      <3>5. c # n
        BY <3>2, <3>3, <3>4, CellsAssumption DEF Changed
      <3> QED  BY <3>1, <3>2, <3>3, <3>4, <3>5 DEF Changed, Alters
    <2>9. \A k : GetObjectItem(h2, f, k) = GetObjectItem(h, f, k)
      BY <2>7, <2>8, SameFound
    <2>10. \A i : GetArrayItem(h2, f, i) = GetArrayItem(h, f, i)
      BY <2>7 DEF GetArrayItem
    <2>11. \A s : Finds(h2, f, s) = Finds(h, f, s)
      BY <2>4, <2>9, <2>10 DEF Finds
    <2>12. Kids(h2, f) = Kids(h, f)
      BY <2>7 DEF Kids
    <2> QED  BY <1>2, <2>1, <2>4, <2>5, <2>11, <2>12
  <1> QED  BY <1>3, <1>4

\* The wrappers left below w are about what w finds now.
SameBelow(h, ob, h2, ob2, mv2, w) ==
  Usable(h2, ob2, mv2, w) =>
    \A q \in DOMAIN ob2 : Len(q) > 1 /\ Parent(q) = w =>
      Finds(h2, About(ob2, w), q[Len(q)]) = Finds(h, About(ob, w), q[Len(q)])

\* An item that is no root stays in the list it is in, unless it is freed.
LEMMA ParentStays ==
  ASSUME NEW h, NEW ob, NEW mv, NEW X, Sound(h, ob, mv, X),
         NEW h2, NEW ob2, NEW mv2, NEW Y, Sound(h2, ob2, mv2, Y),
         NEW F, NEW a, NEW n, NEW w \in DOMAIN ob, Changed(h, ob, mv, h2, ob2, mv2, F, a, n, w),
         a \in Cells \cup {NULL},
         NEW d \in Cells, NEW e \in Kids(h, d), e \in Trees(h2, Roots(ob2))
  PROVE  d \notin F /\ Alive(h2, d)
  <1>1. /\ h \in Memories /\ Tidy(h, Roots(ob) \cup X) /\ h2 \in Memories
        /\ Tidy(h2, Roots(ob2) \cup Y) /\ Roots(ob2) \subseteq Cells
    BY DEF Sound, Tidy
  <1>2. e \in Cells /\ Alive(h, e) /\ e \notin Roots(ob) /\ e \notin F
    BY <1>1, KidsAreCells DEF Tidy, Changed, Unused
  <1>3. e \notin Roots(ob2) /\ e # n
    BY <1>2, CellsAssumption DEF Changed, Besides
  <1>4. PICK x \in Trees(h2, Roots(ob2)) : e \in Kids(h2, x)
    BY <1>1, <1>3, TreesFrom
  <1>5. x \in Cells
    BY <1>1, TreesHold
  <1>6. Alive(h2, x)
    <2>1. h2[x].child # <<>>
      BY <1>1, <1>4, <1>5, KidsAreCells
    <2> QED  BY <1>1, <1>5, <2>1 DEF Tidy, Alive
  <1>7. x \notin F
    BY <1>2, <1>3, <1>4 DEF Changed, Alters
  <1>8. e \in Kids(h, x)
    <2>1. CASE x = a
      BY <1>3, <1>4, <1>5, <1>7, <2>1 DEF Changed, Alters
    <2>2. CASE x # a
      <3>1. h2[x].child = h[x].child
        BY <1>5, <1>6, <1>7, <2>2 DEF Changed, Alters
      <3> QED  BY <1>4, <3>1 DEF Kids
    <2> QED  BY <2>1, <2>2
  <1>9. x = d
    BY <1>1, <1>5, <1>8 DEF Tidy
  <1> QED  BY <1>6, <1>7, <1>9

\* A call that leaves the wrappers below its own in order leaves all of them so.
LEMMA ChangedFresh ==
  ASSUME NamesApart, NEW h, NEW ob, NEW mv, NEW X, WrappersOK(ob), Sound(h, ob, mv, X), Fresh(h, ob, mv),
         NEW h2, NEW ob2, NEW mv2, NEW Y, WrappersOK(ob2), Sound(h2, ob2, mv2, Y),
         NEW F, NEW a, NEW n, NEW w \in DOMAIN ob, Changed(h, ob, mv, h2, ob2, mv2, F, a, n, w),
         F \subseteq Cells, SameBelow(h, ob, h2, ob2, mv2, w)
  PROVE  Fresh(h2, ob2, mv2)
  <1>1. /\ \A p \in DOMAIN ob : Way(p) /\ (Len(p) > 1 => Parent(p) \in DOMAIN ob)
        /\ \A p \in DOMAIN ob2 : Way(p) /\ (Len(p) > 1 => Parent(p) \in DOMAIN ob2)
        /\ \A v \in Vars : <<v>> \in DOMAIN ob2
        /\ DOMAIN ob2 \subseteq DOMAIN ob
    BY DEF WrappersOK, Changed, Besides
  <1>2. \A p \in DOMAIN ob2 : p # w => ob2[p].ext = ob[p].ext
    BY DEF Changed, Besides
  <1>3. a \in Cells \cup {NULL}
    BY AboutIsPointer DEF Changed
  <1>4. \A v \in Vars : ob2[<<v>>].ext = NULL
    BY <1>1, <1>2 DEF Fresh, Changed, Whole, Through
  <1>5. ASSUME NEW q \in DOMAIN ob2, Len(q) > 1 PROVE ob2[q].ext = ob[q].ext
    <2>1. CASE q = w
      BY <1>5, <2>1 DEF Changed, Whole, Through
    <2> QED  BY <1>2, <2>1
  <1>6. ASSUME NEW q \in DOMAIN ob2, Len(q) > 1, Usable(h2, ob2, mv2, Parent(q)), ob2[q].own = NULL
        PROVE  ob[q].own = NULL
    <2>1. CASE q = w
      BY <1>5, <1>6, <2>1 DEF Changed, Whole, Through, About
    <2>2. CASE q # w
      <3>1. Parent(q)[1] = q[1]
        BY <1>1, <1>6, ParentWay
      <3>2. q[1] \notin mv2
        BY <1>6, <3>1 DEF Usable
      <3> QED  BY <1>6, <2>2, <3>2 DEF Changed, Besides
    <2> QED  BY <2>1, <2>2
  <1>7. ASSUME NEW q \in DOMAIN ob2, Len(q) > 1, Parent(q) = w
        PROVE  Through(h, ob, mv, ob2, w)
    BY <1>7 DEF Changed, Whole
  <1>8. ASSUME NEW q \in DOMAIN ob2, Len(q) > 1, Usable(h2, ob2, mv2, Parent(q)), ob2[q].own = NULL
        PROVE  ob2[q].ext = Finds(h2, About(ob2, Parent(q)), q[Len(q)])
    <2>1. ob[q].own = NULL /\ ob2[q].ext = ob[q].ext /\ q \in DOMAIN ob /\ Parent(q) \in DOMAIN ob2
      BY <1>1, <1>5, <1>6, <1>8
    <2>2. CASE Parent(q) = w
      <3>1. Usable(h, ob, mv, w)
        BY <1>7, <1>8, <2>2 DEF Through
      <3>2. ob[q].ext = Finds(h, About(ob, w), q[Len(q)])
        BY <1>8, <2>1, <2>2, <3>1 DEF Fresh
      <3> QED  BY <1>8, <2>1, <2>2, <3>2 DEF SameBelow
    <2>3. CASE Parent(q) # w
      <3>1. PICK p : p = Parent(q)
        OBVIOUS
      <3>2. /\ Usable(h, ob, mv, p) /\ About(ob2, p) = About(ob, p)
            /\ \A s : Finds(h2, About(ob, p), s) = Finds(h, About(ob, p), s)
        BY <1>8, <2>1, <2>3, <3>1, OthersFind
      <3>3. ob[q].ext = Finds(h, About(ob, p), q[Len(q)])
        BY <1>8, <2>1, <3>1, <3>2 DEF Fresh
      <3> QED  BY <2>1, <3>1, <3>2, <3>3
    <2> QED  BY <2>2, <2>3
  <1>9. ASSUME NEW q \in DOMAIN ob2, Usable(h2, ob2, mv2, q), ob2[q].ext # NULL
        PROVE  Usable(h2, ob2, mv2, Parent(q))
    <2>1. ob2[q].own = NULL /\ Way(q) /\ q \in DOMAIN ob
      BY <1>1, <1>9 DEF WrappersOK
    <2>2. Len(q) > 1
      <3>1. PICK m : m = Len(q)
        OBVIOUS
      <3>2. m \in Nat
        BY <2>1, <3>1 DEF Way
      <3>3. m <= 1 => q = <<q[1]>> /\ q[1] \in Vars
        BY <2>1, <3>1, ShortWay
      <3>4. ~(m <= 1)
        BY <1>4, <1>9, <3>3
      <3> QED  BY <3>1, <3>2, <3>4
    <2>3. ob2[q].ext = ob[q].ext /\ Parent(q) \in DOMAIN ob2
      BY <1>1, <1>5, <2>2
    <2>4. Usable(h, ob, mv, q) /\ ob[q].own = NULL
      <3>1. CASE q = w
        BY <1>9, <2>1, <2>2, <2>3, <3>1 DEF Changed, Whole, Through, About
      <3>2. CASE q # w
        <4>1. Usable(h, ob, mv, q)
          BY <1>9, <3>2, OthersFind
        <4>2. ob[q].own = ob2[q].own
          BY <1>9, <3>2 DEF Changed, Besides, Usable
        <4> QED  BY <2>1, <4>1, <4>2
      <3> QED  BY <3>1, <3>2
    <2>5. PICK d : d = About(ob, Parent(q))
      OBVIOUS
    <2>6. /\ d \in Cells /\ d # NULL /\ ob[q].ext \in Kids(h, d) /\ Usable(h, ob, mv, Parent(q))
      BY <1>9, <2>1, <2>3, <2>4, <2>5, SeenThroughParent
    <2>7. Parent(q)[1] = q[1]
      BY <2>1, <2>2, ParentWay
    <2>8. ob[q].ext \in Trees(h2, Roots(ob2))
      <3>1. Alive(h2, ob2[q].ext) /\ q[1] \notin mv2
        BY <1>9, <2>1 DEF Usable, About
      <3>2. ob2[q].ext \in Trees(h2, OwnsOf(ob2, q[1]))
        BY <1>9, <3>1 DEF Sound
      <3>3. h2 \in Memories /\ OwnsOf(ob2, q[1]) \subseteq Roots(ob2) /\ Roots(ob2) \subseteq Cells
        BY OwnsAreRoots DEF Sound, Tidy
      <3> QED  BY <2>3, <3>2, <3>3, TreesGrow
    <2>9. Alive(h2, d)
      BY <1>3, <2>6, <2>8, ParentStays
    <2>10. About(ob2, Parent(q)) = d
      <3>1. CASE Parent(q) = w
        <4>1. Through(h, ob, mv, ob2, w)
          BY <1>7, <2>2, <3>1
        <4> QED  BY <2>5, <2>6, <3>1, <4>1 DEF Through, About
      <3>2. CASE Parent(q) # w
        <4>1. Parent(q)[1] \notin mv2
          BY <1>9, <2>7 DEF Usable
        <4> QED  BY <2>3, <2>5, <3>2, <4>1 DEF Changed, Besides, About
      <3> QED  BY <3>1, <3>2
    <2> QED  BY <1>9, <2>7, <2>9, <2>10 DEF Usable
  <1> QED  BY <1>4, <1>8, <1>9 DEF Fresh

(***************************************************************************)
(* The cursor                                                              *)
(***************************************************************************)
\* Where the cursor of w may be: nowhere, at the document, at a member of it
Places(h, f) ==
  {NULL, f} \cup (IF f # NULL /\ h[f].type = "Object" THEN Kids(h, f) ELSE {})

\* All cursors are in place.
Placed(h, ob, mv) ==
  \A w \in DOMAIN ob : Usable(h, ob, mv, w) => ob[w].trav \in Places(h, About(ob, w))

\* A call that leaves the cursor of its wrapper in place leaves all of them there.
LEMMA ChangedPlaced ==
  ASSUME NamesApart, NEW h, NEW ob, NEW mv, NEW X, WrappersOK(ob), Sound(h, ob, mv, X), Fresh(h, ob, mv),
         NEW h2, NEW ob2, NEW mv2, NEW Y, WrappersOK(ob2), Sound(h2, ob2, mv2, Y),
         NEW F, NEW a, NEW n, NEW w \in DOMAIN ob, Changed(h, ob, mv, h2, ob2, mv2, F, a, n, w),
         Placed(h, ob, mv),
         Usable(h2, ob2, mv2, w) => ob2[w].trav \in Places(h2, About(ob2, w))
  PROVE  Placed(h2, ob2, mv2)
  <1>1. SUFFICES ASSUME NEW p \in DOMAIN ob2, Usable(h2, ob2, mv2, p), p # w
                 PROVE  ob2[p].trav \in Places(h2, About(ob2, p))
    BY <1>1 DEF Placed
  <1>2. /\ p \in DOMAIN ob /\ Usable(h, ob, mv, p) /\ About(ob2, p) = About(ob, p)
        /\ About(ob, p) # NULL =>
             /\ Kids(h2, About(ob, p)) = Kids(h, About(ob, p))
             /\ h2[About(ob, p)].type = h[About(ob, p)].type
    BY <1>1, OthersFind
  <1>3. ob2[p].trav = ob[p].trav
    BY <1>1 DEF Changed, Besides
  <1>4. ob[p].trav \in Places(h, About(ob, p))
    BY <1>2 DEF Placed
  <1> QED  BY <1>2, <1>3, <1>4 DEF Places

(***************************************************************************)
(* How calls alter the memory                                              *)
(***************************************************************************)
\* What is in h2 is in g as well: h2 is g when something was freed.
Survives(g, h2) ==
  \A c \in Cells : (Alive(h2, c) => h2[c] = g[c]) /\ Kids(h2, c) \subseteq Kids(g, c)

\* Freeing items leaves the others as they are, and in no list they were not in.
LEMMA DeleteSurvives ==
  ASSUME NEW g, NEW N, NEW h2, h2 = Delete(g, N)
  PROVE  Survives(g, h2)
  <1>1. ASSUME NEW c \in Cells PROVE h2[c] \in {g[c], Freed}
    BY DEF Delete
  <1>2. Freed.type = "freed" /\ Freed.child = <<>>
    BY ItemsMade
  <1>3. ASSUME NEW c \in Cells, Alive(h2, c) PROVE h2[c] = g[c]
    BY <1>1, <1>2, <1>3 DEF Alive
  <1>4. ASSUME NEW c \in Cells PROVE Kids(h2, c) \subseteq Kids(g, c)
    <2>1. CASE h2[c] = g[c]
      BY <2>1 DEF Kids
    <2>2. CASE h2[c] = Freed
      BY <1>2, <2>2 DEF Kids, Range
    <2> QED  BY <1>1, <2>1, <2>2
  <1> QED  BY <1>3, <1>4 DEF Survives

\* What survives twice survives.
LEMMA SurvivesAll ==
  ASSUME NEW f, NEW g, NEW h, Survives(f, g), Survives(g, h)
  PROVE  Survives(f, h)
  BY DEF Survives, Alive

\* Without freeing all of it survives.
LEMMA SurvivesSame ==
  ASSUME NEW g
  PROVE  Survives(g, g)
  BY DEF Survives

\* Freeing alters nothing that is left.
LEMMA SurvivesAlters ==
  ASSUME NEW h, NEW F, F \subseteq Cells, NEW a, NEW n, NEW g, Alters(h, g, F, a, n), NEW h2, Survives(g, h2)
  PROVE  Alters(h, h2, F, a, n)
  <1>1. \A c \in Cells : Alive(h2, c) => h2[c] = g[c] /\ Alive(g, c)
    BY DEF Survives, Alive
  <1>2. \A c \in Cells : Kids(h2, c) \subseteq Kids(g, c)
    BY DEF Survives
  <1> QED  BY <1>1, <1>2 DEF Alters

\* An item that is left finds what it found.
LEMMA SurvivesFinds ==
  ASSUME NEW h2 \in Memories, NEW R, Tidy(h2, R), NEW g, Survives(g, h2),
         NEW a \in Cells, Alive(h2, a), NEW s
  PROVE  Finds(h2, a, s) = Finds(g, a, s) /\ h2[a] = g[a]
  <1>1. h2[a] = g[a]
    BY DEF Survives
  <1>2. ASSUME NEW i \in DOMAIN g[a].child PROVE h2[g[a].child[i]].string = g[g[a].child[i]].string
    <2>1. PICK c : c = h2[a].child[i]
      OBVIOUS
    <2>2. c \in Kids(h2, a) /\ c \in Cells
      BY <1>1, <1>2, <2>1, KidsAreCells
    <2>3. Alive(h2, c)
      BY <2>2 DEF Tidy
    <2> QED  BY <1>1, <2>1, <2>2, <2>3 DEF Survives
  <1>3. GetObjectItem(h2, a, s) = GetObjectItem(g, a, s)
    BY <1>1, <1>2, SameFound
  <1>4. GetArrayItem(h2, a, s) = GetArrayItem(g, a, s)
    BY <1>1 DEF GetArrayItem
  <1> QED  BY <1>1, <1>3, <1>4 DEF Finds

\* Something new in free cells alters nothing else.
LEMMA WithinAlters ==
  ASSUME NEW h, NEW F, NEW g, Within(h, g, F), NEW a, NEW n
  PROVE  Alters(h, g, F, a, n)
  <1>1. \A c \in Cells \ F : g[c] = h[c]
    BY DEF Within
  <1>2. \A c \in F : Kids(g, c) \subseteq F
    BY DEF Within, Shut, Kids, Range
  <1>3. \A c \in Cells \ F : Kids(g, c) = Kids(h, c)
    BY <1>1 DEF Kids
  <1> QED  BY <1>1, <1>2, <1>3 DEF Alters

\* Nor does what comes after something was freed.
LEMMA AltersWithin ==
  ASSUME NEW h, NEW F, NEW a, NEW n, NEW f, Alters(h, f, F, a, n), NEW g, Within(f, g, F)
  PROVE  Alters(h, g, F, a, n)
  <1>1. \A c \in Cells \ F : g[c] = f[c]
    BY DEF Within
  <1>2. \A c \in F : Kids(g, c) \subseteq F
    BY DEF Within, Shut, Kids, Range
  <1>3. \A c \in Cells \ F : Kids(g, c) = Kids(f, c)
    BY <1>1 DEF Kids
  <1>4. \A c \in Cells \ F : Alive(g, c) => Alive(f, c)
    BY <1>1 DEF Alive
  <1> QED  BY <1>1, <1>2, <1>3, <1>4 DEF Alters

\* Free cells have no list.
LEMMA FreeShut ==
  ASSUME NEW h \in Memories, NEW R, Tidy(h, R), NEW F, F \subseteq {c \in Cells : ~Alive(h, c)}
  PROVE  Within(h, h, F)
  <1>1. ASSUME NEW c \in F PROVE "child" \in DOMAIN h[c] /\ h[c].child = <<>>
    <2>1. c \in Cells /\ ~Alive(h, c) /\ h[c] \in Item
      BY <1>1 DEF Memories
    <2> QED  BY <2>1 DEF Tidy, Alive, Item
  <1>2. F \subseteq Cells /\ DOMAIN h = Cells
    BY DEF Memories
  <1>3. <<>> \in Seq(F)
    OBVIOUS
  <1> QED  BY <1>1, <1>2, <1>3 DEF Within, Shut

(***************************************************************************)
(* Another list for a, another key for n                                   *)
(***************************************************************************)
\* g is b with another list for a and, perhaps, another key for n.
Edited(b, g, a, n, list) ==
  /\ g \in Memories /\ g[a].child = list
  /\ \A c \in Cells : /\ g[c].type = b[c].type
                      /\ c # a => g[c].child = b[c].child
                      /\ c # n => g[c].string = b[c].string

\* Giving a another list edits it,
LEMMA ListEdited ==
  ASSUME NEW b \in Memories, NEW a \in Cells, NEW list \in Seq(Cells), NEW g, g = WithChildren(b, a, list), NEW n
  PROVE  Edited(b, g, a, n, list) /\ \A c \in Cells : g[c].string = b[c].string
  <1>1. g \in Memories /\ Relisted(b, g, a, list)
    BY ChildrenGiven
  <1>2. \A c \in Cells : g[c].string = b[c].string
    BY DEF WithChildren, Memories, Item
  <1> QED  BY <1>1, <1>2 DEF Edited, Relisted

\* and so does giving n its key first.
LEMMA BothEdited ==
  ASSUME NEW b \in Memories, NEW a \in Cells, NEW n \in Cells, NEW k \in Keys, NEW list \in Seq(Cells),
         NEW g, g = WithChildren(WithString(b, n, k), a, list)
  PROVE  Edited(b, g, a, n, list) /\ g[n].string = k
  <1>1. PICK f : f = WithString(b, n, k)
    OBVIOUS
  <1>2. f \in Memories /\ \A c \in Cells : f[c].type = b[c].type /\ f[c].child = b[c].child
    BY <1>1, StringGiven
  <1>3. f[n].string = k /\ \A c \in Cells : c # n => f[c].string = b[c].string
    BY <1>1 DEF WithString, Memories, Item
  <1>4. Edited(f, g, a, n, list) /\ \A c \in Cells : g[c].string = f[c].string
    BY <1>1, <1>2, ListEdited
  <1> QED  BY <1>2, <1>3, <1>4 DEF Edited

\* An edit that brings n into the list of a
LEMMA EditedAlters ==
  ASSUME NEW h, NEW F, NEW b, Within(h, b, F), F \subseteq Cells, NEW a \in Cells, NEW n,
         NEW list, Range(list) \subseteq Kids(b, a) \cup {n},
         NEW g, Edited(b, g, a, n, list)
  PROVE  Alters(h, g, F, a, n)
  <1>1. Alters(h, b, F, a, n)
    BY WithinAlters
  <1>2. \A c \in Cells : Alive(g, c) => Alive(b, c)
    BY DEF Edited, Alive
  <1>3. Kids(g, a) \subseteq Kids(b, a) \cup {n}
    BY DEF Edited, Kids
  <1>4. \A c \in Cells : c # a => Kids(g, c) = Kids(b, c)
    BY DEF Edited, Kids
  <1>5. \A c \in F : Kids(g, c) \subseteq F \cup {n}
    BY <1>1, <1>3, <1>4 DEF Alters
  <1>6. \A c \in Cells \ F : Alive(g, c) =>
          /\ g[c].type = h[c].type
          /\ c # a => g[c].child = h[c].child
          /\ c # n => g[c].string = h[c].string
    BY <1>1, <1>2 DEF Edited, Alters
  <1>7. a \in Cells \ F => Kids(g, a) \subseteq Kids(h, a) \cup {n}
    BY <1>1, <1>3 DEF Alters
  <1> QED  BY <1>5, <1>6, <1>7 DEF Alters

(***************************************************************************)
(* What is found after an edit                                             *)
(***************************************************************************)
\* The i-th item in the list of a has the key s, as cJSON_strcasecmp compares.
Named(h, a, i, s) == Fold[h[h[a].child[i]].string] = Fold[s]

\* Where the items with a name are the same and in the same order, the same is found.
LEMMA FoundAlong ==
  ASSUME NEW b \in Memories, NEW g \in Memories, NEW a \in Cells, NEW s,
         NEW list, list = b[a].child, NEW new, new = g[a].child,
         \A i \in DOMAIN list : Named(b, a, i, s) =>
           \E j \in DOMAIN new : new[j] = list[i] /\ Named(g, a, j, s),
         \A j \in DOMAIN new : Named(g, a, j, s) =>
           \E i \in DOMAIN list : new[j] = list[i] /\ Named(b, a, i, s),
         \A i, i2 \in DOMAIN list : \A j, j2 \in DOMAIN new :
           new[j] = list[i] /\ new[j2] = list[i2] /\ i <= i2 => j <= j2
  PROVE  GetObjectItem(g, a, s) = GetObjectItem(b, a, s)
  <1>1. list \in Seq(Cells) /\ new \in Seq(Cells)
    BY KidsAreCells
  <1>2. DOMAIN list \subseteq Nat /\ DOMAIN new \subseteq Nat
    BY <1>1
  <1>3. CASE GetObjectItem(b, a, s) = NULL /\ \A i \in DOMAIN list : ~Named(b, a, i, s)
    <2>1. \A j \in DOMAIN new : ~Named(g, a, j, s)
      BY <1>3
    <2> QED  BY <1>3, <2>1, FirstNamed DEF Named
  <1>4. ASSUME NEW i \in DOMAIN list, GetObjectItem(b, a, s) = list[i], Named(b, a, i, s),
               \A x \in DOMAIN list : Named(b, a, x, s) => i <= x
        PROVE  GetObjectItem(g, a, s) = list[i]
    <2>1. PICK j \in DOMAIN new : new[j] = list[i] /\ Named(g, a, j, s)
      BY <1>4
    <2>2. PICK j2 \in DOMAIN new : /\ GetObjectItem(g, a, s) = new[j2] /\ Named(g, a, j2, s)
                                   /\ \A x \in DOMAIN new : Named(g, a, x, s) => j2 <= x
      BY <2>1, FirstNamed DEF Named
    <2>3. PICK i2 \in DOMAIN list : new[j2] = list[i2] /\ Named(b, a, i2, s)
      BY <2>2
    <2>4. i <= i2
      BY <1>4, <2>3
    <2>5. j <= j2
      BY <2>1, <2>3, <2>4
    <2>6. j2 <= j
      BY <2>1, <2>2
    <2>7. j = j2
      BY <1>2, <2>5, <2>6
    <2> QED  BY <2>1, <2>2, <2>7
  <1> QED  BY <1>3, <1>4, FirstNamed DEF Named

\* A member is added under another key.
LEMMA AddFinds ==
  ASSUME NamesApart, NEW b \in Memories, NEW a \in Cells, b[a].type = "Object", IsInjective(b[a].child),
         NEW n \in Cells, n \notin Kids(b, a), NEW k \in Keys,
         NEW g, g = AddItemToObject(b, a, k, n), NEW s \in Keys \cup Indices, s # k
  PROVE  Finds(g, a, s) = Finds(b, a, s)
  <1>1. PICK list : list = b[a].child
    OBVIOUS
  <1>2. list \in Seq(Cells) /\ \A c : c \in Kids(b, a) <=> \E i \in DOMAIN list : list[i] = c
    BY <1>1, KidsAreCells
  <1>3. PICK new : new = Append(list, n)
    OBVIOUS
  <1>4. /\ new \in Seq(Cells) /\ Len(new) = Len(list) + 1 /\ new[Len(list) + 1] = n
        /\ \A i \in 1..Len(list) : new[i] = list[i]
        /\ DOMAIN new = 1..(Len(list) + 1) /\ DOMAIN list = 1..Len(list) /\ Len(list) \in Nat
    BY <1>2, <1>3
  <1>5. g = WithChildren(WithString(b, n, k), a, new)
    <2>1. WithString(b, n, k)[a].child = list
      BY <1>1, StringGiven
    <2> QED  BY <1>3, <2>1 DEF AddItemToObject, AddItemToArray, WithChildren, WithString
  <1>6. Edited(b, g, a, n, new) /\ g[n].string = k
    BY <1>4, <1>5, BothEdited
  <1>7. CASE s \in Indices
    BY <1>6, <1>7 DEF Finds, Edited
  <1>8. CASE s \notin Indices
    <2>1. Fold[s] # Fold[k]
      BY <1>8 DEF NamesApart
    <2>2. \A i \in DOMAIN list : i \in DOMAIN new /\ new[i] = list[i] /\ list[i] # n /\ list[i] \in Cells
      BY <1>2, <1>4
    <2>3. \A i \in DOMAIN list : Named(g, a, i, s) <=> Named(b, a, i, s)
      BY <1>1, <1>6, <2>2 DEF Named, Edited
    <2>4. \A j \in DOMAIN new : j \in DOMAIN list \/ (j = Len(list) + 1 /\ new[j] = n)
      BY <1>4
    <2>5. \A j \in DOMAIN new : Named(g, a, j, s) => j \in DOMAIN list
      BY <1>6, <2>1, <2>4 DEF Named, Edited
    <2>6. ASSUME NEW i \in DOMAIN list, NEW j \in DOMAIN new, new[j] = list[i] PROVE j = i
      <3>1. j \in DOMAIN list
        BY <2>2, <2>4, <2>6
      <3> QED  BY <1>1, <2>2, <2>6, <3>1 DEF IsInjective
    <2>7. GetObjectItem(g, a, s) = GetObjectItem(b, a, s)
      <3>1. \A i \in DOMAIN list : Named(b, a, i, s) =>
              \E j \in DOMAIN new : new[j] = list[i] /\ Named(g, a, j, s)
        BY <2>2, <2>3
      <3>2. \A j \in DOMAIN new : Named(g, a, j, s) =>
              \E i \in DOMAIN list : new[j] = list[i] /\ Named(b, a, i, s)
        BY <2>2, <2>3, <2>5
      <3>3. \A i, i2 \in DOMAIN list : \A j, j2 \in DOMAIN new :
              new[j] = list[i] /\ new[j2] = list[i2] /\ i <= i2 => j <= j2
        BY <2>6
      <3>4. g \in Memories /\ new = g[a].child
        BY <1>6 DEF Edited
      <3> QED  BY <1>1, <3>1, <3>2, <3>3, <3>4, FoundAlong
    <2> QED  BY <1>6, <1>8, <2>7 DEF Finds, Edited
  <1> QED  BY <1>7, <1>8

\* An element is put behind the others.
LEMMA AppendFinds ==
  ASSUME NamesApart, NEW b \in Memories, NEW a \in Cells, b[a].type = "Array", NEW n \in Cells,
         NEW g, g = AddItemToArray(b, a, n),
         NEW s, s \in Indices => s < Len(b[a].child)
  PROVE  Finds(g, a, s) = Finds(b, a, s)
  <1>1. PICK list : list = b[a].child
    OBVIOUS
  <1>2. list \in Seq(Cells)
    BY <1>1, KidsAreCells
  <1>3. PICK new : new = Append(list, n)
    OBVIOUS
  <1>4. /\ new \in Seq(Cells) /\ Len(new) = Len(list) + 1
        /\ \A i \in 1..Len(list) : new[i] = list[i]
        /\ Len(list) \in Nat
    BY <1>2, <1>3
  <1>5. g = WithChildren(b, a, new)
    BY <1>1, <1>3 DEF AddItemToArray, WithChildren
  <1>6. g[a].child = new /\ g[a].type = "Array"
    BY <1>4, <1>5, ListEdited DEF Edited
  <1>7. CASE s \notin Indices
    BY <1>6, <1>7 DEF Finds
  <1>8. CASE s \in Indices
    <2>1. s \in Nat /\ s < Len(list)
      BY <1>1, <1>8 DEF NamesApart
    <2>2. (IF s > 0 THEN s + 1 ELSE 1) = s + 1 /\ s + 1 \in 1..Len(list)
      BY <1>4, <2>1
    <2>3. new # <<>> /\ list # <<>> /\ ~(s >= Len(new)) /\ ~(s >= Len(list))
      BY <1>2, <1>4, <2>1
    <2>4. GetArrayItem(g, a, s) = new[s + 1] /\ GetArrayItem(b, a, s) = list[s + 1]
      BY <1>1, <1>6, <2>2, <2>3 DEF GetArrayItem
    <2>5. new[s + 1] = list[s + 1]
      BY <1>4, <2>2
    <2> QED  BY <1>6, <1>8, <2>4, <2>5 DEF Finds
  <1> QED  BY <1>7, <1>8

\* An element is put before the others; no index is asked for.
LEMMA PrependFinds ==
  ASSUME NEW b \in Memories, NEW a \in Cells, b[a].type = "Array", NEW n \in Cells,
         NEW g, g = AddItemToArrayHead(b, a, n), NEW s, s \notin Indices
  PROVE  Finds(g, a, s) = Finds(b, a, s)
  <1>1. g[a].type = b[a].type
    BY DEF AddItemToArrayHead, Memories, Item
  <1> QED  BY <1>1 DEF Finds

\* The place an item is detached from
LEMMA DetachedFrom ==
  ASSUME NEW S, NEW list \in Seq(S), NEW n, n \in Range(list), NEW new, new = Detached(list, n)
  PROVE  \E at \in DOMAIN list :
           /\ list[at] = n /\ DOMAIN list = 1..Len(list) /\ Len(list) \in Nat
           /\ DOMAIN new = 1..(Len(list) - 1)
           /\ \A i \in DOMAIN new : new[i] = list[IF i < at THEN i ELSE i + 1]
  <1> DEFINE at == CHOOSE i \in DOMAIN list : list[i] = n
  <1>1. at \in DOMAIN list /\ list[at] = n
    BY DEF Range
  <1>2. new = [i \in 1..(Len(list) - 1) |-> list[IF i < at THEN i ELSE i + 1]]
    BY DEF Detached
  <1>3. DOMAIN list = 1..Len(list) /\ Len(list) \in Nat
    OBVIOUS
  <1> HIDE DEF at
  <1> QED  BY <1>1, <1>2, <1>3

\* A member is taken out.
LEMMA DetachFinds ==
  ASSUME NamesApart, NEW b \in Memories, NEW a \in Cells, b[a].type = "Object", IsInjective(b[a].child),
         NEW k \in Keys, NEW m, m = GetObjectItem(b, a, k), m # NULL,
         NEW g, g = WithChildren(b, a, Detached(b[a].child, m)), NEW s \in Keys \cup Indices, s # k
  PROVE  Finds(g, a, s) = Finds(b, a, s)
  <1>1. PICK list : list = b[a].child
    OBVIOUS
  <1>2. list \in Seq(Cells) /\ m \in Range(list)
    BY <1>1, KidsAreCells, FoundIsKid DEF Kids
  <1>3. PICK new : new = Detached(list, m)
    OBVIOUS
  <1>4. new \in Seq(Cells)
    BY <1>1, <1>2, <1>3, ListDetached
  <1>5. Edited(b, g, a, NULL, new) /\ \A c \in Cells : g[c].string = b[c].string
    BY <1>1, <1>3, <1>4, ListEdited
  <1>6. CASE s \in Indices
    BY <1>5, <1>6 DEF Finds, Edited
  <1>7. CASE s \notin Indices
    <2>1. Fold[s] # Fold[k]
      BY <1>7 DEF NamesApart
    <2>2. PICK at \in DOMAIN list :
             /\ list[at] = m /\ DOMAIN list = 1..Len(list) /\ Len(list) \in Nat
             /\ DOMAIN new = 1..(Len(list) - 1)
             /\ \A i \in DOMAIN new : new[i] = list[IF i < at THEN i ELSE i + 1]
      BY <1>2, <1>3, DetachedFrom
    <2>3. \A i \in DOMAIN list : list[i] \in Cells
      BY <1>2
    <2>4. ~Named(b, a, at, s)
      <3>1. Fold[b[m].string] = Fold[k]
        BY FirstNamed
      <3> QED  BY <1>1, <2>1, <2>2, <3>1 DEF Named
    <2> DEFINE from(j) == IF j < at THEN j ELSE j + 1
               to(i) == IF i < at THEN i ELSE i - 1
    <2>5. ASSUME NEW j \in DOMAIN new PROVE from(j) \in DOMAIN list /\ new[j] = list[from(j)]
      <3>1. from(j) \in DOMAIN list
        BY <2>2, <2>5
      <3> QED  BY <2>2, <2>5, <3>1
    <2>6. ASSUME NEW i \in DOMAIN list, i # at PROVE to(i) \in DOMAIN new /\ from(to(i)) = i
      BY <2>2, <2>6
    <2>7. \A i, j : i \in DOMAIN list /\ j \in DOMAIN new /\ new[j] = list[i] => (Named(g, a, j, s) <=> Named(b, a, i, s))
      BY <1>1, <1>5, <2>3 DEF Named, Edited
    <2>8. ASSUME NEW i \in DOMAIN list, NEW j \in DOMAIN new, new[j] = list[i] PROVE i = from(j)
      <3>1. from(j) \in DOMAIN list /\ list[from(j)] = list[i]
        BY <2>5, <2>8
      <3> HIDE DEF from
      <3> QED  BY <1>1, <2>8, <3>1 DEF IsInjective
    <2>9. GetObjectItem(g, a, s) = GetObjectItem(b, a, s)
      <3>1. ASSUME NEW i \in DOMAIN list, Named(b, a, i, s)
            PROVE  \E j \in DOMAIN new : new[j] = list[i] /\ Named(g, a, j, s)
        <4>1. to(i) \in DOMAIN new /\ from(to(i)) = i
          BY <2>4, <2>6, <3>1
        <4>2. new[to(i)] = list[i]
          BY <2>5, <4>1
        <4> HIDE DEF from, to
        <4> QED  BY <2>7, <3>1, <4>1, <4>2
      <3>2. ASSUME NEW j \in DOMAIN new, Named(g, a, j, s)
            PROVE  \E i \in DOMAIN list : new[j] = list[i] /\ Named(b, a, i, s)
        <4> HIDE DEF from
        <4> QED  BY <2>5, <2>7, <3>2
      <3>3. ASSUME NEW i \in DOMAIN list, NEW i2 \in DOMAIN list, NEW j \in DOMAIN new, NEW j2 \in DOMAIN new,
                   new[j] = list[i], new[j2] = list[i2], i <= i2
            PROVE  j <= j2
        <4>1. i = from(j) /\ i2 = from(j2)
          BY <2>8, <3>3
        <4>2. j \in Int /\ j2 \in Int /\ at \in Int
          BY <2>2
        <4> QED  BY <3>3, <4>1, <4>2
      <3>4. g \in Memories /\ new = g[a].child
        BY <1>5 DEF Edited
      <3> QED  BY <1>1, <3>1, <3>2, <3>3, <3>4, FoundAlong
    <2> QED  BY <1>5, <1>7, <2>9 DEF Finds, Edited
  <1> QED  BY <1>6, <1>7

\* An element is taken out behind those that are asked for.
LEMMA DetachAtFinds ==
  ASSUME NamesApart, NEW b \in Memories, NEW a \in Cells, b[a].type = "Array", IsInjective(b[a].child),
         NEW i \in Indices, NEW m, m = GetArrayItem(b, a, i), m # NULL,
         NEW g, g = WithChildren(b, a, Detached(b[a].child, m)),
         NEW s, s \in Indices => s < i
  PROVE  Finds(g, a, s) = Finds(b, a, s)
  <1>1. PICK list : list = b[a].child
    OBVIOUS
  <1>2. list \in Seq(Cells) /\ m \in Range(list) /\ i \in Nat
    <2>1. i \in Nat
      BY DEF NamesApart
    <2> QED  BY <1>1, <2>1, KidsAreCells, FoundAtIsKid DEF Kids
  <1>3. PICK new : new = Detached(list, m)
    OBVIOUS
  <1>4. new \in Seq(Cells)
    BY <1>1, <1>2, <1>3, ListDetached
  <1>5. Edited(b, g, a, NULL, new)
    BY <1>1, <1>3, <1>4, ListEdited
  <1>6. CASE s \notin Indices
    BY <1>5, <1>6 DEF Finds, Edited
  <1>7. CASE s \in Indices
    <2>1. s \in Nat /\ s < i
      BY <1>7 DEF NamesApart
    <2>2. PICK at \in DOMAIN list :
             /\ list[at] = m /\ DOMAIN list = 1..Len(list) /\ Len(list) \in Nat
             /\ DOMAIN new = 1..(Len(list) - 1)
             /\ \A j \in DOMAIN new : new[j] = list[IF j < at THEN j ELSE j + 1]
      BY <1>2, <1>3, DetachedFrom
    <2>3. m = list[i + 1] /\ i < Len(list) /\ i + 1 \in DOMAIN list
      <3>1. list # <<>> /\ ~(i >= Len(list)) /\ m = list[IF i > 0 THEN i + 1 ELSE 1]
        BY <1>1 DEF GetArrayItem
      <3>2. (IF i > 0 THEN i + 1 ELSE 1) = i + 1 /\ i < Len(list) /\ i + 1 \in DOMAIN list
        BY <1>2, <2>2, <3>1
      <3> QED  BY <3>1, <3>2
    <2>4. at = i + 1
      BY <1>1, <2>2, <2>3 DEF IsInjective
    <2>5. s + 1 \in DOMAIN new /\ s + 1 < at /\ s < Len(list)
      BY <1>2, <2>1, <2>2, <2>3, <2>4
    <2>6. new[s + 1] = list[s + 1]
      BY <2>2, <2>5
    <2>7. PICK len : len = Len(new)
      OBVIOUS
    <2>8. DOMAIN new = 1..len /\ len \in Nat
      BY <1>4, <2>7
    <2>9. s < len /\ new # <<>> /\ list # <<>> /\ (IF s > 0 THEN s + 1 ELSE 1) = s + 1
      BY <2>1, <2>2, <2>3, <2>5, <2>8
    <2>10. GetArrayItem(g, a, s) = new[s + 1]
      <3>1. g[a].child = new /\ ~(s >= Len(new))
        BY <1>5, <2>1, <2>7, <2>8, <2>9 DEF Edited
      <3> QED  BY <2>9, <3>1 DEF GetArrayItem
    <2>11. GetArrayItem(b, a, s) = list[s + 1]
      <3>1. ~(s >= Len(list))
        BY <2>1, <2>2, <2>5
      <3> QED  BY <1>1, <2>9, <3>1 DEF GetArrayItem
    <2> QED  BY <1>5, <1>7, <2>6, <2>10, <2>11 DEF Finds, Edited
  <1> QED  BY <1>6, <1>7

\* The list with n in the place of m
Swapped(list, m, n) == [i \in DOMAIN list |-> IF list[i] = m THEN n ELSE list[i]]

\* A member is replaced.
LEMMA ReplaceFinds ==
  ASSUME NamesApart, NEW b \in Memories, NEW a \in Cells, b[a].type = "Object", IsInjective(b[a].child),
         NEW n \in Cells, n \notin Kids(b, a), NEW k \in Keys, NEW m, m = GetObjectItem(b, a, k), m # NULL,
         NEW g, g = WithChildren(WithString(b, n, k), a, Swapped(b[a].child, m, n)),
         NEW s \in Keys \cup Indices, s # k
  PROVE  Finds(g, a, s) = Finds(b, a, s)
  <1>1. PICK list : list = b[a].child
    OBVIOUS
  <1>2. list \in Seq(Cells) /\ m \in Range(list) /\ n \notin Range(list)
    BY <1>1, KidsAreCells, FoundIsKid DEF Kids
  <1>3. PICK new : new = Swapped(list, m, n)
    OBVIOUS
  <1>4. new \in Seq(Cells) /\ IsInjective(new)
    BY <1>1, <1>2, <1>3, ListReplaced DEF Swapped
  <1>5. Edited(b, g, a, n, new) /\ g[n].string = k
    BY <1>1, <1>3, <1>4, BothEdited
  <1>6. CASE s \in Indices
    BY <1>5, <1>6 DEF Finds, Edited
  <1>7. CASE s \notin Indices
    <2>1. Fold[s] # Fold[k]
      BY <1>7 DEF NamesApart
    <2>2. DOMAIN new = DOMAIN list /\ \A i \in DOMAIN list : new[i] = IF list[i] = m THEN n ELSE list[i]
      BY <1>3 DEF Swapped
    <2>3. \A i \in DOMAIN list : list[i] \in Cells /\ list[i] # n
      BY <1>2 DEF Range
    <2>4. Fold[b[m].string] = Fold[k]
      BY FirstNamed
    <2>5. ASSUME NEW i \in DOMAIN list, list[i] = m
          PROVE  ~Named(b, a, i, s) /\ ~Named(g, a, i, s)
      <3>1. new[i] = n /\ g[a].child = new
        BY <1>5, <2>2, <2>5 DEF Edited
      <3> QED  BY <1>1, <1>5, <2>1, <2>4, <2>5, <3>1 DEF Named
    <2>6. ASSUME NEW i \in DOMAIN list, list[i] # m
          PROVE  new[i] = list[i] /\ (Named(g, a, i, s) <=> Named(b, a, i, s))
      <3>1. new[i] = list[i] /\ g[a].child = new
        BY <1>5, <2>2, <2>6 DEF Edited
      <3> QED  BY <1>1, <1>5, <2>3, <3>1 DEF Named, Edited
    <2>7. ASSUME NEW i \in DOMAIN list, NEW j \in DOMAIN new, new[j] = list[i] PROVE i = j
      <3>1. list[j] # m
        BY <2>2, <2>3, <2>7
      <3>2. list[j] = list[i]
        BY <2>2, <2>7, <3>1
      <3> QED  BY <1>1, <2>2, <2>7, <3>2 DEF IsInjective
    <2>8. GetObjectItem(g, a, s) = GetObjectItem(b, a, s)
      <3>1. \A i \in DOMAIN list : Named(b, a, i, s) =>
              \E j \in DOMAIN new : new[j] = list[i] /\ Named(g, a, j, s)
        BY <2>2, <2>5, <2>6
      <3>2. \A j \in DOMAIN new : Named(g, a, j, s) =>
              \E i \in DOMAIN list : new[j] = list[i] /\ Named(b, a, i, s)
        BY <2>2, <2>5, <2>6
      <3>3. \A i, i2 \in DOMAIN list : \A j, j2 \in DOMAIN new :
              new[j] = list[i] /\ new[j2] = list[i2] /\ i <= i2 => j <= j2
        BY <2>7
      <3>4. g \in Memories /\ new = g[a].child
        BY <1>5 DEF Edited
      <3> QED  BY <1>1, <3>1, <3>2, <3>3, <3>4, FoundAlong
    <2> QED  BY <1>5, <1>7, <2>8 DEF Finds, Edited
  <1> QED  BY <1>6, <1>7

\* An element is replaced.
LEMMA ReplaceAtFinds ==
  ASSUME NamesApart, NEW b \in Memories, NEW a \in Cells, b[a].type = "Array", IsInjective(b[a].child),
         NEW n \in Cells, n \notin Kids(b, a),
         NEW i \in Indices, NEW m, m = GetArrayItem(b, a, i), m # NULL,
         NEW g, g = WithChildren(b, a, Swapped(b[a].child, m, n)), NEW s, s # i
  PROVE  Finds(g, a, s) = Finds(b, a, s)
  <1>1. PICK list : list = b[a].child
    OBVIOUS
  <1>2. list \in Seq(Cells) /\ m \in Range(list) /\ n \notin Range(list) /\ i \in Nat
    <2>1. i \in Nat
      BY DEF NamesApart
    <2> QED  BY <1>1, <2>1, KidsAreCells, FoundAtIsKid DEF Kids
  <1>3. PICK new : new = Swapped(list, m, n)
    OBVIOUS
  <1>4. new \in Seq(Cells)
    BY <1>1, <1>2, <1>3, ListReplaced DEF Swapped
  <1>5. Edited(b, g, a, n, new)
    BY <1>1, <1>3, <1>4, ListEdited
  <1>6. CASE s \notin Indices
    BY <1>5, <1>6 DEF Finds, Edited
  <1>7. CASE s \in Indices
    <2>1. s \in Nat
      BY <1>7 DEF NamesApart
    <2>2. DOMAIN new = DOMAIN list /\ \A j \in DOMAIN list : new[j] = IF list[j] = m THEN n ELSE list[j]
      BY <1>3 DEF Swapped
    <2>3. DOMAIN list = 1..Len(list) /\ Len(list) \in Nat /\ Len(new) = Len(list)
      BY <1>2, <1>4, <2>2
    <2>4. m = list[i + 1] /\ i + 1 \in DOMAIN list
      <3>1. list # <<>> /\ ~(i >= Len(list)) /\ m = list[IF i > 0 THEN i + 1 ELSE 1]
        BY <1>1 DEF GetArrayItem
      <3>2. (IF i > 0 THEN i + 1 ELSE 1) = i + 1 /\ i + 1 \in DOMAIN list
        BY <1>2, <2>3, <3>1
      <3> QED  BY <3>1, <3>2
    <2>5. (IF s > 0 THEN s + 1 ELSE 1) = s + 1
      BY <2>1
    <2>6. CASE s >= Len(list)
      BY <1>1, <1>5, <1>7, <2>3, <2>6 DEF Finds, Edited, GetArrayItem
    <2>7. CASE ~(s >= Len(list))
      <3>1. s + 1 \in DOMAIN list /\ s + 1 # i + 1
        BY <1>2, <2>1, <2>3, <2>7
      <3>2. list[s + 1] # m
        BY <1>1, <2>4, <3>1 DEF IsInjective
      <3>3. new[s + 1] = list[s + 1]
        BY <2>2, <3>1, <3>2
      <3>4. list # <<>> /\ new # <<>>
        BY <2>2, <3>1
      <3>5. GetArrayItem(g, a, s) = new[s + 1]
        <4>1. g[a].child = new /\ ~(s >= Len(new))
          BY <1>5, <2>3, <2>7 DEF Edited
        <4> QED  BY <2>5, <3>4, <4>1 DEF GetArrayItem
      <3>6. GetArrayItem(b, a, s) = list[s + 1]
        BY <1>1, <2>5, <2>7, <3>4 DEF GetArrayItem
      <3> QED  BY <1>5, <1>7, <3>3, <3>5, <3>6 DEF Finds, Edited
    <2> QED  BY <2>6, <2>7
  <1> QED  BY <1>6, <1>7

(***************************************************************************)
(* A call on the wrapper w                                                 *)
(***************************************************************************)
\* What About, Usable and Finds say of the state there is
LEMMA AsTheCallsSay ==
  ASSUME NEW X, Sound(heap, obj, moved, X), NEW w \in DOMAIN obj
  PROVE  /\ About(obj, w) = Focus(w)
         /\ Usable(heap, obj, moved, w) <=> Live(w)
         /\ \A s : s \in Indices => LookupAt(w, s) = Finds(heap, Focus(w), s)
         /\ \A s : s \notin Indices => Lookup(w, s) = Finds(heap, Focus(w), s)
  <1>1. About(obj, w) = Focus(w)
    BY DEF About, Focus
  <1>2. Usable(heap, obj, moved, w) <=> Live(w)
    BY <1>1 DEF Usable, Live, Is, TypeOf, Alive
  <1>3. \A s : s \in Indices => LookupAt(w, s) = Finds(heap, Focus(w), s)
    BY DEF LookupAt, Finds, Is, TypeOf
  <1>4. \A s : s \notin Indices => Lookup(w, s) = Finds(heap, Focus(w), s)
    BY DEF Lookup, Finds, Is, TypeOf
  <1> QED  BY <1>1, <1>2, <1>3, <1>4

\* A wrapper whose parent is w is kept below w, under its last step.
LEMMA ChildIsCached ==
  ASSUME WrappersOK(obj), NEW q \in DOMAIN obj, Len(q) > 1, NEW w, w = Parent(q), NEW S, q[Len(q)] \in S
  PROVE  q \in Cached(w, S)
  <1>1. Way(q)
    BY DEF WrappersOK
  <1>2. PICK n : n = Len(q)
    OBVIOUS
  <1>3. q \in Seq(Steps) /\ n \in Nat /\ n > 1
    BY <1>1, <1>2 DEF Way
  <1>4. w = SubSeq(q, 1, n - 1)
    BY <1>2 DEF Parent
  <1>5. Len(w) = n - 1
    BY <1>1, <1>2, ParentWay
  <1>6. SubSeq(q, 1, Len(w)) = w
    BY <1>4, <1>5
  <1>7. Len(w) + 1 = n /\ n > Len(w)
    BY <1>3, <1>5
  <1> QED  BY <1>2, <1>6, <1>7 DEF Cached

\* What a call on w leaves: the wrappers but for those that go; w itself, about what
\* it was about or opened; another variable moved from, perhaps.
LeftAs(ob2, mv2, gone, w, trav) ==
  /\ DOMAIN ob2 = DOMAIN obj \ gone /\ w \in DOMAIN ob2 /\ w[1] \notin mv2
  /\ \A p \in DOMAIN ob2 : ob2[p].ext = obj[p].ext
  /\ ob2[w].own = Own(w) /\ ob2[w].trav = trav
  /\ \A p \in DOMAIN ob2 : p # w =>
       /\ ob2[p].trav = obj[p].trav /\ ob2[p].own \in {obj[p].own, NULL}
       /\ p[1] \notin mv2 => p[1] \notin moved /\ ob2[p].own = obj[p].own

\* So it is when the wrappers in gone are erased and w is given own and trav,
LEMMA LeftRewrapped ==
  ASSUME WrappersOK(obj), NEW w \in DOMAIN obj, w[1] \notin moved, NEW gone, gone \subseteq DOMAIN obj, w \notin gone,
         NEW trav, NEW ob2, ob2 = Rewrapped(gone, w, Own(w), trav)
  PROVE  LeftAs(ob2, moved, gone, w, trav)
  <1>1. PICK ob : ob = Given(obj, w, Own(w), trav)
    OBVIOUS
  <1>2. ob2 = Left(ob, gone)
    BY <1>1, RewrappedIs
  <1>3. /\ DOMAIN ob = DOMAIN obj
        /\ \A p \in DOMAIN obj : /\ ob[p].ext = obj[p].ext
                                 /\ p # w => ob[p] = obj[p]
        /\ ob[w].own = Own(w) /\ ob[w].trav = trav
    BY <1>1 DEF Given, WrappersOK, Wrapper
  <1> QED  BY <1>2, <1>3 DEF Left, LeftAs

\* and when, after that, the variable v is moved from.
LEMMA LeftMovedOut ==
  ASSUME WrappersOK(obj), NEW w \in DOMAIN obj, w[1] \notin moved, NEW gone, gone \subseteq DOMAIN obj, w \notin gone,
         NEW trav, NEW ob, LeftAs(ob, moved, gone, w, trav), ob \in [DOMAIN ob -> Wrapper],
         NEW v \in Vars, v # w[1], NEW ob2, ob2 = MovedOut(v, ob), NEW mv2, mv2 = moved \cup {v}
  PROVE  LeftAs(ob2, mv2, gone, w, trav)
  <1>1. <<v>> # w /\ <<v>>[1] = v
    OBVIOUS
  <1>2. /\ DOMAIN ob2 = DOMAIN ob
        /\ \A p \in DOMAIN ob : /\ ob2[p].ext = ob[p].ext /\ ob2[p].trav = ob[p].trav
                                /\ ob2[p].own = IF p = <<v>> THEN NULL ELSE ob[p].own
    BY DEF MovedOut, Wrapper
  <1>3. ob2[w].own = Own(w) /\ ob2[w].trav = trav
    BY <1>1, <1>2 DEF LeftAs
  <1>4. ASSUME NEW p \in DOMAIN ob2, p # w
        PROVE  /\ ob2[p].trav = obj[p].trav /\ ob2[p].own \in {obj[p].own, NULL}
               /\ p[1] \notin mv2 => p[1] \notin moved /\ ob2[p].own = obj[p].own
    BY <1>1, <1>2, <1>4 DEF LeftAs
  <1> QED  BY <1>2, <1>3, <1>4 DEF LeftAs

\* What that means for the wrappers
LEMMA LeftBesides ==
  ASSUME WrappersOK(obj), NEW X, Sound(heap, obj, moved, X), NEW w \in DOMAIN obj, Live(w), At(w) \in Cells,
         Focus(w) = NULL => At(w) \in Free,
         NEW ob2, NEW mv2, NEW gone, NEW trav, LeftAs(ob2, mv2, gone, w, trav)
  PROVE  /\ Besides(obj, moved, ob2, mv2, Free, w) /\ Through(heap, obj, moved, ob2, w)
         /\ About(ob2, w) = At(w)
         /\ At(w) \in Free \cup {NULL} \/ (Usable(heap, obj, moved, w) /\ At(w) = About(obj, w))
  <1>1. About(obj, w) = Focus(w) /\ Usable(heap, obj, moved, w)
    BY AsTheCallsSay
  <1>2. At(w) # NULL
    BY CellsAssumption
  <1>3. Own(w) = IF Focus(w) = NULL THEN At(w) ELSE obj[w].own
    BY DEF Own, At
  <1>4. Focus(w) # NULL => At(w) = Focus(w)
    BY DEF At
  <1>5. About(ob2, w) = At(w)
    BY <1>2, <1>3, <1>4 DEF LeftAs, About, Focus
  <1>6. Through(heap, obj, moved, ob2, w)
    BY <1>1, <1>3 DEF Through, LeftAs
  <1>7. Roots(ob2) \subseteq Roots(obj) \cup Free
    <2>1. SUFFICES ASSUME NEW p \in DOMAIN ob2, ob2[p].own # NULL PROVE ob2[p].own \in Roots(obj) \cup Free
      BY DEF Roots
    <2>2. p \in DOMAIN obj
      BY DEF LeftAs
    <2>3. ob2[p].own = obj[p].own \/ ob2[p].own \in Free
      BY <1>3, <2>1 DEF LeftAs
    <2> QED  BY <2>1, <2>2, <2>3 DEF Roots
  <1>8. Besides(obj, moved, ob2, mv2, Free, w)
    BY <1>7 DEF Besides, LeftAs
  <1> QED  BY <1>1, <1>4, <1>5, <1>6, <1>8

\* A call that was done on w: the other wrappers are besides, those below w are about
\* what they were about, its cursor is in place.
Settled(h, ob, mv, h2, ob2, mv2, F, w) ==
  \E a, n :
    /\ Changed(h, ob, mv, h2, ob2, mv2, F, a, n, w)
    /\ SameBelow(h, ob, h2, ob2, mv2, w)
    /\ "replace_ahead" \notin Liberties /\ Placed(h, ob, mv) =>
         (Usable(h2, ob2, mv2, w) => ob2[w].trav \in Places(h2, About(ob2, w)))

\* b is the memory in which the call begins its edit, of the list of At(w).
Begun(w, b, type) ==
  /\ b \in Memories /\ Within(heap, b, Free) /\ At(w) \in Cells /\ (Focus(w) = NULL => At(w) \in Free)
  /\ b[At(w)].type = type /\ IsInjective(b[At(w)].child)
  /\ \A n \in Free \cup Roots(obj) : n \notin Kids(b, At(w))
  /\ \A s : Finds(b, At(w), s) = Finds(heap, Focus(w), s)
  /\ Focus(w) # NULL => b[At(w)] = heap[At(w)]
  /\ Focus(w) = NULL => b[At(w)].child = <<>>

\* It ends in g; then something is freed and wrappers go.
LEMMA EditSettles ==
  ASSUME NamesApart, WrappersOK(obj), NEW X, Sound(heap, obj, moved, X), NEW w \in DOMAIN obj, Live(w),
         NEW type, NEW b, Begun(w, b, type),
         NEW n \in Free \cup Roots(obj) \cup {NULL}, NEW list, NEW g, Edited(b, g, At(w), n, list),
         Range(list) \subseteq Kids(b, At(w)) \cup {n},
         NEW S, \A s \in (Keys \cup Indices) \ S : Finds(g, At(w), s) = Finds(b, At(w), s),
         NEW h2, NEW ob2, NEW mv2, NEW Y, Sound(h2, ob2, mv2, Y), Survives(g, h2),
         NEW gone, NEW trav, LeftAs(ob2, mv2, gone, w, trav), Cached(w, S) \subseteq gone,
         "replace_ahead" \notin Liberties /\ Placed(heap, obj, moved) => trav \in Places(g, At(w))
  PROVE  Settled(heap, obj, moved, h2, ob2, mv2, Free, w)
  <1>1. PICK a : a = At(w)
    OBVIOUS
  <1>2. /\ Besides(obj, moved, ob2, mv2, Free, w) /\ Through(heap, obj, moved, ob2, w)
        /\ About(ob2, w) = a
        /\ a \in Free \cup {NULL} \/ (Usable(heap, obj, moved, w) /\ a = About(obj, w))
    BY <1>1, LeftBesides DEF Begun
  <1>3. a \in Cells /\ a # NULL /\ Free \subseteq Cells /\ h2 \in Memories /\ Tidy(h2, Roots(ob2) \cup Y)
    BY <1>1, CellsAssumption, FreeCells DEF Begun, Sound
  <1>4. Alters(heap, g, Free, a, n)
    BY <1>1, <1>3, EditedAlters DEF Begun
  <1>5. Alters(heap, h2, Free, a, n)
    BY <1>3, <1>4, SurvivesAlters
  <1>6. Unused(heap, obj, Free)
    BY FreeCells DEF Unused
  <1>7. Changed(heap, obj, moved, h2, ob2, mv2, Free, a, n, w)
    BY <1>2, <1>5, <1>6 DEF Changed
  <1>8. ASSUME Usable(h2, ob2, mv2, w)
        PROVE  \A s : Finds(h2, a, s) = Finds(g, a, s) /\ h2[a] = g[a]
    <2>1. Alive(h2, a)
      BY <1>2, <1>3, <1>8 DEF Usable
    <2> QED  BY <1>3, <2>1, SurvivesFinds
  <1>9. SameBelow(heap, obj, h2, ob2, mv2, w)
    <2>1. SUFFICES ASSUME Usable(h2, ob2, mv2, w), NEW q \in DOMAIN ob2, Len(q) > 1, Parent(q) = w
                   PROVE  Finds(h2, a, q[Len(q)]) = Finds(heap, About(obj, w), q[Len(q)])
      BY <1>2 DEF SameBelow
    <2>2. q \in DOMAIN obj /\ q \notin gone
      BY DEF LeftAs
    <2>3. PICK s : s = q[Len(q)]
      OBVIOUS
    <2>4. s \in Keys \cup Indices
      BY <2>1, <2>2, <2>3, LongWay DEF WrappersOK
    <2>5. s \notin S
      BY <2>1, <2>2, <2>3, ChildIsCached
    <2>6. Finds(g, a, s) = Finds(b, a, s)
      BY <1>1, <2>4, <2>5
    <2>7. Finds(b, a, s) = Finds(heap, Focus(w), s)
      BY <1>1 DEF Begun
    <2>8. About(obj, w) = Focus(w)
      BY AsTheCallsSay
    <2> QED  BY <1>8, <2>1, <2>3, <2>6, <2>7, <2>8
  <1>10. "replace_ahead" \notin Liberties /\ Placed(heap, obj, moved) =>
           (Usable(h2, ob2, mv2, w) => ob2[w].trav \in Places(h2, About(ob2, w)))
    <2>1. SUFFICES ASSUME "replace_ahead" \notin Liberties, Placed(heap, obj, moved), Usable(h2, ob2, mv2, w)
                   PROVE  ob2[w].trav \in Places(h2, a)
      BY <1>2
    <2>2. h2[a] = g[a]
      BY <1>8, <2>1
    <2>3. Places(h2, a) = Places(g, a)
      BY <2>2 DEF Places, Kids
    <2>4. trav \in Places(g, a)
      BY <1>1, <2>1
    <2> QED  BY <2>3, <2>4 DEF LeftAs
  <1> QED  BY <1>7, <1>9, <1>10 DEF Settled

\* The memory in which w was opened
LEMMA OpenedIs ==
  ASSUME WrappersOK(obj), NEW X, Sound(heap, obj, moved, X), NEW w \in DOMAIN obj, Live(w),
         NEW n \in Nat, Room(w, n),
         NEW root \in {CreateObject, CreateArray}, Focus(w) = NULL \/ Is(w, root.type),
         NEW f, f = Opened(w, root)
  PROVE  /\ f \in Memories /\ Within(heap, f, Free)
         /\ At(w) \in Cells /\ (Focus(w) = NULL => At(w) \in Free /\ f[At(w)].child = <<>>)
         /\ f[At(w)].type = root.type /\ (Focus(w) # NULL => At(w) = Focus(w) /\ f = heap)
         /\ Rest(w) \subseteq Free /\ Free \subseteq Cells /\ Cardinality(Rest(w)) >= n /\ At(w) \notin Rest(w)
         /\ \A N : Trees(f, N) = Trees(heap, N)
         /\ \A c \in Cells : Alive(heap, c) => f[c] = heap[c]
         /\ \E ob : /\ Sound(f, ob, moved, X) /\ Rest(w) \subseteq {c \in Cells : ~Alive(f, c)}
                    /\ \A p \in DOMAIN ob : ob[p].ext \notin Rest(w)
  <1>1. PICK ob : ob = Given(obj, w, Own(w), NULL)
    OBVIOUS
  <1>2. /\ WrappersOK(ob) /\ DOMAIN ob = DOMAIN obj
        /\ \A p \in DOMAIN obj : ob[p].ext = obj[p].ext
        /\ \A p \in DOMAIN obj : ob[p].own = IF p = w THEN Own(w) ELSE obj[p].own
    <2>1. Room(w, 0) /\ NULL \in Pointers
      BY RoomLess DEF Pointers
    <2> QED  BY <1>1, <2>1, OpenedOK
  <1>3. w[1] \notin moved
    BY DEF Live
  <1>4. /\ Sound(f, ob, moved, X)
        /\ At(w) \in Cells /\ f[At(w)].type = root.type
        /\ Rest(w) \subseteq {c \in Cells : ~Alive(f, c)} /\ Cardinality(Rest(w)) >= n
        /\ \A p \in DOMAIN ob : ob[p].ext \notin Rest(w)
        /\ \A c \in Cells : Alive(heap, c) => f[c] = heap[c]
        /\ \A N : Trees(f, N) = Trees(heap, N)
    BY <1>2, <1>3, SoundOpened
  <1>5. heap \in Memories /\ Tidy(heap, Roots(obj) \cup X) /\ f \in Memories
    BY <1>4 DEF Sound
  <1>6. Free \subseteq {c \in Cells : ~Alive(heap, c)} /\ Free \subseteq Cells
    BY FreeCells
  <1>7. Within(heap, heap, Free)
    BY <1>5, <1>6, FreeShut
  <1>8. At(w) \notin Rest(w)
    BY <1>4, RootsMade DEF Alive
  <1>9. CASE Focus(w) # NULL
    <2>1. f = heap /\ At(w) = Focus(w) /\ Rest(w) = Free
      BY <1>9 DEF Opened, At, Rest
    <2> QED  BY <1>4, <1>5, <1>6, <1>7, <1>8, <1>9, <2>1
  <1>10. CASE Focus(w) = NULL
    <2>1. PICK r : r = First(Free)
      OBVIOUS
    <2>2. f = [heap EXCEPT ![r] = root] /\ At(w) = r /\ Rest(w) = Free \ {r} /\ Cardinality(Free) >= n + 1
      BY <1>10, <2>1 DEF Opened, At, Rest, Room
    <2>3. r \in Free
      <3>1. Cardinality(Free) >= 1
        BY <2>2, FreeCells
      <3> QED  BY <1>6, <2>1, <3>1, FirstFree
    <2>4. "child" \in DOMAIN root /\ root.child = <<>>
      BY DEF CreateObject, CreateArray, NewItem
    <2>5. Within(heap, f, Free)
      BY <1>7, <2>2, <2>3, <2>4, CellWithin
    <2>6. f[r].child = <<>>
      BY <1>5, <1>6, <2>2, <2>3, <2>4 DEF Memories
    <2> QED  BY <1>4, <1>5, <1>6, <1>8, <1>10, <2>2, <2>3, <2>5, <2>6
  <1> QED  BY <1>9, <1>10

\* What is made in free cells is where a call may begin.
LEMMA BegunIs ==
  ASSUME WrappersOK(obj), NEW X, Sound(heap, obj, moved, X), NEW w \in DOMAIN obj, Live(w),
         NEW b \in Memories, Within(heap, b, Free), At(w) \in Cells, NEW type \in {"Array", "Object"},
         b[At(w)].type = type, Focus(w) = NULL => At(w) \in Free /\ b[At(w)].child = <<>>,
         Focus(w) # NULL => b[At(w)] = heap[At(w)]
  PROVE  Begun(w, b, type)
  <1>1. heap \in Memories /\ Tidy(heap, Roots(obj) \cup X) /\ Free \subseteq {c \in Cells : ~Alive(heap, c)}
    BY FreeCells DEF Sound
  <1>2. PICK a : a = At(w)
    OBVIOUS
  <1>3. CASE Focus(w) = NULL
    <2>1. b[a].child = <<>> /\ IsInjective(b[a].child) /\ Kids(b, a) = {}
      BY <1>2, <1>3 DEF IsInjective, Kids, Range
    <2>2. a # NULL /\ a \in Cells
      BY <1>2, CellsAssumption
    <2>3. \A s : GetArrayItem(b, a, s) = NULL
      BY <2>1 DEF GetArrayItem
    <2>4. \A s : GetObjectItem(b, a, s) = NULL
      BY <2>1, <2>2, FirstNamed
    <2>5. \A s : Finds(b, a, s) = NULL
      BY <2>3, <2>4 DEF Finds
    <2>6. \A s : Finds(heap, Focus(w), s) = NULL
      BY <1>3 DEF Finds
    <2> QED  BY <1>2, <1>3, <2>1, <2>2, <2>5, <2>6 DEF Begun
  <1>4. CASE Focus(w) # NULL
    <2>1. a = Focus(w) /\ a \in Cells /\ a # NULL /\ Alive(heap, a)
      BY <1>2, <1>4, FocusIsItem DEF At
    <2>2. b[a] = heap[a] /\ IsInjective(b[a].child) /\ Kids(b, a) = Kids(heap, a)
      BY <1>1, <1>2, <1>4, <2>1 DEF Tidy, Kids
    <2>3. \A n \in Free \cup Roots(obj) : n \notin Kids(b, a)
      BY <1>1, <2>1, <2>2 DEF Tidy
    <2>4. \A s : GetArrayItem(b, a, s) = GetArrayItem(heap, a, s)
      BY <2>2 DEF GetArrayItem
    <2>5. \A s : GetObjectItem(b, a, s) = GetObjectItem(heap, a, s)
      <3>1. \A x \in Cells \ Free : b[x] = heap[x]
        BY DEF Within
      <3>2. \A x \in Free : ~Alive(heap, x)
        BY <1>1
      <3> QED  BY <1>1, <2>1, <3>1, <3>2, FoundAsWell
    <2>6. \A s : Finds(b, a, s) = Finds(heap, a, s)
      BY <2>2, <2>4, <2>5 DEF Finds
    <2> QED  BY <1>2, <1>4, <2>1, <2>2, <2>3, <2>6 DEF Begun
  <1> QED  BY <1>3, <1>4

\* A scalar is made,
LEMMA ScalarBegun ==
  ASSUME WrappersOK(obj), NEW X, Sound(heap, obj, moved, X), NEW w \in DOMAIN obj, Live(w), Room(w, 1),
         NEW root \in {CreateObject, CreateArray}, Focus(w) = NULL \/ Is(w, root.type),
         NEW item, Scalar(item), NEW n, n = First(Rest(w)),
         NEW b, b = [Opened(w, root) EXCEPT ![n] = item]
  PROVE  n \in Free /\ n \in Cells /\ Begun(w, b, root.type)
  <1>1. PICK f : f = Opened(w, root)
    OBVIOUS
  <1>2. /\ f \in Memories /\ Within(heap, f, Free)
        /\ At(w) \in Cells /\ (Focus(w) = NULL => At(w) \in Free /\ f[At(w)].child = <<>>)
        /\ f[At(w)].type = root.type /\ (Focus(w) # NULL => f = heap)
        /\ Rest(w) \subseteq Free /\ Free \subseteq Cells /\ Cardinality(Rest(w)) >= 1 /\ At(w) \notin Rest(w)
    BY <1>1, OpenedIs
  <1>3. n \in Rest(w)
    <2>1. Rest(w) \subseteq Cells
      BY <1>2
    <2> QED  BY <1>2, <2>1, FirstFree
  <1>4. n \in Free /\ n \in Cells /\ n # At(w) /\ b = [f EXCEPT ![n] = item]
    BY <1>1, <1>2, <1>3
  <1>5. item \in Item /\ "child" \in DOMAIN item /\ item.child = <<>>
    BY DEF Scalar, Item
  <1>6. b \in Memories /\ b[At(w)] = f[At(w)]
    BY <1>2, <1>4, <1>5 DEF Memories
  <1>7. Within(heap, b, Free)
    <2>1. Within(heap, f, Free) /\ n \in Free
      BY <1>2, <1>4
    <2>2. b = [f EXCEPT ![n] = item] /\ "child" \in DOMAIN item /\ item.child = <<>>
      BY <1>4, <1>5
    <2> QED  BY <2>1, <2>2, CellWithin
  <1>8. root.type \in {"Array", "Object"}
    BY RootsMade
  <1>9. /\ b[At(w)].type = root.type /\ At(w) \in Cells /\ b \in Memories
        /\ Focus(w) = NULL => At(w) \in Free /\ b[At(w)].child = <<>>
        /\ Focus(w) # NULL => b[At(w)] = heap[At(w)]
    BY <1>2, <1>6
  <1>10. Begun(w, b, root.type)
    BY <1>7, <1>8, <1>9, BegunIs
  <1> QED  BY <1>4, <1>10

\* or a copy,
LEMMA CopyBegun ==
  ASSUME WrappersOK(obj), NEW X, Sound(heap, obj, moved, X), NEW w \in DOMAIN obj, Live(w),
         NEW root \in {CreateObject, CreateArray}, Focus(w) = NULL \/ Is(w, root.type),
         NEW x \in DOMAIN obj, Live(x), Focus(x) # NULL, Room(w, TreeSize(x)),
         NEW n, n = CopyCell(heap, Focus(x), Rest(w))[Focus(x)],
         NEW b, b = Copy(Opened(w, root), Focus(x), Rest(w))
  PROVE  n \in Free /\ n \in Cells /\ Begun(w, b, root.type)
  <1>1. PICK f : f = Opened(w, root)
    OBVIOUS
  <1>2. PICK m \in Cells : m = Focus(x) /\ Alive(heap, m)
    BY FocusIsItem
  <1>3. PICK size \in Nat : size = TreeSize(x)
    <2>1. Trees(heap, {Focus(x)}) \subseteq Cells
      BY DEF Trees
    <2> QED  BY <2>1, CellsAssumption, FS_Subset, FS_CardinalityType DEF TreeSize
  <1>4. /\ f \in Memories /\ Within(heap, f, Free)
        /\ At(w) \in Cells /\ (Focus(w) = NULL => At(w) \in Free /\ f[At(w)].child = <<>>)
        /\ f[At(w)].type = root.type /\ (Focus(w) # NULL => f = heap)
        /\ Rest(w) \subseteq Free /\ Free \subseteq Cells /\ Cardinality(Rest(w)) >= size /\ At(w) \notin Rest(w)
        /\ \A N : Trees(f, N) = Trees(heap, N)
        /\ \A c \in Cells : Alive(heap, c) => f[c] = heap[c]
        /\ \E ob : /\ Sound(f, ob, moved, X) /\ Rest(w) \subseteq {c \in Cells : ~Alive(f, c)}
                   /\ \A p \in DOMAIN ob : ob[p].ext \notin Rest(w)
    BY <1>1, <1>3, OpenedIs
  <1>5. PICK ob : /\ Sound(f, ob, moved, X) /\ Rest(w) \subseteq {c \in Cells : ~Alive(f, c)}
                  /\ \A p \in DOMAIN ob : ob[p].ext \notin Rest(w)
    BY <1>4
  <1>6. b = Copy(f, m, Rest(w)) /\ n = CopyCell(f, m, Rest(w))[m] /\ Alive(f, m)
    <2>1. CopyCell(heap, m, Rest(w)) = CopyCell(f, m, Rest(w))
      BY <1>4 DEF CopyCell
    <2> QED  BY <1>1, <1>2, <1>4, <2>1 DEF Alive
  <1>7. Cardinality(Trees(f, {m})) = size /\ Cardinality(Rest(w)) \in Nat
    <2>1. IsFiniteSet(Rest(w))
      BY <1>4, CellsAssumption, FS_Subset
    <2> QED  BY <1>2, <1>3, <1>4, <2>1, FS_CardinalityType DEF TreeSize
  <1>8. Cardinality(Trees(f, {m})) <= Cardinality(Rest(w)) /\ Cardinality(Rest(w)) >= Cardinality(Trees(f, {m}))
    BY <1>4, <1>7
  <1>9. b \in Memories /\ n \in Rest(w)
    BY <1>5, <1>6, <1>8, SoundCopied
  <1>10. Within(heap, b, Free) /\ Within(f, b, Rest(w))
    <2>1. Within(heap, b, Free)
      BY <1>4, <1>6, <1>8, CopyWithin
    <2>2. Tidy(f, Roots(ob) \cup X)
      BY <1>5 DEF Sound
    <2>3. Within(f, f, Rest(w))
      BY <1>4, <1>5, <2>2, FreeShut
    <2>4. Rest(w) \subseteq Rest(w)
      OBVIOUS
    <2> QED  BY <1>4, <1>6, <1>8, <2>1, <2>3, <2>4, CopyWithin
  <1>11. b[At(w)] = f[At(w)]
    BY <1>4, <1>10 DEF Within
  <1>12. root.type \in {"Array", "Object"}
    BY RootsMade
  <1> QED  BY <1>4, <1>9, <1>10, <1>11, <1>12, BegunIs

\* or nothing: another variable's document comes in, or an element goes.
LEMMA OpenedBegun ==
  ASSUME WrappersOK(obj), NEW X, Sound(heap, obj, moved, X), NEW w \in DOMAIN obj, Live(w), Room(w, 0),
         NEW root \in {CreateObject, CreateArray}, Focus(w) = NULL \/ Is(w, root.type),
         NEW b, b = Opened(w, root)
  PROVE  Begun(w, b, root.type)
  <1>1. /\ b \in Memories /\ Within(heap, b, Free)
        /\ At(w) \in Cells /\ (Focus(w) = NULL => At(w) \in Free /\ b[At(w)].child = <<>>)
        /\ b[At(w)].type = root.type /\ (Focus(w) # NULL => b = heap)
    BY OpenedIs
  <1>2. root.type \in {"Array", "Object"}
    BY RootsMade
  <1> QED  BY <1>1, <1>2, BegunIs

\* A call on an item that is there begins in the memory there is.
LEMMA HeapBegun ==
  ASSUME WrappersOK(obj), NEW X, Sound(heap, obj, moved, X), NEW w \in DOMAIN obj, Live(w),
         NEW type \in {"Array", "Object"}, Is(w, type)
  PROVE  Begun(w, heap, type) /\ At(w) = Focus(w) /\ Focus(w) # NULL
  <1>1. /\ Focus(w) \in Cells /\ heap[Focus(w)].type = type /\ Focus(w) # NULL
    BY ContainerIsItem
  <1>2. heap \in Memories /\ Tidy(heap, Roots(obj) \cup X) /\ Free \subseteq {c \in Cells : ~Alive(heap, c)}
    BY FreeCells DEF Sound
  <1>3. Within(heap, heap, Free)
    BY <1>2, FreeShut
  <1>4. At(w) = Focus(w)
    BY <1>1 DEF At
  <1> QED  BY <1>1, <1>2, <1>3, <1>4, BegunIs

\* The end of a call: of the memory g something was freed, wrappers went.
Ended(h2, ob2, mv2, g, gone, w, trav) ==
  (\E Y : Sound(h2, ob2, mv2, Y)) /\ Survives(g, h2) /\ LeftAs(ob2, mv2, gone, w, trav)

\* Where the cursor of w is at the beginning
LEMMA CursorBefore ==
  ASSUME NEW X, Sound(heap, obj, moved, X), NEW w \in DOMAIN obj, Live(w), Placed(heap, obj, moved),
         NEW b, NEW type, Begun(w, b, type)
  PROVE  /\ obj[w].trav \in Places(b, At(w))
         /\ type = "Array" => obj[w].trav \in {NULL, At(w)}
  <1>1. obj[w].trav \in Places(heap, Focus(w))
    BY AsTheCallsSay DEF Placed
  <1>2. CASE Focus(w) = NULL
    BY <1>1, <1>2 DEF Places
  <1>3. CASE Focus(w) # NULL
    <2>1. At(w) = Focus(w) /\ b[At(w)] = heap[At(w)] /\ b[At(w)].type = type
      BY <1>3 DEF At, Begun
    <2> QED  BY <1>1, <2>1 DEF Places, Kids
  <1> QED  BY <1>2, <1>3

\* The list stays as it was.
LEMMA NothingEdited ==
  ASSUME NamesApart, WrappersOK(obj), NEW X, Sound(heap, obj, moved, X), NEW w \in DOMAIN obj, Live(w),
         NEW type, NEW b, Begun(w, b, type),
         NEW h2, NEW ob2, NEW mv2, NEW gone, NEW trav, Ended(h2, ob2, mv2, b, gone, w, trav),
         trav \in {At(w), obj[w].trav}
  PROVE  Settled(heap, obj, moved, h2, ob2, mv2, Free, w)
  <1>1. PICK list : list = b[At(w)].child
    OBVIOUS
  <1>2. Edited(b, b, At(w), NULL, list) /\ Range(list) \subseteq Kids(b, At(w)) \cup {NULL}
    BY <1>1 DEF Edited, Begun, Kids
  <1>3. \A s \in (Keys \cup Indices) \ {} : Finds(b, At(w), s) = Finds(b, At(w), s)
    OBVIOUS
  <1>4. Cached(w, {}) \subseteq gone
    BY DEF Cached
  <1>5. PICK Y : Sound(h2, ob2, mv2, Y)
    BY DEF Ended
  <1>6. Survives(b, h2) /\ LeftAs(ob2, mv2, gone, w, trav)
    BY DEF Ended
  <1>7. "replace_ahead" \notin Liberties /\ Placed(heap, obj, moved) => trav \in Places(b, At(w))
    <2>1. At(w) \in Places(b, At(w))
      BY DEF Places
    <2> QED  BY <2>1, CursorBefore
  <1>8. NULL \in Free \cup Roots(obj) \cup {NULL}
    OBVIOUS
  <1> QED  BY <1>2, <1>3, <1>4, <1>5, <1>6, <1>7, <1>8, EditSettles

\* A member was added.
LEMMA MemberAdded ==
  ASSUME NamesApart, WrappersOK(obj), NEW X, Sound(heap, obj, moved, X), NEW w \in DOMAIN obj, Live(w),
         NEW b, Begun(w, b, "Object"), NEW n \in Cells, n \in Free \cup Roots(obj), NEW k \in Keys,
         NEW g, g = AddItemToObject(b, At(w), k, n),
         NEW h2, NEW ob2, NEW mv2, NEW gone, Ended(h2, ob2, mv2, g, gone, w, At(w)),
         Cached(w, {k}) \subseteq gone
  PROVE  Settled(heap, obj, moved, h2, ob2, mv2, Free, w)
  <1>1. PICK a : a = At(w)
    OBVIOUS
  <1>2. /\ b \in Memories /\ a \in Cells /\ b[a].type = "Object" /\ IsInjective(b[a].child)
        /\ n \notin Kids(b, a)
    BY <1>1 DEF Begun
  <1>3. PICK list : list = b[a].child
    OBVIOUS
  <1>4. list \in Seq(Cells)
    BY <1>2, <1>3, KidsAreCells
  <1>5. PICK new : new = Append(list, n)
    OBVIOUS
  <1>6. new \in Seq(Cells) /\ Range(new) \subseteq Kids(b, a) \cup {n}
    <2>1. /\ new \in Seq(Cells) /\ DOMAIN new = 1..(Len(list) + 1) /\ Len(list) \in Nat
          /\ DOMAIN list = 1..Len(list)
          /\ \A i \in 1..Len(list) : new[i] = list[i] /\ new[Len(list) + 1] = n
      BY <1>4, <1>5
    <2>2. \A i \in DOMAIN new : i \in DOMAIN list \/ i = Len(list) + 1
      BY <2>1
    <2>3. new[Len(list) + 1] = n
      BY <1>4, <1>5
    <2> QED  BY <1>3, <2>1, <2>2, <2>3 DEF Range, Kids
  <1>7. g = WithChildren(WithString(b, n, k), a, new)
    <2>1. WithString(b, n, k)[a].child = list
      BY <1>2, <1>3, StringGiven
    <2> QED  BY <1>1, <1>5, <2>1 DEF AddItemToObject, AddItemToArray, WithChildren, WithString
  <1>8. Edited(b, g, a, n, new)
    BY <1>2, <1>6, <1>7, BothEdited
  <1>9. \A s \in (Keys \cup Indices) \ {k} : Finds(g, a, s) = Finds(b, a, s)
    BY <1>1, <1>2, AddFinds
  <1>10. PICK Y : Sound(h2, ob2, mv2, Y)
    BY DEF Ended
  <1>11. Survives(g, h2) /\ LeftAs(ob2, mv2, gone, w, a)
    BY <1>1 DEF Ended
  <1>12. a \in Places(g, a)
    BY DEF Places
  <1>13. n \in Free \cup Roots(obj) \cup {NULL}
    OBVIOUS
  <1> QED  BY <1>1, <1>6, <1>8, <1>9, <1>10, <1>11, <1>12, <1>13, EditSettles

\* An element was put behind the others, or before them.
LEMMA ElementAdded ==
  ASSUME NamesApart, WrappersOK(obj), NEW X, Sound(heap, obj, moved, X), NEW w \in DOMAIN obj, Live(w),
         NEW b, Begun(w, b, "Array"), NEW n \in Cells, n \in Free \cup Roots(obj),
         NEW first \in BOOLEAN, NEW g, g = Put(b, At(w), n, first),
         NEW S, ~first => \A s \in Indices \ S : s < Len(b[At(w)].child), first => Indices \subseteq S,
         NEW h2, NEW ob2, NEW mv2, NEW gone, Ended(h2, ob2, mv2, g, gone, w, obj[w].trav),
         Cached(w, S) \subseteq gone
  PROVE  Settled(heap, obj, moved, h2, ob2, mv2, Free, w)
  <1>1. PICK a : a = At(w)
    OBVIOUS
  <1>2. b \in Memories /\ a \in Cells /\ b[a].type = "Array"
    BY <1>1 DEF Begun
  <1>3. PICK list : list = b[a].child
    OBVIOUS
  <1>4. list \in Seq(Cells)
    BY <1>2, <1>3, KidsAreCells
  <1>5. PICK new : new = IF first THEN <<n>> \o list ELSE Append(list, n)
    OBVIOUS
  <1>6. new \in Seq(Cells) /\ Range(new) \subseteq Kids(b, a) \cup {n}
    <2>1. Len(list) \in Nat /\ DOMAIN list = 1..Len(list)
      BY <1>4
    <2>2. CASE first
      <3>1. /\ new \in Seq(Cells) /\ DOMAIN new = 1..(Len(list) + 1)
            /\ \A i \in DOMAIN new : new[i] = IF i = 1 THEN n ELSE list[i - 1]
        BY <1>4, <1>5, <2>2
      <3>2. \A i \in DOMAIN new : i = 1 \/ i - 1 \in DOMAIN list
        BY <2>1, <3>1
      <3> QED  BY <1>3, <3>1, <3>2 DEF Range, Kids
    <2>3. CASE ~first
      <3>1. /\ new \in Seq(Cells) /\ DOMAIN new = 1..(Len(list) + 1)
            /\ \A i \in 1..Len(list) : new[i] = list[i]
        BY <1>4, <1>5, <2>3
      <3>2. \A i \in DOMAIN new : i \in DOMAIN list \/ i = Len(list) + 1
        BY <2>1, <3>1
      <3>3. new[Len(list) + 1] = n
        BY <1>4, <1>5, <2>3
      <3> QED  BY <1>3, <2>1, <3>1, <3>2, <3>3 DEF Range, Kids
    <2> QED  BY <2>2, <2>3
  <1>7. g = WithChildren(b, a, new)
    BY <1>1, <1>3, <1>5 DEF Put, AddItemToArray, AddItemToArrayHead, WithChildren
  <1>8. Edited(b, g, a, n, new)
    BY <1>2, <1>6, <1>7, ListEdited
  <1>9. ASSUME NEW s \in (Keys \cup Indices) \ S PROVE Finds(g, a, s) = Finds(b, a, s)
    <2>1. CASE first
      <3>1. s \notin Indices /\ g = AddItemToArrayHead(b, a, n)
        BY <1>1, <1>9, <2>1 DEF Put
      <3> QED  BY <1>2, <3>1, PrependFinds
    <2>2. CASE ~first
      <3>1. g = AddItemToArray(b, a, n) /\ (s \in Indices => s < Len(b[a].child))
        BY <1>1, <1>9, <2>2 DEF Put
      <3> QED  BY <1>2, <3>1, AppendFinds
    <2> QED  BY <2>1, <2>2
  <1>10. PICK Y : Sound(h2, ob2, mv2, Y)
    BY DEF Ended
  <1>11. PICK trav : trav = obj[w].trav
    OBVIOUS
  <1>14. Survives(g, h2) /\ LeftAs(ob2, mv2, gone, w, trav)
    BY <1>11 DEF Ended
  <1>12. "replace_ahead" \notin Liberties /\ Placed(heap, obj, moved) => trav \in Places(g, a)
    <2>1. Placed(heap, obj, moved) => obj[w].trav \in {NULL, a}
      BY <1>1, CursorBefore
    <2> QED  BY <1>11, <2>1 DEF Places
  <1>13. n \in Free \cup Roots(obj) \cup {NULL}
    OBVIOUS
  <1>15. \A s \in (Keys \cup Indices) \ S : Finds(g, At(w), s) = Finds(b, At(w), s)
    BY <1>1, <1>9
  <1>16. Edited(b, g, At(w), n, new) /\ Range(new) \subseteq Kids(b, At(w)) \cup {n}
    BY <1>1, <1>6, <1>8
  <1>17. "replace_ahead" \notin Liberties /\ Placed(heap, obj, moved) => trav \in Places(g, At(w))
    BY <1>1, <1>12
  <1> QED  BY <1>10, <1>13, <1>14, <1>15, <1>16, <1>17, EditSettles

\* An item was taken out of the list and freed.
LEMMA ItemDeleted ==
  ASSUME NamesApart, WrappersOK(obj), NEW X, Sound(heap, obj, moved, X), NEW w \in DOMAIN obj, Live(w),
         NEW type \in {"Array", "Object"}, Is(w, type), NEW a, a = Focus(w),
         NEW m, m \in Kids(heap, a), NEW g, g = WithChildren(heap, a, Detached(heap[a].child, m)),
         NEW S, \A s \in (Keys \cup Indices) \ S : Finds(g, a, s) = Finds(heap, a, s),
         NEW h2, NEW ob2, NEW mv2, NEW gone, NEW trav,
         Ended(h2, ob2, mv2, DeleteItem(heap, a, m), gone, w, trav), Cached(w, S) \subseteq gone,
         Placed(heap, obj, moved) => trav \in {NULL, a}
  PROVE  Settled(heap, obj, moved, h2, ob2, mv2, Free, w)
  <1>1. Begun(w, heap, type) /\ At(w) = a /\ a # NULL
    BY HeapBegun
  <1>2. heap \in Memories /\ a \in Cells
    BY <1>1 DEF Begun
  <1>3. PICK list : list = heap[a].child
    OBVIOUS
  <1>4. list \in Seq(Cells) /\ m \in Cells /\ m # NULL
    BY <1>2, <1>3, KidsAreCells, CellsAssumption
  <1>5. PICK new : new = Detached(list, m)
    OBVIOUS
  <1>6. new \in Seq(Cells) /\ Range(new) \subseteq Kids(heap, a) \cup {NULL}
    <2>1. m \in Range(list)
      BY <1>3 DEF Kids
    <2>2. PICK at \in DOMAIN list :
            /\ DOMAIN list = 1..Len(list) /\ Len(list) \in Nat
            /\ DOMAIN new = 1..(Len(list) - 1)
            /\ \A i \in DOMAIN new : new[i] = list[IF i < at THEN i ELSE i + 1]
      BY <1>4, <1>5, <2>1, DetachedFrom
    <2>3. \A i \in DOMAIN new : (IF i < at THEN i ELSE i + 1) \in DOMAIN list
      BY <2>2
    <2>4. Range(new) \subseteq Range(list)
      BY <2>2, <2>3 DEF Range
    <2>5. list # <<>>
      BY <2>1 DEF Range
    <2>6. new \in Seq(Cells)
      BY <1>4, <1>5, <2>5, ListsWithin
    <2> QED  BY <1>3, <2>4, <2>6 DEF Kids
  <1>7. Edited(heap, g, At(w), NULL, new)
    BY <1>1, <1>2, <1>3, <1>5, <1>6, ListEdited
  <1>8. PICK Y : Sound(h2, ob2, mv2, Y)
    BY DEF Ended
  <1>9. LeftAs(ob2, mv2, gone, w, trav)
    BY DEF Ended
  <1>10. Survives(g, h2)
    <2>1. PICK d : d = DeleteItem(heap, a, m)
      OBVIOUS
    <2>2. d = Delete(g, {m})
      BY <1>4, <2>1 DEF DeleteItem, WithChildren
    <2>3. Survives(g, d)
      BY <2>2, DeleteSurvives
    <2>4. Survives(d, h2)
      BY <2>1 DEF Ended
    <2> QED  BY <2>3, <2>4, SurvivesAll
  <1>11. \A s \in (Keys \cup Indices) \ S : Finds(g, At(w), s) = Finds(heap, At(w), s)
    BY <1>1
  <1>12. "replace_ahead" \notin Liberties /\ Placed(heap, obj, moved) => trav \in Places(g, At(w))
    BY <1>1 DEF Places
  <1>13. NULL \in Free \cup Roots(obj) \cup {NULL}
    OBVIOUS
  <1>14. Range(new) \subseteq Kids(heap, At(w)) \cup {NULL}
    BY <1>1, <1>6
  <1> QED  BY <1>1, <1>7, <1>8, <1>9, <1>10, <1>11, <1>12, <1>13, <1>14, EditSettles

\* The item m is n now, under the key k or with the key it has (f), and was freed.
LEMMA ItemSwapped ==
  ASSUME NamesApart, WrappersOK(obj), NEW X, Sound(heap, obj, moved, X), NEW w \in DOMAIN obj, Live(w),
         NEW a, a = At(w), NEW type, NEW b, Begun(w, b, type),
         NEW n \in Cells, n \in Free \cup Roots(obj), NEW m \in Kids(b, a),
         NEW g, Edited(b, g, a, n, Swapped(b[a].child, m, n)),
         NEW S, \A s \in (Keys \cup Indices) \ S : Finds(g, a, s) = Finds(b, a, s),
         NEW h2, NEW ob2, NEW mv2, NEW gone, NEW trav, trav = obj[w].trav,
         Ended(h2, ob2, mv2, Delete(g, {m}), gone, w, trav), Cached(w, S) \subseteq gone,
         CanReplace(w, m)
  PROVE  Settled(heap, obj, moved, h2, ob2, mv2, Free, w)
  <1>1. b \in Memories /\ a \in Cells /\ b[a].type = type /\ g[a].type = type
    BY DEF Begun, Edited
  <1>2. PICK list : list = b[a].child
    OBVIOUS
  <1>3. list \in Seq(Cells) /\ m \in Cells /\ m # NULL
    BY <1>1, <1>2, KidsAreCells, CellsAssumption
  <1>4. PICK new : new = Swapped(list, m, n)
    OBVIOUS
  <1>5. /\ DOMAIN new = DOMAIN list
        /\ \A i \in DOMAIN list : new[i] = IF list[i] = m THEN n ELSE list[i]
    BY <1>4 DEF Swapped
  <1>6. Range(new) \subseteq Kids(b, a) \cup {n} /\ \A c \in Kids(b, a) : c # m => c \in Range(new)
    BY <1>2, <1>5 DEF Range, Kids
  <1>7. Edited(b, g, a, n, new)
    BY <1>2, <1>4
  <1>8. PICK Y : Sound(h2, ob2, mv2, Y)
    BY DEF Ended
  <1>9. LeftAs(ob2, mv2, gone, w, trav)
    BY DEF Ended
  <1>10. Survives(g, h2)
    <2>1. PICK d : d = Delete(g, {m})
      OBVIOUS
    <2>2. Survives(g, d)
      BY <2>1, DeleteSurvives
    <2>3. Survives(d, h2)
      BY <2>1 DEF Ended
    <2> QED  BY <2>2, <2>3, SurvivesAll
  <1>11. "replace_ahead" \notin Liberties /\ Placed(heap, obj, moved) => trav \in Places(g, a)
    <2>1. SUFFICES ASSUME "replace_ahead" \notin Liberties, Placed(heap, obj, moved) PROVE trav \in Places(g, a)
      OBVIOUS
    <2>2. trav # m
      BY <1>3, <2>1 DEF CanReplace, Unless
    <2>3. trav \in Places(b, a)
      BY <2>1, CursorBefore
    <2>4. Kids(g, a) = Range(new)
      BY <1>7 DEF Edited, Kids
    <2> QED  BY <1>1, <1>6, <2>2, <2>3, <2>4 DEF Places
  <1>12. n \in Free \cup Roots(obj) \cup {NULL}
    OBVIOUS
  <1> QED  BY <1>6, <1>7, <1>8, <1>9, <1>10, <1>11, <1>12, EditSettles

\* A member was replaced, or there was none.
LEMMA MemberReplaced ==
  ASSUME NamesApart, WrappersOK(obj), NEW X, Sound(heap, obj, moved, X), NEW w \in DOMAIN obj, Live(w),
         Is(w, "Object"), NEW b, Begun(w, b, "Object"),
         NEW n \in Cells, n \in Free \cup Roots(obj), NEW k \in Keys,
         NEW m, m = Lookup(w, k), CanReplace(w, m), NEW g, g = ReplaceItemInObject(b, Focus(w), k, n),
         NEW h2, NEW ob2, NEW mv2, NEW gone, NEW trav, trav = obj[w].trav,
         Ended(h2, ob2, mv2, g, gone, w, trav), m # NULL => Cached(w, {k}) \subseteq gone
  PROVE  Settled(heap, obj, moved, h2, ob2, mv2, Free, w)
  <1>1. PICK a : a = At(w)
    OBVIOUS
  <1>2. /\ a = Focus(w) /\ a # NULL /\ a \in Cells /\ b \in Memories /\ b[a].type = "Object"
        /\ IsInjective(b[a].child) /\ n \notin Kids(b, a)
    <2>1. Focus(w) # NULL
      BY ContainerIsItem
    <2> QED  BY <1>1, <2>1 DEF At, Begun
  <1>3. m = GetObjectItem(b, a, k)
    <2>1. k \notin Indices
      BY DEF NamesApart
    <2>2. m = Finds(heap, Focus(w), k)
      BY <2>1, AsTheCallsSay
    <2>3. m = Finds(b, a, k)
      BY <1>1, <2>2 DEF Begun
    <2> QED  BY <1>2, <2>1, <2>3 DEF Finds
  <1>4. CASE m = NULL
    <2>1. g = b
      BY <1>2, <1>3, <1>4 DEF ReplaceItemInObject
    <2> QED  BY <2>1, NothingEdited
  <1>5. CASE m # NULL
    <2>1. m \in Kids(b, a)
      BY <1>2, <1>3, <1>5, FoundIsKid
    <2>2. PICK list : list = Swapped(b[a].child, m, n)
      OBVIOUS
    <2>3. PICK f : f = WithChildren(WithString(b, n, k), a, list)
      OBVIOUS
    <2>4. g = Delete(f, {m})
      <3>1. WithString(b, n, k)[a].child = b[a].child
        BY <1>2, StringGiven
      <3>2. g = ReplaceItem(WithString(b, n, k), a, m, n)
        BY <1>2, <1>3, <1>5 DEF ReplaceItemInObject, WithString
      <3> QED  BY <1>5, <2>2, <2>3, <3>1, <3>2 DEF ReplaceItem, WithChildren, Swapped
    <2>5. list \in Seq(Cells)
      <3>1. b[a].child \in Seq(Cells)
        BY <1>2, KidsAreCells
      <3> QED  BY <2>2, <3>1, ListsWithin DEF Swapped
    <2>6. Edited(b, f, a, n, list)
      BY <1>2, <2>3, <2>5, BothEdited
    <2>7. \A s \in (Keys \cup Indices) \ {k} : Finds(f, a, s) = Finds(b, a, s)
      BY <1>2, <1>3, <1>5, <2>2, <2>3, ReplaceFinds
    <2>8. Edited(b, f, a, n, Swapped(b[a].child, m, n)) /\ Ended(h2, ob2, mv2, Delete(f, {m}), gone, w, trav)
      BY <2>2, <2>4, <2>6
    <2> QED  BY <1>1, <1>5, <2>1, <2>7, <2>8, ItemSwapped
  <1> QED  BY <1>4, <1>5

\* An element was replaced, or there was none.
LEMMA ElementReplaced ==
  ASSUME NamesApart, WrappersOK(obj), NEW X, Sound(heap, obj, moved, X), NEW w \in DOMAIN obj, Live(w),
         Is(w, "Array"), NEW b, Begun(w, b, "Array"),
         NEW n \in Cells, n \in Free \cup Roots(obj), NEW i \in Indices,
         NEW m, m = LookupAt(w, i), CanReplace(w, m), NEW g, g = ReplaceItem(b, Focus(w), m, n),
         NEW h2, NEW ob2, NEW mv2, NEW gone, NEW trav, trav = obj[w].trav,
         Ended(h2, ob2, mv2, g, gone, w, trav), m # NULL => Cached(w, {i}) \subseteq gone
  PROVE  Settled(heap, obj, moved, h2, ob2, mv2, Free, w)
  <1>1. PICK a : a = At(w)
    OBVIOUS
  <1>2. /\ a = Focus(w) /\ a # NULL /\ a \in Cells /\ b \in Memories /\ b[a].type = "Array"
        /\ IsInjective(b[a].child) /\ n \notin Kids(b, a)
    <2>1. Focus(w) # NULL
      BY ContainerIsItem
    <2> QED  BY <1>1, <2>1 DEF At, Begun
  <1>3. m = GetArrayItem(b, a, i)
    <2>1. m = Finds(heap, Focus(w), i)
      BY AsTheCallsSay
    <2>2. m = Finds(b, a, i)
      BY <1>1, <2>1 DEF Begun
    <2> QED  BY <1>2, <2>2 DEF Finds
  <1>4. CASE m = NULL
    <2>1. g = b
      BY <1>4 DEF ReplaceItem
    <2> QED  BY <2>1, NothingEdited
  <1>5. CASE m # NULL
    <2>1. m \in Kids(b, a)
      <3>1. i \in Int
        BY DEF NamesApart
      <3> QED  BY <1>2, <1>3, <1>5, <3>1, FoundAtIsKid
    <2>2. PICK list : list = Swapped(b[a].child, m, n)
      OBVIOUS
    <2>3. PICK f : f = WithChildren(b, a, list)
      OBVIOUS
    <2>4. g = Delete(f, {m})
      BY <1>2, <1>5, <2>2, <2>3 DEF ReplaceItem, WithChildren, Swapped
    <2>5. list \in Seq(Cells)
      <3>1. b[a].child \in Seq(Cells)
        BY <1>2, KidsAreCells
      <3> QED  BY <2>2, <3>1, ListsWithin DEF Swapped
    <2>6. Edited(b, f, a, n, list)
      BY <1>2, <2>3, <2>5, ListEdited
    <2>7. \A s \in (Keys \cup Indices) \ {i} : Finds(f, a, s) = Finds(b, a, s)
      BY <1>2, <1>3, <1>5, <2>2, <2>3, ReplaceAtFinds
    <2>8. Edited(b, f, a, n, Swapped(b[a].child, m, n)) /\ Ended(h2, ob2, mv2, Delete(f, {m}), gone, w, trav)
      BY <2>2, <2>4, <2>6
    <2> QED  BY <1>1, <1>5, <2>1, <2>7, <2>8, ItemSwapped
  <1> QED  BY <1>4, <1>5

(***************************************************************************)
(* The forms in which the calls end                                        *)
(***************************************************************************)
\* A scalar or a copy was put in, or an item deleted.
LEMMA LeavesEnded ==
  ASSUME WrappersOK(obj), NEW w \in DOMAIN obj, Live(w), NEW Y, Sound(heap', obj', moved', Y),
         NEW g, NEW gone, Droppable(gone), w \notin gone, NEW own, own = Own(w), NEW trav,
         Leaves(g, gone, w, own, trav), moved' = moved
  PROVE  Ended(heap', obj', moved', g, gone, w, trav)
  <1>1. w[1] \notin moved /\ gone \subseteq DOMAIN obj
    BY DEF Live, Droppable
  <1>2. PICK ob2 : ob2 = obj'
    OBVIOUS
  <1>3. ob2 = Rewrapped(gone, w, Own(w), trav)
    BY <1>2 DEF Leaves
  <1>4. LeftAs(ob2, moved, gone, w, trav)
    BY <1>1, <1>3, LeftRewrapped
  <1>5. PICK h2 : h2 = heap'
    OBVIOUS
  <1>6. h2 = Delete(g, Owned(gone))
    BY <1>5 DEF Leaves
  <1>7. Survives(g, h2)
    BY <1>6, DeleteSurvives
  <1> QED  BY <1>2, <1>4, <1>5, <1>7 DEF Ended

\* The document of another variable was put in, perhaps into a document that was opened,
LEMMA MovedEnded ==
  ASSUME WrappersOK(obj), NEW w \in DOMAIN obj, Live(w), Room(w, 0), NEW Y, Sound(heap', obj', moved', Y),
         NEW g, NEW gone, Droppable(gone), w \notin gone, NEW trav \in Pointers,
         NEW v \in Vars, v # w[1],
         heap' = Delete(g, Owned(gone)), obj' = MovedOut(v, Rewrapped(gone, w, Own(w), trav)),
         moved' = moved \cup {v}
  PROVE  Ended(heap', obj', moved', g, gone, w, trav)
  <1>1. w[1] \notin moved /\ gone \subseteq DOMAIN obj
    BY DEF Live, Droppable
  <1>2. PICK ob : ob = Rewrapped(gone, w, Own(w), trav)
    OBVIOUS
  <1>3. LeftAs(ob, moved, gone, w, trav)
    BY <1>1, <1>2, LeftRewrapped
  <1>4. ob \in [DOMAIN ob -> Wrapper]
    <2>1. PICK ob1 : ob1 = Given(obj, w, Own(w), trav)
      OBVIOUS
    <2>2. WrappersOK(ob1) /\ DOMAIN ob1 = DOMAIN obj
      BY <2>1, OpenedOK
    <2>3. ob = Left(ob1, gone)
      BY <1>2, <2>1, RewrappedIs
    <2>4. WrappersOK(ob)
      BY <2>2, <2>3, LeftOK
    <2> QED  BY <2>4 DEF WrappersOK
  <1>5. PICK h2, ob2, mv2 : h2 = heap' /\ ob2 = obj' /\ mv2 = moved'
    OBVIOUS
  <1>6. LeftAs(ob2, mv2, gone, w, trav)
    BY <1>1, <1>2, <1>3, <1>4, <1>5, LeftMovedOut
  <1>7. Survives(g, h2)
    BY <1>5, DeleteSurvives
  <1> QED  BY <1>5, <1>6, <1>7 DEF Ended

\* or into one that was there, in the place of something else.
LEMMA GivenEnded ==
  ASSUME WrappersOK(obj), NEW w \in DOMAIN obj, Live(w), Focus(w) # NULL, NEW Y, Sound(heap', obj', moved', Y),
         NEW g, NEW gone, Droppable(gone), w \notin gone, NEW trav, trav = obj[w].trav,
         NEW v \in Vars, v # w[1],
         heap' = Delete(g, Owned(gone)), obj' = MovedOut(v, Without(gone)), moved' = moved \cup {v}
  PROVE  Ended(heap', obj', moved', g, gone, w, trav)
  <1>1. w[1] \notin moved /\ gone \subseteq DOMAIN obj
    BY DEF Live, Droppable
  <1>2. PICK ob : ob = Without(gone)
    OBVIOUS
  <1>3. ob = [p \in DOMAIN obj \ gone |-> obj[p]]
    BY <1>2 DEF Without, Restrict
  <1>4. LeftAs(ob, moved, gone, w, trav)
    <2>1. Own(w) = obj[w].own
      BY DEF Own
    <2> QED  BY <1>1, <1>3, <2>1 DEF LeftAs
  <1>5. ob \in [DOMAIN ob -> Wrapper]
    BY <1>3 DEF WrappersOK
  <1>6. PICK h2, ob2, mv2 : h2 = heap' /\ ob2 = obj' /\ mv2 = moved'
    OBVIOUS
  <1>7. LeftAs(ob2, mv2, gone, w, trav)
    BY <1>1, <1>2, <1>4, <1>5, <1>6, LeftMovedOut
  <1>8. Survives(g, h2)
    BY <1>6, DeleteSurvives
  <1> QED  BY <1>6, <1>7, <1>8 DEF Ended

(***************************************************************************)
(* The calls that change a document                                        *)
(***************************************************************************)
\* The call on w that was made leaves the wrappers in order.
Settles(w) == Settled(heap, obj, moved, heap', obj', moved', Free, w)

\* Add of a scalar, where the key was not looked up in vain before
LEMMA AddScalarSettles ==
  ASSUME NamesApart, WrappersOK(obj), NEW X, Sound(heap, obj, moved, X), NEW w \in DOMAIN obj,
         NEW Y, Sound(heap', obj', moved', Y), "late_member" \notin Liberties,
         NEW k \in Keys, NEW item, Scalar(item), AddScalar(w, k, item)
  PROVE  Settles(w)
  <1>1. /\ Live(w) /\ Room(w, 1) /\ Cached(w, {k}) = {} /\ moved' = moved
        /\ Focus(w) = NULL \/ Is(w, CreateObject.type)
    BY DEF AddScalar, CanAdd, Unless, CreateObject, NewItem
  <1>2. PICK n : n = First(Rest(w))
    OBVIOUS
  <1>3. PICK b : b = [Opened(w, CreateObject) EXCEPT ![n] = item]
    OBVIOUS
  <1>4. PICK g : g = AddItemToObject(b, At(w), k, n)
    OBVIOUS
  <1>5. Leaves(g, {}, w, Own(w), At(w))
    BY <1>2, <1>3, <1>4 DEF AddScalar
  <1>6. n \in Free /\ n \in Cells /\ Begun(w, b, "Object")
    <2>1. PICK root : root = CreateObject
      OBVIOUS
    <2>2. root \in {CreateObject, CreateArray} /\ root.type = "Object"
      BY <2>1 DEF CreateObject, NewItem
    <2>3. (Focus(w) = NULL \/ Is(w, root.type)) /\ b = [Opened(w, root) EXCEPT ![n] = item]
      BY <1>1, <1>3, <2>1
    <2>4. n \in Free /\ n \in Cells /\ Begun(w, b, root.type)
      BY <1>1, <1>2, <2>2, <2>3, ScalarBegun
    <2> QED  BY <2>2, <2>4
  <1>7. Ended(heap', obj', moved', g, {}, w, At(w))
    BY <1>1, <1>5, CachedDroppable, LeavesEnded
  <1>8. Cached(w, {k}) \subseteq {} /\ n \in Free \cup Roots(obj)
    BY <1>1, <1>6
  <1> QED  BY <1>1, <1>4, <1>6, <1>7, <1>8, MemberAdded DEF Settles

\* Add of a document that is none
LEMMA AddNothingSettles ==
  ASSUME NamesApart, WrappersOK(obj), NEW X, Sound(heap, obj, moved, X), NEW w \in DOMAIN obj,
         NEW Y, Sound(heap', obj', moved', Y),
         NEW root \in {CreateObject, CreateArray}, AddNothing(w, root), moved' = moved
  PROVE  Settles(w)
  <1>1. Live(w) /\ Room(w, 0) /\ Focus(w) = NULL
    BY DEF AddNothing
  <1>2. PICK b : b = Opened(w, root)
    OBVIOUS
  <1>3. Begun(w, b, root.type)
    BY <1>1, <1>2, OpenedBegun
  <1>4. PICK trav : trav = IF root = CreateObject THEN At(w) ELSE obj[w].trav
    OBVIOUS
  <1>5. At(w) = Own(w)
    BY <1>1 DEF At, Own
  <1>6. PICK own : own = At(w)
    OBVIOUS
  <1>7. Leaves(b, {}, w, own, trav) /\ own = Own(w)
    BY <1>2, <1>4, <1>5, <1>6 DEF AddNothing
  <1>8. Ended(heap', obj', moved', b, {}, w, trav)
    BY <1>1, <1>7, CachedDroppable, LeavesEnded
  <1>9. trav \in {At(w), obj[w].trav}
    BY <1>4
  <1> QED  BY <1>1, <1>3, <1>8, <1>9, NothingEdited DEF Settles

\* Add of a copy
LEMMA AddCopySettles ==
  ASSUME NamesApart, WrappersOK(obj), NEW X, Sound(heap, obj, moved, X), NEW w \in DOMAIN obj,
         NEW Y, Sound(heap', obj', moved', Y),
         NEW k \in Keys, NEW x \in DOMAIN obj, AddCopy(w, k, x)
  PROVE  Settles(w)
  <1>1. CASE AddNothing(w, CreateObject)
    <2>1. moved' = moved
      BY DEF AddCopy
    <2> QED  BY <1>1, <2>1, AddNothingSettles
  <1>2. CASE Focus(x) # NULL
    <2>1. PICK root : root = CreateObject
      OBVIOUS
    <2>2. root \in {CreateObject, CreateArray} /\ root.type = "Object"
      BY <2>1 DEF CreateObject, NewItem
    <2>3. /\ Live(w) /\ Live(x) /\ Room(w, TreeSize(x)) /\ moved' = moved
          /\ Focus(w) = NULL \/ Is(w, root.type)
      BY <1>2, <2>2 DEF AddCopy, CanAdd
    <2>4. PICK n : n = CopyCell(heap, Focus(x), Rest(w))[Focus(x)]
      OBVIOUS
    <2>5. PICK b : b = Copy(Opened(w, root), Focus(x), Rest(w))
      OBVIOUS
    <2>6. PICK g : g = AddItemToObject(b, At(w), k, n)
      OBVIOUS
    <2>7. PICK gone : gone = Cached(w, {k})
      OBVIOUS
    <2>8. Leaves(g, gone, w, Own(w), At(w))
      BY <1>2, <2>1, <2>4, <2>5, <2>6, <2>7 DEF AddCopy
    <2>9. n \in Free /\ n \in Cells /\ Begun(w, b, root.type)
      BY <1>2, <2>2, <2>3, <2>4, <2>5, CopyBegun
    <2>10. Ended(heap', obj', moved', g, gone, w, At(w))
      BY <2>3, <2>7, <2>8, CachedDroppable, LeavesEnded
    <2>11. Cached(w, {k}) \subseteq gone /\ n \in Free \cup Roots(obj) /\ Begun(w, b, "Object")
      BY <2>2, <2>7, <2>9
    <2> QED  BY <2>3, <2>6, <2>9, <2>10, <2>11, MemberAdded DEF Settles
  <1> QED  BY <1>1, <1>2 DEF AddCopy

\* Add of another variable's document
LEMMA AddMoveSettles ==
  ASSUME NamesApart, WrappersOK(obj), NEW X, Sound(heap, obj, moved, X), NEW w \in DOMAIN obj,
         NEW Y, Sound(heap', obj', moved', Y),
         NEW k \in Keys, NEW v \in Vars, AddMove(w, k, v)
  PROVE  Settles(w)
  <1>1. CASE AddNothing(w, CreateObject) /\ UNCHANGED moved
    BY <1>1, AddNothingSettles
  <1>2. CASE obj[<<v>>].own # NULL
    <2>1. PICK root : root = CreateObject
      OBVIOUS
    <2>2. root \in {CreateObject, CreateArray} /\ root.type = "Object"
      BY <2>1 DEF CreateObject, NewItem
    <2>3. /\ Live(w) /\ Room(w, 0) /\ moved' = moved \cup {v} /\ v # w[1]
          /\ Focus(w) = NULL \/ Is(w, root.type)
      BY <1>2, <2>2 DEF AddMove, CanAdd
    <2>4. PICK n : n = obj[<<v>>].own
      OBVIOUS
    <2>5. PICK b : b = Opened(w, root)
      OBVIOUS
    <2>6. PICK g : g = AddItemToObject(b, At(w), k, n)
      OBVIOUS
    <2>7. PICK gone : gone = Cached(w, {k})
      OBVIOUS
    <2>8. /\ heap' = Delete(g, Owned(gone))
          /\ obj' = MovedOut(v, Rewrapped(gone, w, Own(w), At(w)))
      BY <1>2, <2>1, <2>4, <2>5, <2>6, <2>7 DEF AddMove
    <2>9. Begun(w, b, root.type)
      BY <2>2, <2>3, <2>5, OpenedBegun
    <2>10. n \in Roots(obj) /\ n \in Cells
      <3>1. <<v>> \in DOMAIN obj
        BY DEF WrappersOK
      <3> QED  BY <1>2, <2>4, <3>1 DEF Roots, WrappersOK, Wrapper, Pointers
    <2>11. At(w) \in Pointers
      BY <2>9 DEF Begun, Pointers
    <2>12. Ended(heap', obj', moved', g, gone, w, At(w))
      BY <2>3, <2>7, <2>8, <2>11, CachedDroppable, MovedEnded
    <2>13. Cached(w, {k}) \subseteq gone /\ n \in Free \cup Roots(obj) /\ Begun(w, b, "Object")
      BY <2>2, <2>7, <2>9, <2>10
    <2> QED  BY <2>3, <2>6, <2>10, <2>12, <2>13, MemberAdded DEF Settles
  <1> QED  BY <1>1, <1>2 DEF AddMove

\* The indexes under which an element put into the array moves something
LEMMA ShiftedIs ==
  ASSUME NamesApart, WrappersOK(obj), NEW X, Sound(heap, obj, moved, X), NEW w \in DOMAIN obj, Live(w),
         NEW b, Begun(w, b, "Array"), NEW first \in BOOLEAN
  PROVE  \E S : /\ Shifted(w, first) = Cached(w, S)
                /\ ~first => \A s \in Indices \ S : s < Len(b[At(w)].child)
                /\ first => Indices \subseteq S
  <1>1. CASE first
    BY <1>1 DEF Shifted
  <1>2. CASE ~first
    <2>1. PICK n : n = IF Focus(w) = NULL THEN 0 ELSE Len(heap[Focus(w)].child)
      OBVIOUS
    <2>2. Shifted(w, first) = Cached(w, From(n))
      BY <1>2, <2>1 DEF Shifted
    <2>3. n = Len(b[At(w)].child)
      <3>1. CASE Focus(w) = NULL
        BY <2>1, <3>1 DEF Begun
      <3>2. CASE Focus(w) # NULL
        BY <2>1, <3>2 DEF Begun, At
      <3> QED  BY <3>1, <3>2
    <2>4. n \in Nat
      <3>1. b[At(w)].child \in Seq(Cells)
        BY KidsAreCells DEF Begun
      <3> QED  BY <2>3, <3>1
    <2>5. \A s \in Indices \ From(n) : s < n
      BY <2>4 DEF From, NamesApart
    <2> QED  BY <1>2, <2>2, <2>3, <2>5
  <1> QED  BY <1>1, <1>2

\* Add and AddAsFirst of a scalar, where nothing moves
LEMMA PutScalarSettles ==
  ASSUME NamesApart, WrappersOK(obj), NEW X, Sound(heap, obj, moved, X), NEW w \in DOMAIN obj,
         NEW Y, Sound(heap', obj', moved', Y),
         NEW item, Scalar(item), NEW first \in BOOLEAN, PutScalar(w, item, first), Shifted(w, first) = {}
  PROVE  Settles(w)
  <1>1. PICK root : root = CreateArray
    OBVIOUS
  <1>2. root \in {CreateObject, CreateArray} /\ root.type = "Array"
    BY <1>1 DEF CreateArray, NewItem
  <1>3. Live(w) /\ Room(w, 1) /\ moved' = moved /\ (Focus(w) = NULL \/ Is(w, root.type))
    BY <1>2 DEF PutScalar, CanPut
  <1>4. PICK n : n = First(Rest(w))
    OBVIOUS
  <1>5. PICK b : b = [Opened(w, root) EXCEPT ![n] = item]
    OBVIOUS
  <1>6. PICK g : g = Put(b, At(w), n, first)
    OBVIOUS
  <1>7. PICK trav : trav = obj[w].trav
    OBVIOUS
  <1>8. Leaves(g, {}, w, Own(w), trav)
    BY <1>1, <1>4, <1>5, <1>6, <1>7 DEF PutScalar
  <1>9. n \in Free /\ n \in Cells /\ Begun(w, b, root.type)
    BY <1>2, <1>3, <1>4, <1>5, ScalarBegun
  <1>10. Begun(w, b, "Array") /\ n \in Free \cup Roots(obj)
    BY <1>2, <1>9
  <1>11. Ended(heap', obj', moved', g, {}, w, obj[w].trav)
    <2>1. Ended(heap', obj', moved', g, {}, w, trav)
      BY <1>3, <1>8, CachedDroppable, LeavesEnded
    <2> QED  BY <1>7, <2>1
  <1>12. PICK S : /\ Shifted(w, first) = Cached(w, S)
                  /\ ~first => \A s \in Indices \ S : s < Len(b[At(w)].child)
                  /\ first => Indices \subseteq S
    BY <1>3, <1>10, ShiftedIs
  <1>13. Cached(w, S) \subseteq {}
    BY <1>12
  <1> QED  BY <1>3, <1>6, <1>9, <1>10, <1>11, <1>12, <1>13, ElementAdded DEF Settles

\* Of a copy
LEMMA PutCopySettles ==
  ASSUME NamesApart, WrappersOK(obj), NEW X, Sound(heap, obj, moved, X), NEW w \in DOMAIN obj,
         NEW Y, Sound(heap', obj', moved', Y),
         NEW x \in DOMAIN obj, NEW first \in BOOLEAN, PutCopy(w, x, first)
  PROVE  Settles(w)
  <1>1. CASE AddNothing(w, CreateArray)
    <2>1. moved' = moved
      BY DEF PutCopy
    <2> QED  BY <1>1, <2>1, AddNothingSettles
  <1>2. CASE Focus(x) # NULL
    <2>1. PICK root : root = CreateArray
      OBVIOUS
    <2>2. root \in {CreateObject, CreateArray} /\ root.type = "Array"
      BY <2>1 DEF CreateArray, NewItem
    <2>3. /\ Live(w) /\ Live(x) /\ Room(w, TreeSize(x)) /\ moved' = moved
          /\ Focus(w) = NULL \/ Is(w, root.type)
      BY <1>2, <2>2 DEF PutCopy, CanPut
    <2>4. PICK n : n = CopyCell(heap, Focus(x), Rest(w))[Focus(x)]
      OBVIOUS
    <2>5. PICK b : b = Copy(Opened(w, root), Focus(x), Rest(w))
      OBVIOUS
    <2>6. PICK g : g = Put(b, At(w), n, first)
      OBVIOUS
    <2>7. PICK gone, trav : gone = Shifted(w, first) /\ trav = obj[w].trav
      OBVIOUS
    <2>8. Leaves(g, gone, w, Own(w), trav)
      BY <1>2, <2>1, <2>4, <2>5, <2>6, <2>7 DEF PutCopy
    <2>9. n \in Free /\ n \in Cells /\ Begun(w, b, root.type)
      BY <1>2, <2>2, <2>3, <2>4, <2>5, CopyBegun
    <2>10. Begun(w, b, "Array") /\ n \in Free \cup Roots(obj)
      BY <2>2, <2>9
    <2>11. Ended(heap', obj', moved', g, gone, w, obj[w].trav)
      <3>1. Ended(heap', obj', moved', g, gone, w, trav)
        BY <2>3, <2>7, <2>8, ShiftedDroppable, LeavesEnded
      <3> QED  BY <2>7, <3>1
    <2>12. PICK S : /\ Shifted(w, first) = Cached(w, S)
                    /\ ~first => \A s \in Indices \ S : s < Len(b[At(w)].child)
                    /\ first => Indices \subseteq S
      BY <2>3, <2>10, ShiftedIs
    <2>13. Cached(w, S) \subseteq gone
      BY <2>7, <2>12
    <2> QED  BY <2>3, <2>6, <2>9, <2>10, <2>11, <2>12, <2>13, ElementAdded DEF Settles
  <1> QED  BY <1>1, <1>2 DEF PutCopy

\* Of another variable's document
LEMMA PutMoveSettles ==
  ASSUME NamesApart, WrappersOK(obj), NEW X, Sound(heap, obj, moved, X), NEW w \in DOMAIN obj,
         NEW Y, Sound(heap', obj', moved', Y),
         NEW v \in Vars, NEW first \in BOOLEAN, PutMove(w, v, first)
  PROVE  Settles(w)
  <1>1. CASE AddNothing(w, CreateArray) /\ UNCHANGED moved
    BY <1>1, AddNothingSettles
  <1>2. CASE obj[<<v>>].own # NULL
    <2>1. PICK root : root = CreateArray
      OBVIOUS
    <2>2. root \in {CreateObject, CreateArray} /\ root.type = "Array"
      BY <2>1 DEF CreateArray, NewItem
    <2>3. /\ Live(w) /\ Room(w, 0) /\ moved' = moved \cup {v} /\ v # w[1]
          /\ Focus(w) = NULL \/ Is(w, root.type)
      BY <1>2, <2>2 DEF PutMove, CanPut
    <2>4. PICK n : n = obj[<<v>>].own
      OBVIOUS
    <2>5. PICK b : b = Opened(w, root)
      OBVIOUS
    <2>6. PICK g : g = Put(b, At(w), n, first)
      OBVIOUS
    <2>7. PICK gone, trav : gone = Shifted(w, first) /\ trav = obj[w].trav
      OBVIOUS
    <2>8. /\ heap' = Delete(g, Owned(gone))
          /\ obj' = MovedOut(v, Rewrapped(gone, w, Own(w), trav))
      BY <1>2, <2>1, <2>4, <2>5, <2>6, <2>7 DEF PutMove
    <2>9. Begun(w, b, "Array")
      BY <2>2, <2>3, <2>5, OpenedBegun
    <2>10. n \in Free \cup Roots(obj) /\ n \in Cells /\ trav \in Pointers
      <3>1. <<v>> \in DOMAIN obj
        BY DEF WrappersOK
      <3> QED  BY <1>2, <2>4, <2>7, <3>1 DEF Roots, WrappersOK, Wrapper, Pointers
    <2>11. Ended(heap', obj', moved', g, gone, w, obj[w].trav)
      <3>1. Ended(heap', obj', moved', g, gone, w, trav)
        BY <2>3, <2>7, <2>8, <2>10, ShiftedDroppable, MovedEnded
      <3> QED  BY <2>7, <3>1
    <2>12. PICK S : /\ Shifted(w, first) = Cached(w, S)
                    /\ ~first => \A s \in Indices \ S : s < Len(b[At(w)].child)
                    /\ first => Indices \subseteq S
      BY <2>3, <2>9, ShiftedIs
    <2>13. Cached(w, S) \subseteq gone
      BY <2>7, <2>12
    <2> QED  BY <2>3, <2>6, <2>9, <2>10, <2>11, <2>12, <2>13, ElementAdded DEF Settles
  <1> QED  BY <1>1, <1>2 DEF PutMove

\* Delete(key)
LEMMA DeleteMemberSettles ==
  ASSUME NamesApart, WrappersOK(obj), NEW X, Sound(heap, obj, moved, X), NEW w \in DOMAIN obj,
         NEW Y, Sound(heap', obj', moved', Y), NEW k \in Keys, DeleteMember(w, k)
  PROVE  Settles(w)
  <1>1. Live(w) /\ Is(w, "Object") /\ moved' = moved
    BY DEF DeleteMember
  <1>2. PICK a, m : a = Focus(w) /\ m = Lookup(w, k)
    OBVIOUS
  <1>3. PICK gone : gone = Cached(w, {k})
    OBVIOUS
  <1>4. /\ Begun(w, heap, "Object") /\ At(w) = a /\ a # NULL /\ Own(w) = obj[w].own
        /\ heap \in Memories /\ a \in Cells /\ heap[a].type = "Object" /\ IsInjective(heap[a].child)
    <2>1. Begun(w, heap, "Object") /\ At(w) = Focus(w) /\ Focus(w) # NULL
      BY <1>1, HeapBegun
    <2> QED  BY <1>2, <2>1 DEF Begun, Own
  <1>5. PICK d : d = DeleteItem(heap, a, m)
    OBVIOUS
  <1>6. PICK own : own = obj[w].own
    OBVIOUS
  <1>7. Leaves(d, gone, w, own, a)
    BY <1>2, <1>3, <1>5, <1>6 DEF DeleteMember
  <1>8. Ended(heap', obj', moved', d, gone, w, a)
    BY <1>1, <1>3, <1>4, <1>6, <1>7, CachedDroppable, LeavesEnded
  <1>9. CASE m = NULL
    <2>1. d = heap
      BY <1>5, <1>9 DEF DeleteItem
    <2>2. Ended(heap', obj', moved', heap, gone, w, a) /\ a \in {At(w), obj[w].trav}
      BY <1>4, <1>8, <2>1
    <2> QED  BY <1>1, <1>4, <2>2, NothingEdited DEF Settles
  <1>10. CASE m # NULL
    <2>1. m = GetObjectItem(heap, a, k)
      BY <1>1, <1>2 DEF Lookup
    <2>2. m \in Kids(heap, a)
      BY <1>4, <1>10, <2>1, FoundIsKid
    <2>3. PICK g : g = WithChildren(heap, a, Detached(heap[a].child, m))
      OBVIOUS
    <2>4. \A s \in (Keys \cup Indices) \ {k} : Finds(g, a, s) = Finds(heap, a, s)
      BY <1>4, <1>10, <2>1, <2>3, DetachFinds
    <2>5. Ended(heap', obj', moved', DeleteItem(heap, a, m), gone, w, a) /\ Cached(w, {k}) \subseteq gone
      BY <1>3, <1>5, <1>8
    <2>6. Placed(heap, obj, moved) => a \in {NULL, a}
      OBVIOUS
    <2> QED  BY <1>1, <1>2, <2>2, <2>3, <2>4, <2>5, <2>6, ItemDeleted DEF Settles
  <1> QED  BY <1>9, <1>10

\* Delete(index)
LEMMA DeleteElementSettles ==
  ASSUME NamesApart, WrappersOK(obj), NEW X, Sound(heap, obj, moved, X), NEW w \in DOMAIN obj,
         NEW Y, Sound(heap', obj', moved', Y), NEW i \in Indices, DeleteElement(w, i)
  PROVE  Settles(w)
  <1>1. Live(w) /\ Is(w, "Array") /\ moved' = moved
    BY DEF DeleteElement
  <1>2. PICK a, m : a = Focus(w) /\ m = LookupAt(w, i)
    OBVIOUS
  <1>3. PICK gone, trav : gone = Cached(w, From(i)) /\ trav = obj[w].trav
    OBVIOUS
  <1>4. /\ Begun(w, heap, "Array") /\ At(w) = a /\ a # NULL /\ Own(w) = obj[w].own
        /\ heap \in Memories /\ a \in Cells /\ heap[a].type = "Array" /\ IsInjective(heap[a].child)
    <2>1. Begun(w, heap, "Array") /\ At(w) = Focus(w) /\ Focus(w) # NULL
      BY <1>1, HeapBegun
    <2> QED  BY <1>2, <2>1 DEF Begun, Own
  <1>5. PICK d : d = DeleteItem(heap, a, m)
    OBVIOUS
  <1>6. PICK own : own = obj[w].own
    OBVIOUS
  <1>7. Leaves(d, gone, w, own, trav)
    BY <1>2, <1>3, <1>5, <1>6 DEF DeleteElement
  <1>8. Ended(heap', obj', moved', d, gone, w, trav)
    BY <1>1, <1>3, <1>4, <1>6, <1>7, CachedDroppable, LeavesEnded
  <1>9. CASE m = NULL
    <2>1. d = heap
      BY <1>5, <1>9 DEF DeleteItem
    <2>2. Ended(heap', obj', moved', heap, gone, w, trav) /\ trav \in {At(w), obj[w].trav}
      BY <1>3, <1>8, <2>1
    <2> QED  BY <1>1, <1>4, <2>2, NothingEdited DEF Settles
  <1>10. CASE m # NULL
    <2>1. m = GetArrayItem(heap, a, i)
      BY <1>1, <1>2 DEF LookupAt
    <2>2. i \in Nat
      BY DEF NamesApart
    <2>3. m \in Kids(heap, a)
      BY <1>4, <1>10, <2>1, <2>2, FoundAtIsKid
    <2>4. PICK g : g = WithChildren(heap, a, Detached(heap[a].child, m))
      OBVIOUS
    <2>5. ASSUME NEW s \in (Keys \cup Indices) \ From(i) PROVE Finds(g, a, s) = Finds(heap, a, s)
      <3>1. s \in Indices => s < i
        BY <2>2, <2>5 DEF From, NamesApart
      <3> QED  BY <1>4, <1>10, <2>1, <2>4, <3>1, DetachAtFinds
    <2>6. Ended(heap', obj', moved', DeleteItem(heap, a, m), gone, w, trav) /\ Cached(w, From(i)) \subseteq gone
      BY <1>3, <1>5, <1>8
    <2>7. Placed(heap, obj, moved) => trav \in {NULL, a}
      BY <1>1, <1>3, <1>4, CursorBefore
    <2> QED  BY <1>1, <1>2, <2>3, <2>4, <2>5, <2>6, <2>7, ItemDeleted DEF Settles
  <1> QED  BY <1>9, <1>10

\* Replace(key, ...) of a scalar
LEMMA ReplaceScalarSettles ==
  ASSUME NamesApart, WrappersOK(obj), NEW X, Sound(heap, obj, moved, X), NEW w \in DOMAIN obj,
         NEW Y, Sound(heap', obj', moved', Y),
         NEW k \in Keys, NEW item, Scalar(item), ReplaceScalar(w, k, item)
  PROVE  Settles(w)
  <1>1. Live(w) /\ Is(w, "Object") /\ Room(w, 1) /\ CanReplace(w, Lookup(w, k)) /\ moved' = moved
    BY DEF ReplaceScalar
  <1>2. PICK root : root = CreateObject
    OBVIOUS
  <1>3. root \in {CreateObject, CreateArray} /\ root.type = "Object" /\ Is(w, root.type)
    BY <1>1, <1>2 DEF CreateObject, NewItem
  <1>4. Focus(w) # NULL
    BY <1>1, ContainerIsItem
  <1>5. Opened(w, root) = heap /\ Rest(w) = Free /\ Own(w) = obj[w].own
    BY <1>4 DEF Opened, Rest, Own
  <1>6. PICK n : n = First(Free)
    OBVIOUS
  <1>7. PICK b : b = [heap EXCEPT ![n] = item]
    OBVIOUS
  <1>8. n \in Free /\ n \in Cells /\ Begun(w, b, root.type)
    BY <1>1, <1>3, <1>5, <1>6, <1>7, ScalarBegun
  <1>9. PICK g, m : g = ReplaceItemInObject(b, Focus(w), k, n) /\ m = Lookup(w, k)
    OBVIOUS
  <1>10. PICK gone, trav, own : gone = Cached(w, {k}) /\ trav = obj[w].trav /\ own = obj[w].own
    OBVIOUS
  <1>11. Leaves(g, gone, w, own, trav)
    BY <1>6, <1>7, <1>9, <1>10 DEF ReplaceScalar, Stays
  <1>12. Ended(heap', obj', moved', g, gone, w, trav)
    BY <1>1, <1>5, <1>10, <1>11, CachedDroppable, LeavesEnded
  <1>13. Begun(w, b, "Object") /\ n \in Free \cup Roots(obj) /\ (m # NULL => Cached(w, {k}) \subseteq gone)
    BY <1>3, <1>8, <1>10
  <1> QED  BY <1>1, <1>8, <1>9, <1>10, <1>12, <1>13, MemberReplaced DEF Settles

\* Replace(index, ...) of a scalar
LEMMA ReplaceScalarAtSettles ==
  ASSUME NamesApart, WrappersOK(obj), NEW X, Sound(heap, obj, moved, X), NEW w \in DOMAIN obj,
         NEW Y, Sound(heap', obj', moved', Y),
         NEW i \in Indices, NEW item, Scalar(item), ReplaceScalarAt(w, i, item)
  PROVE  Settles(w)
  <1>1. Live(w) /\ Is(w, "Array") /\ Room(w, 1) /\ CanReplace(w, LookupAt(w, i)) /\ moved' = moved
    BY DEF ReplaceScalarAt
  <1>2. PICK root : root = CreateArray
    OBVIOUS
  <1>3. root \in {CreateObject, CreateArray} /\ root.type = "Array" /\ Is(w, root.type)
    BY <1>1, <1>2 DEF CreateArray, NewItem
  <1>4. Focus(w) # NULL
    BY <1>1, ContainerIsItem
  <1>5. Opened(w, root) = heap /\ Rest(w) = Free /\ Own(w) = obj[w].own
    BY <1>4 DEF Opened, Rest, Own
  <1>6. PICK n : n = First(Free)
    OBVIOUS
  <1>7. PICK b : b = [heap EXCEPT ![n] = item]
    OBVIOUS
  <1>8. n \in Free /\ n \in Cells /\ Begun(w, b, root.type)
    BY <1>1, <1>3, <1>5, <1>6, <1>7, ScalarBegun
  <1>9. PICK g, m : g = ReplaceItem(b, Focus(w), m, n) /\ m = LookupAt(w, i)
    OBVIOUS
  <1>10. PICK gone, trav, own : gone = Cached(w, {i}) /\ trav = obj[w].trav /\ own = obj[w].own
    OBVIOUS
  <1>11. Leaves(g, gone, w, own, trav)
    BY <1>6, <1>7, <1>9, <1>10 DEF ReplaceScalarAt, Stays
  <1>12. Ended(heap', obj', moved', g, gone, w, trav)
    BY <1>1, <1>5, <1>10, <1>11, CachedDroppable, LeavesEnded
  <1>13. Begun(w, b, "Array") /\ n \in Free \cup Roots(obj) /\ (m # NULL => Cached(w, {i}) \subseteq gone)
    BY <1>3, <1>8, <1>10
  <1> QED  BY <1>1, <1>8, <1>9, <1>10, <1>12, <1>13, ElementReplaced DEF Settles

\* Replace by a copy
LEMMA ReplaceCopySettles ==
  ASSUME NamesApart, WrappersOK(obj), NEW X, Sound(heap, obj, moved, X), NEW w \in DOMAIN obj,
         NEW Y, Sound(heap', obj', moved', Y),
         NEW k \in Keys, NEW x \in DOMAIN obj, ReplaceCopy(w, k, x)
  PROVE  Settles(w)
  <1>1. /\ Live(w) /\ Is(w, "Object") /\ CanReplace(w, Lookup(w, k)) /\ moved' = moved
        /\ Live(x) /\ Focus(x) # NULL /\ Room(w, TreeSize(x))
    BY DEF ReplaceCopy
  <1>2. PICK root : root = CreateObject
    OBVIOUS
  <1>3. root \in {CreateObject, CreateArray} /\ root.type = "Object" /\ Is(w, root.type)
    BY <1>1, <1>2 DEF CreateObject, NewItem
  <1>4. Focus(w) # NULL
    BY <1>1, ContainerIsItem
  <1>5. Opened(w, root) = heap /\ Rest(w) = Free /\ Own(w) = obj[w].own
    BY <1>4 DEF Opened, Rest, Own
  <1>6. PICK n : n = CopyCell(heap, Focus(x), Free)[Focus(x)]
    OBVIOUS
  <1>7. PICK b : b = Copy(heap, Focus(x), Free)
    OBVIOUS
  <1>8. n \in Free /\ n \in Cells /\ Begun(w, b, root.type)
    BY <1>1, <1>3, <1>5, <1>6, <1>7, CopyBegun
  <1>9. PICK g, m : g = ReplaceItemInObject(b, Focus(w), k, n) /\ m = Lookup(w, k)
    OBVIOUS
  <1>10. PICK gone, trav, own : gone = DroppedWith(w, m, k) /\ trav = obj[w].trav /\ own = obj[w].own
    OBVIOUS
  <1>11. Leaves(g, gone, w, own, trav)
    BY <1>6, <1>7, <1>9, <1>10 DEF ReplaceCopy, Stays
  <1>12. Ended(heap', obj', moved', g, gone, w, trav)
    BY <1>1, <1>5, <1>10, <1>11, DroppedWithDroppable, LeavesEnded
  <1>13. Begun(w, b, "Object") /\ n \in Free \cup Roots(obj) /\ (m # NULL => Cached(w, {k}) \subseteq gone)
    BY <1>3, <1>8, <1>10 DEF DroppedWith
  <1> QED  BY <1>1, <1>8, <1>9, <1>10, <1>12, <1>13, MemberReplaced DEF Settles

\* Replace of an element by a copy
LEMMA ReplaceCopyAtSettles ==
  ASSUME NamesApart, WrappersOK(obj), NEW X, Sound(heap, obj, moved, X), NEW w \in DOMAIN obj,
         NEW Y, Sound(heap', obj', moved', Y),
         NEW i \in Indices, NEW x \in DOMAIN obj, ReplaceCopyAt(w, i, x)
  PROVE  Settles(w)
  <1>1. /\ Live(w) /\ Is(w, "Array") /\ CanReplace(w, LookupAt(w, i)) /\ moved' = moved
        /\ Live(x) /\ Focus(x) # NULL /\ Room(w, TreeSize(x))
    BY DEF ReplaceCopyAt
  <1>2. PICK root : root = CreateArray
    OBVIOUS
  <1>3. root \in {CreateObject, CreateArray} /\ root.type = "Array" /\ Is(w, root.type)
    BY <1>1, <1>2 DEF CreateArray, NewItem
  <1>4. Focus(w) # NULL
    BY <1>1, ContainerIsItem
  <1>5. Opened(w, root) = heap /\ Rest(w) = Free /\ Own(w) = obj[w].own
    BY <1>4 DEF Opened, Rest, Own
  <1>6. PICK n : n = CopyCell(heap, Focus(x), Free)[Focus(x)]
    OBVIOUS
  <1>7. PICK b : b = Copy(heap, Focus(x), Free)
    OBVIOUS
  <1>8. n \in Free /\ n \in Cells /\ Begun(w, b, root.type)
    BY <1>1, <1>3, <1>5, <1>6, <1>7, CopyBegun
  <1>9. PICK g, m : g = ReplaceItem(b, Focus(w), m, n) /\ m = LookupAt(w, i)
    OBVIOUS
  <1>10. PICK gone, trav, own : gone = DroppedWith(w, m, i) /\ trav = obj[w].trav /\ own = obj[w].own
    OBVIOUS
  <1>11. Leaves(g, gone, w, own, trav)
    BY <1>6, <1>7, <1>9, <1>10 DEF ReplaceCopyAt, Stays
  <1>12. Ended(heap', obj', moved', g, gone, w, trav)
    BY <1>1, <1>5, <1>10, <1>11, DroppedWithDroppable, LeavesEnded
  <1>13. Begun(w, b, "Array") /\ n \in Free \cup Roots(obj) /\ (m # NULL => Cached(w, {i}) \subseteq gone)
    BY <1>3, <1>8, <1>10 DEF DroppedWith
  <1> QED  BY <1>1, <1>8, <1>9, <1>10, <1>12, <1>13, ElementReplaced DEF Settles

\* Replace by another variable's document
LEMMA ReplaceMoveSettles ==
  ASSUME NamesApart, WrappersOK(obj), NEW X, Sound(heap, obj, moved, X), NEW w \in DOMAIN obj,
         NEW Y, Sound(heap', obj', moved', Y),
         NEW k \in Keys, NEW v \in Vars, ReplaceMove(w, k, v)
  PROVE  Settles(w)
  <1>1. /\ Live(w) /\ Is(w, "Object") /\ CanReplace(w, Lookup(w, k)) /\ moved' = moved \cup {v}
        /\ v # w[1] /\ obj[<<v>>].own # NULL
    BY DEF ReplaceMove
  <1>2. Begun(w, heap, "Object") /\ Focus(w) # NULL
    BY <1>1, HeapBegun
  <1>3. PICK n : n = obj[<<v>>].own
    OBVIOUS
  <1>4. n \in Free \cup Roots(obj) /\ n \in Cells
    <2>1. <<v>> \in DOMAIN obj
      BY DEF WrappersOK
    <2> QED  BY <1>1, <1>3, <2>1 DEF Roots, WrappersOK, Wrapper, Pointers
  <1>5. PICK g, m : g = ReplaceItemInObject(heap, Focus(w), k, n) /\ m = Lookup(w, k)
    OBVIOUS
  <1>6. PICK gone, trav : gone = DroppedWith(w, m, k) /\ trav = obj[w].trav
    OBVIOUS
  <1>7. heap' = Delete(g, Owned(gone)) /\ obj' = MovedOut(v, Without(gone))
    BY <1>3, <1>5, <1>6 DEF ReplaceMove
  <1>8. Ended(heap', obj', moved', g, gone, w, trav)
    BY <1>1, <1>2, <1>6, <1>7, DroppedWithDroppable, GivenEnded
  <1>9. m # NULL => Cached(w, {k}) \subseteq gone
    BY <1>6 DEF DroppedWith
  <1> QED  BY <1>1, <1>2, <1>4, <1>5, <1>6, <1>8, <1>9, MemberReplaced DEF Settles

\* Replace of an element by another variable's document
LEMMA ReplaceMoveAtSettles ==
  ASSUME NamesApart, WrappersOK(obj), NEW X, Sound(heap, obj, moved, X), NEW w \in DOMAIN obj,
         NEW Y, Sound(heap', obj', moved', Y),
         NEW i \in Indices, NEW v \in Vars, ReplaceMoveAt(w, i, v)
  PROVE  Settles(w)
  <1>1. /\ Live(w) /\ Is(w, "Array") /\ CanReplace(w, LookupAt(w, i)) /\ moved' = moved \cup {v}
        /\ v # w[1] /\ obj[<<v>>].own # NULL
    BY DEF ReplaceMoveAt
  <1>2. Begun(w, heap, "Array") /\ Focus(w) # NULL
    BY <1>1, HeapBegun
  <1>3. PICK n : n = obj[<<v>>].own
    OBVIOUS
  <1>4. n \in Free \cup Roots(obj) /\ n \in Cells
    <2>1. <<v>> \in DOMAIN obj
      BY DEF WrappersOK
    <2> QED  BY <1>1, <1>3, <2>1 DEF Roots, WrappersOK, Wrapper, Pointers
  <1>5. PICK g, m : g = ReplaceItem(heap, Focus(w), m, n) /\ m = LookupAt(w, i)
    OBVIOUS
  <1>6. PICK gone, trav : gone = DroppedWith(w, m, i) /\ trav = obj[w].trav
    OBVIOUS
  <1>7. heap' = Delete(g, Owned(gone)) /\ obj' = MovedOut(v, Without(gone))
    BY <1>3, <1>5, <1>6 DEF ReplaceMoveAt
  <1>8. Ended(heap', obj', moved', g, gone, w, trav)
    BY <1>1, <1>2, <1>6, <1>7, DroppedWithDroppable, GivenEnded
  <1>9. m # NULL => Cached(w, {i}) \subseteq gone
    BY <1>6 DEF DroppedWith
  <1> QED  BY <1>1, <1>2, <1>4, <1>5, <1>6, <1>8, <1>9, ElementReplaced DEF Settles

\* The overloads that take a scalar, and Delete, under a key
LEMMA ScalarMemberSettles ==
  ASSUME NamesApart, WrappersOK(obj), NEW X, Sound(heap, obj, moved, X), NEW w \in DOMAIN obj,
         NEW Y, Sound(heap', obj', moved', Y), "late_member" \notin Liberties,
         NEW k \in Keys, ScalarMember(w, k)
  PROVE  Settles(w)
  <1>1. ASSUME NEW item, Scalar(item), AddScalar(w, k, item) \/ ReplaceScalar(w, k, item)
        PROVE  Settles(w)
    BY <1>1, AddScalarSettles, ReplaceScalarSettles
  <1>2. CASE \E s \in Strings : AddString(w, k, s) \/ ReplaceString(w, k, s)
    BY <1>1, <1>2, ScalarsMade DEF AddString, ReplaceString
  <1>3. CASE \E n \in Integers32or64 : AddInteger(w, k, n) \/ ReplaceInteger(w, k, n)
    BY <1>1, <1>3, ScalarsMade DEF AddInteger, ReplaceInteger
  <1>4. CASE \E d \in Reals : AddReal(w, k, d) \/ ReplaceReal(w, k, d)
    BY <1>1, <1>4, ScalarsMade DEF AddReal, ReplaceReal
  <1>5. CASE \E b \in Booleans : AddBool(w, k, b) \/ ReplaceBool(w, k, b)
    BY <1>1, <1>5, ScalarsMade DEF AddBool, ReplaceBool
  <1>6. CASE AddNull(w, k) \/ ReplaceNull(w, k)
    BY <1>1, <1>6, ScalarsMade DEF AddNull, ReplaceNull
  <1>7. CASE AddEmptySubObject(w, k) \/ AddEmptySubArray(w, k)
    BY <1>1, <1>7, ScalarsMade DEF AddEmptySubObject, AddEmptySubArray
  <1>8. CASE DeleteMember(w, k)
    BY <1>8, DeleteMemberSettles
  <1> QED  BY <1>2, <1>3, <1>4, <1>5, <1>6, <1>7, <1>8 DEF ScalarMember

\* Those that put a scalar into an array, where no wrapper waits for it or is shifted
LEMMA PutsSettle ==
  ASSUME NamesApart, WrappersOK(obj), NEW X, Sound(heap, obj, moved, X), NEW w \in DOMAIN obj,
         NEW Y, Sound(heap', obj', moved', Y), {"late_member", "first_scalar"} \cap Liberties = {},
         NEW item, Scalar(item), Append1(w, item) \/ Prepend1(w, item)
  PROVE  Settles(w)
  <1>1. CASE Append1(w, item)
    <2>1. /\ Is(w, "Array") => Cached(w, From(Len(heap[Focus(w)].child))) = {}
          /\ Focus(w) = NULL => Cached(w, Indices) = {}
          /\ PutScalar(w, item, FALSE) /\ CanPut(w)
      BY <1>1 DEF Append1, Unless
    <2>2. CASE Focus(w) = NULL
      <3>1. From(0) = Indices
        <4>1. From(0) = {j \in Indices : j >= 0}
          BY DEF From
        <4>2. \A j \in Indices : j >= 0
          BY DEF NamesApart
        <4> QED  BY <4>1, <4>2
      <3>2. Shifted(w, FALSE) = {}
        BY <2>1, <2>2, <3>1 DEF Shifted
      <3> QED  BY <2>1, <3>2, PutScalarSettles
    <2>3. CASE Focus(w) # NULL
      <3>1. Is(w, "Array")
        BY <2>1, <2>3 DEF CanPut
      <3>2. Shifted(w, FALSE) = {}
        BY <2>1, <2>3, <3>1 DEF Shifted
      <3> QED  BY <2>1, <3>2, PutScalarSettles
    <2> QED  BY <2>2, <2>3
  <1>2. CASE Prepend1(w, item)
    <2>1. Cached(w, Indices) = {} /\ PutScalar(w, item, TRUE)
      BY <1>2 DEF Prepend1, Unless
    <2>2. Shifted(w, TRUE) = {}
      BY <2>1 DEF Shifted
    <2> QED  BY <2>1, <2>2, PutScalarSettles
  <1> QED  BY <1>1, <1>2

\* The overloads of those
LEMMA ScalarElementSettles ==
  ASSUME NamesApart, WrappersOK(obj), NEW X, Sound(heap, obj, moved, X), NEW w \in DOMAIN obj,
         NEW Y, Sound(heap', obj', moved', Y), {"late_member", "first_scalar"} \cap Liberties = {},
         ScalarElement(w)
  PROVE  Settles(w)
  <1>1. ASSUME NEW item, Scalar(item), Append1(w, item) \/ Prepend1(w, item)
        PROVE  Settles(w)
    BY <1>1, PutsSettle
  <1>2. CASE \E s \in Strings : AppendString(w, s) \/ PrependString(w, s)
    BY <1>1, <1>2, ScalarsMade DEF AppendString, PrependString
  <1>3. CASE \E n \in Integers32or64 : AppendInteger(w, n) \/ PrependInteger(w, n)
    BY <1>1, <1>3, ScalarsMade DEF AppendInteger, PrependInteger
  <1>4. CASE \E d \in Reals : AppendReal(w, d) \/ PrependReal(w, d)
    BY <1>1, <1>4, ScalarsMade DEF AppendReal, PrependReal
  <1>5. CASE \E b \in Booleans : AppendBool(w, b) \/ PrependBool(w, b)
    BY <1>1, <1>5, ScalarsMade DEF AppendBool, PrependBool
  <1>6. CASE AppendNull(w) \/ PrependNull(w)
    BY <1>1, <1>6, ScalarsMade DEF AppendNull, PrependNull
  <1> QED  BY <1>2, <1>3, <1>4, <1>5, <1>6 DEF ScalarElement

\* Those that replace or delete an element
LEMMA ElementAtSettles ==
  ASSUME NamesApart, WrappersOK(obj), NEW X, Sound(heap, obj, moved, X), NEW w \in DOMAIN obj,
         NEW Y, Sound(heap', obj', moved', Y), NEW i \in Indices, ElementAt(w, i)
  PROVE  Settles(w)
  <1>1. ASSUME NEW item, Scalar(item), ReplaceScalarAt(w, i, item)
        PROVE  Settles(w)
    BY <1>1, ReplaceScalarAtSettles
  <1>2. CASE \E s \in Strings : ReplaceStringAt(w, i, s)
    BY <1>1, <1>2, ScalarsMade DEF ReplaceStringAt
  <1>3. CASE \E n \in Integers32or64 : ReplaceIntegerAt(w, i, n)
    BY <1>1, <1>3, ScalarsMade DEF ReplaceIntegerAt
  <1>4. CASE \E d \in Reals : ReplaceRealAt(w, i, d)
    BY <1>1, <1>4, ScalarsMade DEF ReplaceRealAt
  <1>5. CASE \E b \in Booleans : ReplaceBoolAt(w, i, b)
    BY <1>1, <1>5, ScalarsMade DEF ReplaceBoolAt
  <1>6. CASE ReplaceNullAt(w, i)
    BY <1>1, <1>6, ScalarsMade DEF ReplaceNullAt
  <1>7. CASE DeleteElement(w, i)
    BY <1>7, DeleteElementSettles
  <1> QED  BY <1>2, <1>3, <1>4, <1>5, <1>6, <1>7 DEF ElementAt

(***************************************************************************)
(* The calls that give a variable another document                         *)
(***************************************************************************)
\* The variable has a document in cells that were free, or none, and no wrappers.
LEMMA WholeSettles ==
  ASSUME WrappersOK(obj), NEW w \in DOMAIN obj, Len(w) = 1,
         NEW own, own \in Free \cup {NULL}, NEW ob2, DOMAIN ob2 = DOMAIN obj \ Below(w),
         ob2[w] = [own |-> own, ext |-> NULL, trav |-> own],
         \A p \in DOMAIN ob2 : p # w => ob2[p] = obj[p],
         NEW mv2, mv2 = moved \ {w[1]}, NEW h2, Alters(heap, h2, Free, NULL, NULL)
  PROVE  Settled(heap, obj, moved, h2, ob2, mv2, Free, w)
  <1>1. Below(w) \subseteq DOMAIN obj /\ w \notin Below(w)
    BY CachedBelow DEF Below
  <1>2. w \in DOMAIN ob2 /\ ob2[w].own = own /\ ob2[w].ext = NULL /\ ob2[w].trav = own
    BY <1>1
  <1>3. Roots(ob2) \subseteq Roots(obj) \cup Free
    <2>1. SUFFICES ASSUME NEW p \in DOMAIN ob2, ob2[p].own # NULL PROVE ob2[p].own \in Roots(obj) \cup Free
      BY DEF Roots
    <2>2. CASE p = w
      BY <1>2, <2>1, <2>2
    <2>3. CASE p # w
      BY <2>1, <2>3 DEF Roots
    <2> QED  BY <2>2, <2>3
  <1>4. \A p \in DOMAIN ob2 : p # w /\ p[1] \notin mv2 => p[1] \notin moved
    <2>1. \A p \in DOMAIN ob2 : p # w => p[1] # w[1]
      BY BelowVariable
    <2> QED  BY <2>1
  <1>5. Besides(obj, moved, ob2, mv2, Free, w)
    BY <1>2, <1>3, <1>4 DEF Besides
  <1>6. \A q \in DOMAIN ob2 : Len(q) > 1 => Parent(q) # w
    <2> SUFFICES ASSUME NEW q \in DOMAIN ob2, Len(q) > 1, Parent(q) = w PROVE FALSE
      OBVIOUS
    <2>1. q \in DOMAIN obj /\ q \notin Below(w)
      OBVIOUS
    <2>2. PICK S : S = Keys \cup Indices
      OBVIOUS
    <2>3. q[Len(q)] \in S
      BY <2>1, <2>2, LongWay DEF WrappersOK
    <2>4. q \in Cached(w, S)
      BY <2>1, <2>3, ChildIsCached
    <2> QED  BY <2>1, <2>2, <2>4 DEF Below
  <1>7. Whole(ob2, w)
    BY <1>2, <1>6 DEF Whole
  <1>8. Unused(heap, obj, Free)
    BY FreeCells DEF Unused
  <1>9. PICK none : none = NULL
    OBVIOUS
  <1>10. Changed(heap, obj, moved, h2, ob2, mv2, Free, none, none, w)
    BY <1>5, <1>7, <1>8, <1>9 DEF Changed
  <1>11. SameBelow(heap, obj, h2, ob2, mv2, w)
    BY <1>6 DEF SameBelow
  <1>12. ob2[w].trav \in Places(h2, About(ob2, w))
    BY <1>2 DEF Places, About
  <1> QED  BY <1>10, <1>11, <1>12 DEF Settled

\* Clear, Parse and what they are used for
LEMMA BecomesSettles ==
  ASSUME WrappersOK(obj), NEW w \in DOMAIN obj, Len(w) = 1, NEW h2, NEW own, own \in Free \cup {NULL},
         Becomes(w, h2, own), Alters(heap, h2, Free, NULL, NULL)
  PROVE  Settles(w)
  <1>1. Below(w) \subseteq DOMAIN obj /\ w \notin Below(w)
    BY CachedBelow DEF Below
  <1>2. PICK old : old = Without(Below(w))
    OBVIOUS
  <1>3. DOMAIN old = DOMAIN obj \ Below(w) /\ \A p \in DOMAIN old : old[p] = obj[p]
    BY <1>2 DEF Without, Restrict
  <1>4. PICK ob2 : ob2 = obj'
    OBVIOUS
  <1>5. ob2 = [old EXCEPT ![w] = [own |-> own, ext |-> NULL, trav |-> own]]
    BY <1>2, <1>4 DEF Becomes
  <1>6. /\ DOMAIN ob2 = DOMAIN obj \ Below(w)
        /\ ob2[w] = [own |-> own, ext |-> NULL, trav |-> own]
        /\ \A p \in DOMAIN ob2 : p # w => ob2[p] = obj[p]
    BY <1>1, <1>3, <1>5
  <1>7. PICK mv2 : mv2 = moved \ {w[1]}
    OBVIOUS
  <1>8. heap' = h2 /\ moved' = mv2
    BY <1>7 DEF Becomes
  <1>9. Settled(heap, obj, moved, h2, ob2, mv2, Free, w)
    BY <1>6, <1>7, WholeSettles
  <1> QED  BY <1>4, <1>8, <1>9 DEF Settles

\* What is freed alters nothing.
LEMMA FreedAlters ==
  ASSUME NEW X, Sound(heap, obj, moved, X), NEW g, NEW N, g = Delete(heap, N)
  PROVE  Alters(heap, g, Free, NULL, NULL)
  <1>1. heap \in Memories /\ Tidy(heap, Roots(obj) \cup X) /\ Free \subseteq Cells
    BY FreeCells DEF Sound
  <1>2. Within(heap, heap, Free)
    BY <1>1, FreeCells, FreeShut
  <1>3. PICK none : none = NULL
    OBVIOUS
  <1>4. Alters(heap, heap, Free, none, none)
    BY <1>2, WithinAlters
  <1>5. Survives(heap, g)
    BY DeleteSurvives
  <1> QED  BY <1>1, <1>3, <1>4, <1>5, SurvivesAlters

\* Clear
LEMMA ClearSettles ==
  ASSUME WrappersOK(obj), NEW X, Sound(heap, obj, moved, X), NEW w \in DOMAIN obj, Len(w) = 1,
         NEW own, own = NULL, Becomes(w, Cleared(w), own)
  PROVE  Settles(w)
  <1>1. PICK g : g = Cleared(w)
    OBVIOUS
  <1>2. Alters(heap, g, Free, NULL, NULL)
    BY <1>1, FreedAlters DEF Cleared
  <1>3. Becomes(w, g, own) /\ own \in Free \cup {NULL}
    BY <1>1
  <1> QED  BY <1>2, <1>3, BecomesSettles

\* Parse of a text the caller has
LEMMA ParseSettles ==
  ASSUME WrappersOK(obj), NEW X, Sound(heap, obj, moved, X), NEW w \in DOMAIN obj, Len(w) = 1,
         NEW doc \in Documents, Parse(w, doc)
  PROVE  Settles(w)
  <1>1. PICK g : g = Cleared(w)
    OBVIOUS
  <1>2. PICK root : root = First(Free)
    OBVIOUS
  <1>3. PICK cell : cell = Allocate(DOMAIN doc, Free \ {root})
    OBVIOUS
  <1>4. PICK h : h = ParsedMemory(g, doc, root, cell)
    OBVIOUS
  <1>5. Cardinality(Free) > Len(doc) /\ Becomes(w, h, root)
    BY <1>1, <1>2, <1>3, <1>4 DEF Parse, ParsedMemory
  <1>6. Sound(g, Emptied(w), MovedLeft(w), X) /\ Retyped(heap, g)
    BY <1>1, ClearedSound DEF Cleared
  <1>7. Len(doc) \in Nat
    <2>1. PICK M : M = [key : Keys, item : Item]
      OBVIOUS
    <2>2. doc \in Seq(M)
      BY <2>1, ValuesAssumption
    <2> QED  BY <2>2
  <1>8. root \in Free /\ Len(doc) < Cardinality(Free)
    <2>1. Free \subseteq Cells /\ Cardinality(Free) >= 1
      BY <1>5, <1>7, FreeCells
    <2> QED  BY <1>2, <1>5, <1>7, <2>1, FirstFree, FreeCells
  <1>9. Free \subseteq {c \in Cells : ~Alive(g, c)}
    BY <1>6, FreeCells DEF Retyped, Alive
  <1>10. Within(g, g, Free)
    <2>1. PICK R : g \in Memories /\ Tidy(g, R)
      BY <1>6 DEF Sound
    <2> QED  BY <1>9, <2>1, FreeShut
  <1>11. Within(g, h, Free)
    BY <1>3, <1>4, <1>8, <1>10, ParseWithin
  <1>12. Alters(heap, g, Free, NULL, NULL)
    BY <1>1, FreedAlters DEF Cleared
  <1>13. PICK none : none = NULL
    OBVIOUS
  <1>14. Alters(heap, h, Free, none, none)
    BY <1>11, <1>12, <1>13, AltersWithin
  <1> QED  BY <1>5, <1>8, <1>13, <1>14, BecomesSettles

\* The text of an item is made and parsed: w gets a copy.
LEMMA ParseTextSettles ==
  ASSUME WrappersOK(obj), NEW X, Sound(heap, obj, moved, X), NEW x \in DOMAIN obj, Len(x) = 1,
         NEW n, n = NULL \/ (n \in Cells /\ Alive(heap, n)), ParseTextOf(x, n)
  PROVE  Settles(x)
  <1>1. CASE n = NULL
    <2>1. PICK own : own = NULL
      OBVIOUS
    <2>2. Becomes(x, Cleared(x), own)
      BY <1>1, <2>1 DEF ParseTextOf
    <2> QED  BY <2>1, <2>2, ClearSettles
  <1>2. CASE n \in Cells /\ Alive(heap, n) /\ n # NULL
    <2>1. PICK copy : copy = Copy(heap, n, Free)
      OBVIOUS
    <2>2. PICK r : r = CopyCell(heap, n, Free)[n]
      OBVIOUS
    <2>3. PICK h : h = Delete(copy, Owned(Below(x) \cup {x}))
      OBVIOUS
    <2>4. Cardinality(Free) >= Cardinality(Trees(heap, {n})) /\ Becomes(x, h, r)
      BY <1>2, <2>1, <2>2, <2>3 DEF ParseTextOf
    <2>5. heap \in Memories /\ Tidy(heap, Roots(obj) \cup X) /\ Free \subseteq Cells
      BY FreeCells DEF Sound
    <2>6. Within(heap, heap, Free)
      BY <2>5, FreeCells, FreeShut
    <2>7. Within(heap, copy, Free) /\ r \in Free
      BY <1>2, <2>1, <2>2, <2>4, <2>5, <2>6, CopyWithin
    <2>8. PICK none : none = NULL
      OBVIOUS
    <2>9. Alters(heap, copy, Free, none, none)
      BY <2>7, WithinAlters
    <2>10. Survives(copy, h)
      BY <2>3, DeleteSurvives
    <2>11. Alters(heap, h, Free, none, none)
      BY <2>5, <2>9, <2>10, SurvivesAlters
    <2> QED  BY <2>4, <2>7, <2>8, <2>11, BecomesSettles
  <1> QED  BY <1>1, <1>2, CellsAssumption

\* operator=(const CJsonObject&) and the Gets of a CJsonObject, into a variable
LEMMA AssignSettles ==
  ASSUME WrappersOK(obj), NEW X, Sound(heap, obj, moved, X), NEW x \in DOMAIN obj, Len(x) = 1,
         NEW w \in DOMAIN obj, Assign(x, w)
  PROVE  Settles(x)
  <1>1. Live(w) /\ ParseTextOf(x, Focus(w))
    BY DEF Assign
  <1>2. Focus(w) = NULL \/ (Focus(w) \in Cells /\ Alive(heap, Focus(w)))
    BY <1>1, FocusIsItem
  <1> QED  BY <1>1, <1>2, ParseTextSettles

\* Get(key, CJsonObject&)
LEMMA GetObjectSettles ==
  ASSUME WrappersOK(obj), NEW X, Sound(heap, obj, moved, X), NEW x \in DOMAIN obj, Len(x) = 1,
         NEW w \in DOMAIN obj, NEW k, GetObject(w, k, x)
  PROVE  Settles(x)
  <1>1. Live(w) /\ Lookup(w, k) # NULL /\ ParseTextOf(x, Lookup(w, k))
    BY DEF GetObject
  <1>2. Is(w, "Object")
    BY <1>1 DEF Lookup
  <1>3. Lookup(w, k) \in Cells /\ Alive(heap, Lookup(w, k))
    BY <1>1, <1>2, LookupIsKid, ContainerIsItem, KidsAlive
  <1> QED  BY <1>1, <1>3, ParseTextSettles

\* Get(index, CJsonObject&)
LEMMA GetObjectAtSettles ==
  ASSUME WrappersOK(obj), NEW X, Sound(heap, obj, moved, X), NEW x \in DOMAIN obj, Len(x) = 1,
         NEW w \in DOMAIN obj, NEW i \in Indices, GetObjectAt(w, i, x)
  PROVE  Settles(x)
  <1>1. Live(w) /\ LookupAt(w, i) # NULL /\ ParseTextOf(x, LookupAt(w, i))
    BY DEF GetObjectAt
  <1>2. Is(w, "Array")
    BY <1>1 DEF LookupAt
  <1>3. LookupAt(w, i) \in Cells /\ Alive(heap, LookupAt(w, i))
    BY <1>1, <1>2, LookupAtIsKid, ContainerIsItem, KidsAlive
  <1> QED  BY <1>1, <1>3, ParseTextSettles

(***************************************************************************)
(* The calls that change no document                                       *)
(***************************************************************************)
\* Wrappers are about what is found now; where callers let Replace take the member a
\* cursor is at, nothing is said of cursors.
Orderly(h, ob, mv) == Fresh(h, ob, mv) /\ ("replace_ahead" \notin Liberties => Placed(h, ob, mv))

\* After a call that was done
LEMMA SettledOrderly ==
  ASSUME NamesApart, NEW h, NEW ob, NEW mv, NEW X, WrappersOK(ob), Sound(h, ob, mv, X), Orderly(h, ob, mv),
         NEW h2, NEW ob2, NEW mv2, NEW Y, WrappersOK(ob2), Sound(h2, ob2, mv2, Y),
         NEW F, F \subseteq Cells, NEW w \in DOMAIN ob, Settled(h, ob, mv, h2, ob2, mv2, F, w)
  PROVE  Orderly(h2, ob2, mv2)
  <1>1. PICK a, n : /\ Changed(h, ob, mv, h2, ob2, mv2, F, a, n, w)
                    /\ SameBelow(h, ob, h2, ob2, mv2, w)
                    /\ "replace_ahead" \notin Liberties /\ Placed(h, ob, mv) =>
                         (Usable(h2, ob2, mv2, w) => ob2[w].trav \in Places(h2, About(ob2, w)))
    BY DEF Settled
  <1>2. Fresh(h, ob, mv)
    BY DEF Orderly
  <1>3. Fresh(h2, ob2, mv2)
    BY <1>1, <1>2, ChangedFresh
  <1>4. ASSUME "replace_ahead" \notin Liberties PROVE Placed(h2, ob2, mv2)
    <2>1. Placed(h, ob, mv)
      BY <1>4 DEF Orderly
    <2>2. Usable(h2, ob2, mv2, w) => ob2[w].trav \in Places(h2, About(ob2, w))
      BY <1>1, <1>4, <2>1
    <2> QED  BY <1>1, <1>2, <2>1, <2>2, ChangedPlaced
  <1> QED  BY <1>3, <1>4 DEF Orderly

\* operator[]: the new wrapper is about what is found.
LEMMA WrapOrderly ==
  ASSUME WrappersOK(obj), NEW X, Sound(heap, obj, moved, X), Orderly(heap, obj, moved),
         NEW w \in DOMAIN obj, NEW s \in Keys \cup Indices, NEW item, Wrap(w, s, item),
         item = Finds(heap, Focus(w), s)
  PROVE  Orderly(heap', obj', moved')
  <1>1. PICK u : u = Append(w, s)
    OBVIOUS
  <1>2. /\ Live(w) /\ u \notin DOMAIN obj /\ heap' = heap /\ moved' = moved
        /\ obj' = [p \in DOMAIN obj \cup {u} |->
                     IF p = u THEN [own |-> NULL, ext |-> item, trav |-> item] ELSE obj[p]]
    BY <1>1 DEF Wrap
  <1>3. PICK ob : ob = obj'
    OBVIOUS
  <1>4. PICK n : n = Len(w)
    OBVIOUS
  <1>5. w \in Seq(Steps) /\ n \in Nat /\ n >= 1 /\ Way(w) /\ s \in Steps
    BY <1>4 DEF WrappersOK, Way, Steps
  <1>6. Len(u) = n + 1 /\ Parent(u) = w
    BY <1>1, <1>4, <1>5, ChildWay
  <1>7. u[n + 1] = s
    BY <1>1, <1>4, <1>5
  <1>8. u[Len(u)] = s /\ Len(u) > 1
    BY <1>5, <1>6, <1>7
  <1>9. /\ DOMAIN ob = DOMAIN obj \cup {u}
        /\ \A p \in DOMAIN obj : ob[p] = obj[p]
        /\ ob[u].own = NULL /\ ob[u].ext = item /\ ob[u].trav = item
    BY <1>2, <1>3
  <1>10. \A p \in DOMAIN obj : /\ About(ob, p) = About(obj, p)
                               /\ Usable(heap, ob, moved, p) <=> Usable(heap, obj, moved, p)
    BY <1>9 DEF About, Usable
  <1>11. About(ob, u) = item
    BY <1>9 DEF About
  <1>12. About(obj, w) = Focus(w) /\ Usable(heap, obj, moved, w)
    BY <1>2, AsTheCallsSay
  <1>13. Fresh(heap, obj, moved)
    BY DEF Orderly
  <1>14. \A v \in Vars : ob[<<v>>].ext = NULL
    BY <1>9, <1>13 DEF Fresh, WrappersOK
  <1>15. ASSUME NEW p \in DOMAIN ob, Usable(heap, ob, moved, p), ob[p].ext # NULL
         PROVE  Usable(heap, ob, moved, Parent(p))
    <2>1. CASE p = u
      BY <1>6, <1>10, <1>12, <2>1
    <2>2. CASE p \in DOMAIN obj
      <3>1. Usable(heap, obj, moved, Parent(p))
        BY <1>9, <1>10, <1>13, <1>15, <2>2 DEF Fresh
      <3>2. Way(p) /\ p \in DOMAIN obj
        BY <2>2 DEF WrappersOK
      <3>3. Len(p) > 1
        <4> SUFFICES ASSUME ~(Len(p) > 1) PROVE FALSE
          OBVIOUS
        <4>1. PICK m : m = Len(p)
          OBVIOUS
        <4>2. m \in Nat /\ ~(m > 1)
          BY <3>2, <4>1 DEF Way
        <4>3. Len(p) <= 1
          BY <4>1, <4>2
        <4>4. p = <<p[1]>> /\ p[1] \in Vars
          BY <3>2, <4>3, ShortWay
        <4> QED  BY <1>14, <1>15, <4>4
      <3>4. Parent(p) \in DOMAIN obj
        BY <2>2, <3>3 DEF WrappersOK
      <3> QED  BY <1>10, <3>1, <3>4
    <2> QED  BY <1>9, <2>1, <2>2
  <1>16. ASSUME NEW p \in DOMAIN ob, Len(p) > 1, Usable(heap, ob, moved, Parent(p)), ob[p].own = NULL
         PROVE  ob[p].ext = Finds(heap, About(ob, Parent(p)), p[Len(p)])
    <2>1. CASE p = u
      BY <1>6, <1>8, <1>9, <1>10, <1>12, <2>1
    <2>2. CASE p \in DOMAIN obj
      <3>1. Parent(p) \in DOMAIN obj
        BY <1>16, <2>2 DEF WrappersOK
      <3>2. Usable(heap, obj, moved, Parent(p)) /\ obj[p].own = NULL
        BY <1>9, <1>10, <1>16, <2>2, <3>1
      <3>3. obj[p].ext = Finds(heap, About(obj, Parent(p)), p[Len(p)])
        BY <1>13, <1>16, <2>2, <3>2 DEF Fresh
      <3>4. About(ob, Parent(p)) = About(obj, Parent(p))
        BY <1>10, <3>1
      <3> QED  BY <1>9, <2>2, <3>3, <3>4
    <2> QED  BY <1>9, <2>1, <2>2
  <1>17. Fresh(heap, ob, moved)
    BY <1>14, <1>15, <1>16 DEF Fresh
  <1>18. Placed(heap, obj, moved) => Placed(heap, ob, moved)
    BY <1>9, <1>10, <1>11 DEF Placed, Places
  <1> QED  BY <1>2, <1>3, <1>17, <1>18 DEF Orderly

\* Setting a cursor changes nothing else.
LEMMA CursorOrderly ==
  ASSUME WrappersOK(obj), NEW X, Sound(heap, obj, moved, X), Orderly(heap, obj, moved),
         NEW w \in DOMAIN obj, Live(w), NEW c, Cursor(w, c),
         "replace_ahead" \notin Liberties => c \in Places(heap, Focus(w))
  PROVE  Orderly(heap', obj', moved')
  <1>1. heap' = heap /\ moved' = moved /\ obj' = [obj EXCEPT ![w].trav = c]
    BY DEF Cursor
  <1>2. PICK ob : ob = obj'
    OBVIOUS
  <1>3. /\ DOMAIN ob = DOMAIN obj
        /\ \A p \in DOMAIN obj : /\ ob[p].own = obj[p].own /\ ob[p].ext = obj[p].ext
                                 /\ p # w => ob[p] = obj[p]
        /\ ob[w].trav = c
    BY <1>1, <1>2 DEF WrappersOK, Wrapper
  <1>4. \A p \in DOMAIN obj : /\ About(ob, p) = About(obj, p)
                              /\ Usable(heap, ob, moved, p) <=> Usable(heap, obj, moved, p)
    BY <1>3 DEF About, Usable
  <1>5. About(obj, w) = Focus(w)
    BY AsTheCallsSay
  <1>6. Fresh(heap, obj, moved)
    BY DEF Orderly
  <1>7. \A v \in Vars : ob[<<v>>].ext = NULL
    BY <1>3, <1>6 DEF Fresh, WrappersOK
  <1>8. ASSUME NEW p \in DOMAIN ob, Usable(heap, ob, moved, p), ob[p].ext # NULL
        PROVE  Usable(heap, ob, moved, Parent(p))
    <2>1. Usable(heap, obj, moved, Parent(p))
      BY <1>3, <1>4, <1>6, <1>8 DEF Fresh
    <2>2. Way(p) /\ p \in DOMAIN obj
      BY <1>3 DEF WrappersOK
    <2>3. Len(p) > 1
      <3> SUFFICES ASSUME ~(Len(p) > 1) PROVE FALSE
        OBVIOUS
      <3>1. PICK m : m = Len(p)
        OBVIOUS
      <3>2. m \in Nat /\ ~(m > 1)
        BY <2>2, <3>1 DEF Way
      <3>3. Len(p) <= 1
        BY <3>1, <3>2
      <3>4. p = <<p[1]>> /\ p[1] \in Vars
        BY <2>2, <3>3, ShortWay
      <3> QED  BY <1>7, <1>8, <3>4
    <2>4. Parent(p) \in DOMAIN obj
      BY <2>2, <2>3 DEF WrappersOK
    <2> QED  BY <1>4, <2>1, <2>4
  <1>9. ASSUME NEW p \in DOMAIN ob, Len(p) > 1, Usable(heap, ob, moved, Parent(p)), ob[p].own = NULL
        PROVE  ob[p].ext = Finds(heap, About(ob, Parent(p)), p[Len(p)])
    <2>1. Parent(p) \in DOMAIN obj
      BY <1>3, <1>9 DEF WrappersOK
    <2>2. Usable(heap, obj, moved, Parent(p)) /\ obj[p].own = NULL
      BY <1>3, <1>4, <1>9, <2>1
    <2>3. obj[p].ext = Finds(heap, About(obj, Parent(p)), p[Len(p)])
      BY <1>3, <1>6, <1>9, <2>2 DEF Fresh
    <2> QED  BY <1>3, <1>4, <2>1, <2>3
  <1>10. Fresh(heap, ob, moved)
    BY <1>7, <1>8, <1>9 DEF Fresh
  <1>11. ASSUME "replace_ahead" \notin Liberties PROVE Placed(heap, ob, moved)
    <2>1. Placed(heap, obj, moved)
      BY <1>11 DEF Orderly
    <2> QED  BY <1>3, <1>4, <1>5, <1>11, <2>1 DEF Placed
  <1> QED  BY <1>1, <1>2, <1>10, <1>11 DEF Orderly

\* Behind a member comes a member of the same item, or nothing.
LEMMA NextIsKid ==
  ASSUME NEW X, Sound(heap, obj, moved, X), NEW f \in Cells, NEW c \in Kids(heap, f)
  PROVE  NextOf(c) \in Kids(heap, f) \cup {NULL}
  <1>1. heap \in Memories /\ Tidy(heap, Roots(obj) \cup X)
    BY DEF Sound
  <1> DEFINE next == {n \in Cells : \E p \in Cells : \E i \in 1..(Len(heap[p].child) - 1) :
                        heap[p].child[i] = c /\ heap[p].child[i + 1] = n}
  <1>2. NextOf(c) = IF next = {} THEN NULL ELSE First(next)
    BY DEF NextOf
  <1>3. ASSUME NEW n \in next PROVE n \in Kids(heap, f)
    <2>1. PICK p \in Cells : \E i \in 1..(Len(heap[p].child) - 1) :
                               heap[p].child[i] = c /\ heap[p].child[i + 1] = n
      OBVIOUS
    <2>2. PICK i \in 1..(Len(heap[p].child) - 1) : heap[p].child[i] = c /\ heap[p].child[i + 1] = n
      BY <2>1
    <2>3. PICK list : list = heap[p].child
      OBVIOUS
    <2>4. list \in Seq(Cells)
      BY <1>1, <2>3, KidsAreCells
    <2>5. PICK m : m = Len(list)
      OBVIOUS
    <2>6. m \in Nat /\ DOMAIN list = 1..m /\ i \in 1..(m - 1)
      BY <2>2, <2>3, <2>4, <2>5
    <2>7. i \in DOMAIN list /\ i + 1 \in DOMAIN list
      BY <2>6
    <2>8. c \in Kids(heap, p) /\ n \in Kids(heap, p)
      BY <2>2, <2>3, <2>7 DEF Kids, Range
    <2>9. p = f
      BY <1>1, <2>8 DEF Tidy
    <2> QED  BY <2>8, <2>9
  <1>4. CASE next = {}
    BY <1>2, <1>4
  <1>5. CASE next # {}
    <2>1. First(next) \in next
      BY <1>5 DEF First
    <2> QED  BY <1>2, <1>3, <1>5, <2>1
  <1> QED  BY <1>4, <1>5

\* GetKey goes on to the next member; ResetTraversing goes back to the document.
LEMMA TraversalOrderly ==
  ASSUME WrappersOK(obj), NEW X, Sound(heap, obj, moved, X), Orderly(heap, obj, moved),
         NEW w \in DOMAIN obj, GetKey(w) \/ ResetTraversing(w)
  PROVE  Orderly(heap', obj', moved')
  <1>1. PICK f : f = Focus(w)
    OBVIOUS
  <1>2. Live(w)
    BY DEF GetKey, ResetTraversing
  <1>3. f \in Places(heap, f)
    BY DEF Places
  <1>4. CASE Cursor(w, Focus(w))
    BY <1>1, <1>2, <1>3, <1>4, CursorOrderly
  <1>5. CASE /\ ~Is(w, "Array") /\ obj[w].trav # NULL /\ obj[w].trav = f
             /\ heap[f].child # <<>> /\ Cursor(w, NextOf(heap[f].child[1]))
    <2>1. f # NULL
      BY <1>5
    <2>2. f \in Cells
      BY <1>1, <1>2, <2>1, FocusIsItem
    <2>3. heap \in Memories /\ Tidy(heap, Roots(obj) \cup X)
      BY DEF Sound
    <2>4. heap[f].type = "Object"
      BY <1>1, <1>5, <2>1, <2>2, <2>3 DEF Tidy, Is, TypeOf
    <2>5. PICK list : list = heap[f].child
      OBVIOUS
    <2>6. list \in Seq(Cells) /\ list # <<>>
      BY <1>5, <2>2, <2>3, <2>5, KidsAreCells
    <2>7. 1 \in DOMAIN list
      BY <2>6
    <2>8. PICK c : c = heap[f].child[1]
      OBVIOUS
    <2>9. c \in Kids(heap, f)
      BY <2>5, <2>7, <2>8 DEF Kids, Range
    <2>10. NextOf(c) \in Kids(heap, f) \cup {NULL}
      BY <2>2, <2>9, NextIsKid
    <2>11. PICK d : d = NextOf(c)
      OBVIOUS
    <2>12. d \in Places(heap, Focus(w)) /\ Cursor(w, d)
      BY <1>1, <1>5, <2>1, <2>4, <2>8, <2>10, <2>11 DEF Places
    <2> QED  BY <1>2, <2>12, CursorOrderly
  <1>6. CASE obj[w].trav \notin {NULL, f} /\ Cursor(w, NextOf(obj[w].trav))
    <2>1. PICK c : c = obj[w].trav
      OBVIOUS
    <2>2. PICK d : d = NextOf(c)
      OBVIOUS
    <2>3. Cursor(w, d)
      BY <1>6, <2>1, <2>2
    <2>4. ASSUME "replace_ahead" \notin Liberties PROVE d \in Places(heap, Focus(w))
      <3>1. Usable(heap, obj, moved, w) /\ About(obj, w) = f
        BY <1>1, <1>2, AsTheCallsSay
      <3>2. c \in Places(heap, f)
        BY <2>1, <2>4, <3>1 DEF Orderly, Placed
      <3>3. f # NULL /\ heap[f].type = "Object" /\ c \in Kids(heap, f)
        BY <1>6, <2>1, <3>2 DEF Places
      <3>4. f \in Cells
        BY <1>1, <1>2, <3>3, FocusIsItem
      <3>5. d \in Kids(heap, f) \cup {NULL}
        BY <2>2, <3>3, <3>4, NextIsKid
      <3> QED  BY <1>1, <3>3, <3>5 DEF Places
    <2> QED  BY <1>2, <2>3, <2>4, CursorOrderly
  <1> QED  BY <1>1, <1>4, <1>5, <1>6 DEF GetKey, ResetTraversing

(***************************************************************************)
(* operator=(CJsonObject&&)                                                *)
(***************************************************************************)
\* Wrappers that get other ways, with all that is below them, are in order.
LEMMA RenamedOrderly ==
  ASSUME NEW h, NEW ob, NEW mv, WrappersOK(ob), Orderly(h, ob, mv),
         NEW u \in Vars, NEW v \in Vars, u # v, u \notin mv, v \notin mv,
         NEW ob2, WrappersOK(ob2), ob2[<<u>>] = Empty,
         \A p \in DOMAIN ob2 : p[1] = u => p = <<u>>,
         \A p \in DOMAIN ob2 : p # <<u>> => Source(u, v, p) \in DOMAIN ob /\ ob2[p] = ob[Source(u, v, p)]
  PROVE  Orderly(h, ob2, mv)
  <1>1. PICK z : z = <<u>>
    OBVIOUS
  <1>2. z[1] = u /\ ob2[z].own = NULL /\ ob2[z].ext = NULL /\ ob2[z].trav = NULL
    BY <1>1 DEF Empty
  <1>3. ASSUME NEW p \in DOMAIN ob2, p # z, NEW s, s = Source(u, v, p)
        PROVE  /\ s \in DOMAIN ob /\ ob2[p] = ob[s] /\ About(ob2, p) = About(ob, s)
               /\ Usable(h, ob2, mv, p) <=> Usable(h, ob, mv, s)
               /\ Len(s) = Len(p)
               /\ Len(p) > 1 => /\ p[Len(p)] = s[Len(s)] /\ Parent(p) \in DOMAIN ob2 /\ Parent(p) # z
                                /\ Parent(s) = Source(u, v, Parent(p))
    <2>1. s \in DOMAIN ob /\ ob2[p] = ob[s] /\ About(ob2, p) = About(ob, s)
      BY <1>1, <1>3 DEF About
    <2>2. Way(p) /\ p[1] # u
      BY <1>1, <1>3 DEF WrappersOK
    <2>3. CASE p[1] # v
      <3>1. s = p
        BY <1>3, <2>3 DEF Source
      <3>2. ASSUME Len(p) > 1
            PROVE  Parent(p) \in DOMAIN ob2 /\ Parent(p)[1] = p[1]
        BY <2>2, <3>2, ParentWay DEF WrappersOK
      <3> QED  BY <1>2, <2>1, <2>2, <2>3, <3>1, <3>2 DEF Usable, Source
    <2>4. CASE p[1] = v
      <3>1. s = Rebase(u, p)
        BY <1>3, <2>4 DEF Source
      <3>2. s[1] = u /\ Len(s) = Len(p) /\ \A i \in 2..Len(p) : s[i] = p[i]
        BY <2>2, <3>1, RebaseWay
      <3>3. ASSUME Len(p) > 1
            PROVE  /\ p[Len(p)] = s[Len(s)] /\ Parent(p) \in DOMAIN ob2 /\ Parent(p) # z
                   /\ Parent(s) = Source(u, v, Parent(p))
        <4>1. Parent(p) \in DOMAIN ob2 /\ Parent(p)[1] = v
          BY <2>2, <2>4, <3>3, ParentWay DEF WrappersOK
        <4>2. Parent(s) = Rebase(u, Parent(p))
          BY <2>2, <3>1, <3>3, RebaseParent
        <4>3. p[Len(p)] = s[Len(s)]
          <5>1. PICK n : n = Len(p)
            OBVIOUS
          <5>2. n \in Nat /\ n > 1
            BY <2>2, <3>3, <5>1 DEF Way
          <5>3. n \in 2..n
            BY <5>2
          <5> QED  BY <3>2, <5>1, <5>3
        <4> QED  BY <1>2, <4>1, <4>2, <4>3 DEF Source
      <3> QED  BY <2>1, <2>4, <3>2, <3>3 DEF Usable
    <2> QED  BY <2>3, <2>4
  <1>4. Fresh(h, ob, mv)
    BY DEF Orderly
  <1>5. ASSUME NEW x \in Vars PROVE ob2[<<x>>].ext = NULL
    <2>1. CASE x = u
      BY <1>1, <1>2, <2>1
    <2>2. CASE x = v
      <3>1. PICK p : p = <<x>>
        OBVIOUS
      <3>2. p \in DOMAIN ob2 /\ p # z /\ Way(p) /\ Len(p) = 1 /\ p[1] = v
        BY <1>1, <2>2, <3>1 DEF WrappersOK
      <3>3. Source(u, v, p) = <<u>>
        BY <3>2, RebaseVariable DEF Source
      <3> QED  BY <1>3, <1>4, <3>1, <3>2, <3>3 DEF Fresh
    <2>3. CASE x \notin {u, v}
      <3>1. PICK p : p = <<x>>
        OBVIOUS
      <3>2. p \in DOMAIN ob2 /\ p # z /\ p[1] = x
        BY <1>1, <2>3, <3>1 DEF WrappersOK
      <3>3. Source(u, v, p) = p
        BY <2>3, <3>2 DEF Source
      <3> QED  BY <1>3, <1>4, <3>1, <3>2, <3>3 DEF Fresh
    <2> QED  BY <2>1, <2>2, <2>3
  <1>6. ASSUME NEW p \in DOMAIN ob2, Len(p) > 1
        PROVE  p # z
    <2>1. Len(z) = 1
      BY <1>1
    <2>2. ~(Len(z) > 1)
      BY <2>1
    <2> QED  BY <1>6, <2>2
  <1>7. ASSUME NEW p \in DOMAIN ob2, Usable(h, ob2, mv, p), ob2[p].ext # NULL
        PROVE  Usable(h, ob2, mv, Parent(p))
    <2>1. p # z
      BY <1>2, <1>7
    <2>2. Way(p)
      BY DEF WrappersOK
    <2>3. Len(p) > 1
      <3> SUFFICES ASSUME ~(Len(p) > 1) PROVE FALSE
        OBVIOUS
      <3>1. PICK m : m = Len(p)
        OBVIOUS
      <3>2. m \in Nat /\ ~(m > 1)
        BY <2>2, <3>1 DEF Way
      <3>3. Len(p) <= 1
        BY <3>1, <3>2
      <3>4. p = <<p[1]>> /\ p[1] \in Vars
        BY <2>2, <3>3, ShortWay
      <3> QED  BY <1>5, <1>7, <3>4
    <2>4. PICK s : s = Source(u, v, p)
      OBVIOUS
    <2>5. PICK t : t = Source(u, v, Parent(p))
      OBVIOUS
    <2>6. /\ s \in DOMAIN ob /\ ob2[p] = ob[s] /\ Usable(h, ob, mv, s)
          /\ Parent(p) \in DOMAIN ob2 /\ Parent(p) # z /\ Parent(s) = t
      BY <1>3, <1>7, <2>1, <2>3, <2>4, <2>5
    <2>7. Usable(h, ob, mv, t)
      BY <1>4, <1>7, <2>6 DEF Fresh
    <2> QED  BY <1>3, <2>5, <2>6, <2>7
  <1>8. ASSUME NEW p \in DOMAIN ob2, Len(p) > 1, Usable(h, ob2, mv, Parent(p)), ob2[p].own = NULL
        PROVE  ob2[p].ext = Finds(h, About(ob2, Parent(p)), p[Len(p)])
    <2>1. p # z
      BY <1>6, <1>8
    <2>2. PICK s : s = Source(u, v, p)
      OBVIOUS
    <2>3. PICK t : t = Source(u, v, Parent(p))
      OBVIOUS
    <2>4. /\ s \in DOMAIN ob /\ ob2[p] = ob[s] /\ Len(s) = Len(p) /\ p[Len(p)] = s[Len(s)]
          /\ Parent(p) \in DOMAIN ob2 /\ Parent(p) # z /\ Parent(s) = t
      BY <1>3, <1>8, <2>1, <2>2, <2>3
    <2>5. Usable(h, ob, mv, t) /\ About(ob2, Parent(p)) = About(ob, t)
      BY <1>3, <1>8, <2>3, <2>4
    <2>6. Len(s) > 1
      BY <1>8, <2>4
    <2>7. ob[s].ext = Finds(h, About(ob, t), s[Len(s)])
      BY <1>4, <1>8, <2>4, <2>5, <2>6 DEF Fresh
    <2> QED  BY <2>4, <2>5, <2>7
  <1>9. Fresh(h, ob2, mv)
    BY <1>5, <1>7, <1>8 DEF Fresh
  <1>10. ASSUME "replace_ahead" \notin Liberties PROVE Placed(h, ob2, mv)
    <2>1. Placed(h, ob, mv)
      BY <1>10 DEF Orderly
    <2> SUFFICES ASSUME NEW p \in DOMAIN ob2, Usable(h, ob2, mv, p)
                 PROVE  ob2[p].trav \in Places(h, About(ob2, p))
      BY DEF Placed
    <2>2. CASE p = z
      BY <1>2, <2>2 DEF Places
    <2>3. CASE p # z
      <3>1. PICK s : s = Source(u, v, p)
        OBVIOUS
      <3>2. /\ s \in DOMAIN ob /\ ob2[p] = ob[s] /\ About(ob2, p) = About(ob, s)
            /\ Usable(h, ob, mv, s)
        BY <1>3, <2>3, <3>1
      <3> QED  BY <2>1, <3>2 DEF Placed
    <2> QED  BY <2>2, <2>3
  <1> QED  BY <1>9, <1>10 DEF Orderly

\* v's document is freed with all its wrappers, then u's wrappers are v's.
LEMMA MoveAssignOrderly ==
  ASSUME NamesApart, WrappersOK(obj), NEW X, Sound(heap, obj, moved, X), Orderly(heap, obj, moved),
         NEW v \in Vars, NEW u \in Vars, MoveAssign(v, u)
  PROVE  Orderly(heap', obj', moved')
  <1>1. PICK ob2 : ob2 = obj'
    OBVIOUS
  <1>2. PICK w : w = <<u>>
    OBVIOUS
  <1>3. PICK z : z = <<v>>
    OBVIOUS
  <1>4. PICK g : g = Cleared(z)
    OBVIOUS
  <1>5. PICK ob : ob = Emptied(z)
    OBVIOUS
  <1>6. PICK mv : mv = moved \ {v}
    OBVIOUS
  <1>7. u # v /\ u \notin moved /\ heap' = g /\ moved' = mv
    BY <1>3, <1>4, <1>6 DEF MoveAssign
  <1>8. /\ w \in DOMAIN obj /\ Len(w) = 1 /\ w[1] = u
        /\ z \in DOMAIN obj /\ Len(z) = 1 /\ z[1] = v
    BY <1>2, <1>3 DEF WrappersOK
  <1>9. Sound(g, ob, mv, X)
    <2>1. MovedLeft(z) = mv
      BY <1>6, <1>8 DEF MovedLeft
    <2>2. g = Delete(heap, Owned(Below(z) \cup {z}))
      BY <1>4 DEF Cleared
    <2> QED  BY <1>5, <1>8, <2>1, <2>2, ClearedSound
  <1>10. Below(z) \subseteq DOMAIN obj /\ z \notin Below(z)
    BY <1>8, CachedBelow DEF Below
  <1>11. /\ DOMAIN ob = DOMAIN obj \ Below(z) /\ z \in DOMAIN ob /\ ob[z] = Empty
         /\ \A p \in DOMAIN ob : p # z => ob[p] = obj[p]
         /\ ob = [p \in DOMAIN obj \ Below(z) |-> ob[p]]
    BY <1>5, <1>8, <1>10 DEF Emptied
  <1>12. WrappersOK(ob)
    <2>1. \A p \in DOMAIN obj \ Below(z) : ob[p] \in Wrapper
      BY <1>11, EmptyWrapper DEF WrappersOK
    <2>2. ob \in [DOMAIN obj \ Below(z) -> Wrapper]
      BY <1>11, <2>1
    <2>3. \A p \in DOMAIN ob : ob[p].own = NULL \/ ob[p].ext = NULL
      BY <1>11, EmptyWrapper DEF WrappersOK
    <2>4. /\ \A x \in Vars : <<x>> \notin Below(z)
          /\ \A p \in DOMAIN obj : Len(p) > 1 /\ Parent(p) \in Below(z) => p \in Below(z)
      BY <1>8, CachedBelow DEF Below
    <2>5. PICK P : P = Below(z)
      OBVIOUS
    <2> QED  BY <2>2, <2>3, <2>4, <2>5, WrappersLeft
  <1>13. Settled(heap, obj, moved, g, ob, mv, Free, z)
    <2>1. Alters(heap, g, Free, NULL, NULL)
      BY <1>4, FreedAlters DEF Cleared
    <2>2. PICK own : own = NULL
      OBVIOUS
    <2>3. ob[z] = [own |-> own, ext |-> NULL, trav |-> own] /\ own \in Free \cup {NULL}
      BY <1>11, <2>2 DEF Empty
    <2>4. mv = moved \ {z[1]}
      BY <1>6, <1>8
    <2> QED  BY <1>8, <1>11, <2>1, <2>3, <2>4, WholeSettles
  <1>14. Orderly(g, ob, mv)
    <2>1. Free \subseteq Cells
      BY FreeCells
    <2> QED  BY <1>8, <1>9, <1>12, <1>13, <2>1, SettledOrderly
  <1>15. WrappersOK(ob2)
    BY <1>1, MovedWrappersOK
  <1>16. /\ \A p \in DOMAIN ob2 : \/ p = w
                                  \/ p[1] \notin {u, v} /\ p \in DOMAIN obj
                                  \/ p[1] = v /\ \E q \in OfVariable(u) : p = Rebase(v, q)
         /\ w \in DOMAIN ob2 /\ ob2[w] = Empty
         /\ \A q \in OfVariable(u) : Rebase(v, q) \in DOMAIN ob2 /\ ob2[Rebase(v, q)] = obj[q]
         /\ \A p \in DOMAIN obj : p[1] \notin {u, v} => p \in DOMAIN ob2 /\ ob2[p] = obj[p]
    BY <1>1, <1>2, MovedWrappers
  <1>17. \A p \in Below(z) : p[1] = v
    BY <1>8, CachedBelow DEF Below
  <1>18. \A p \in DOMAIN obj : p[1] # v => p \in DOMAIN ob /\ ob[p] = obj[p]
    BY <1>8, <1>11, <1>17
  <1>19. ASSUME NEW p \in DOMAIN ob2, p # w
         PROVE  Source(u, v, p) \in DOMAIN ob /\ ob2[p] = ob[Source(u, v, p)]
    <2>1. CASE p[1] \notin {u, v} /\ p \in DOMAIN obj
      BY <1>16, <1>18, <2>1 DEF Source
    <2>2. CASE p[1] = v /\ \E q \in OfVariable(u) : p = Rebase(v, q)
      <3>1. PICK q \in OfVariable(u) : p = Rebase(v, q)
        BY <2>2
      <3>2. q \in DOMAIN obj /\ q[1] = u /\ Way(q)
        BY DEF OfVariable, WrappersOK
      <3>3. Rebase(u, p) = q
        BY <3>1, <3>2, RebaseBack
      <3>4. Source(u, v, p) = q
        BY <2>2, <3>3 DEF Source
      <3>5. ob2[p] = obj[q] /\ q \in DOMAIN ob /\ ob[q] = obj[q]
        BY <1>7, <1>16, <1>18, <3>1, <3>2
      <3> QED  BY <3>4, <3>5
    <2> QED  BY <1>16, <1>19, <2>1, <2>2
  <1>20. u \notin mv /\ v \notin mv
    BY <1>6, <1>7
  <1>21. \A p \in DOMAIN ob2 : p[1] = u => p = w
    BY <1>7, <1>16
  <1>22. Orderly(g, ob2, mv)
    BY <1>2, <1>7, <1>12, <1>14, <1>15, <1>16, <1>19, <1>20, <1>21, RenamedOrderly
  <1> QED  BY <1>1, <1>7, <1>22

(***************************************************************************)
(* All calls                                                               *)
(***************************************************************************)
\* Callers do not Add a scalar where they looked in vain before, or shift elements
\* that have wrappers, or make a document of a wrapper.
Careful == {"late_member", "first_scalar", "assign_member"} \cap Liberties = {}

\* The calls between two documents
LEMMA CombineSettles ==
  ASSUME NamesApart, Careful, WrappersOK(obj), NEW X, Sound(heap, obj, moved, X),
         NEW Y, Sound(heap', obj', moved', Y), NEW w \in DOMAIN obj, NEW x \in DOMAIN obj, Combine(w, x)
  PROVE  Settles(w) \/ Settles(x)
  <1>1. ASSUME NEW n, ParseTextOf(x, n) PROVE Len(x) = 1
    BY <1>1 DEF ParseTextOf, Assignable, Unless, Careful
  <1>2. CASE Assign(x, w)
    <2>1. Len(x) = 1
      BY <1>1, <1>2 DEF Assign
    <2> QED  BY <1>2, <2>1, AssignSettles
  <1>3. CASE \E k \in Keys : GetObject(w, k, x)
    <2>1. Len(x) = 1
      BY <1>1, <1>3 DEF GetObject
    <2> QED  BY <1>3, <2>1, GetObjectSettles
  <1>4. CASE \E i \in Indices : GetObjectAt(w, i, x)
    <2>1. Len(x) = 1
      BY <1>1, <1>4 DEF GetObjectAt
    <2> QED  BY <1>4, <2>1, GetObjectAtSettles
  <1>5. CASE \E k \in Keys : AddCopy(w, k, x) \/ ReplaceCopy(w, k, x)
    BY <1>5, AddCopySettles, ReplaceCopySettles
  <1>6. CASE \E i \in Indices : ReplaceCopyAt(w, i, x)
    BY <1>6, ReplaceCopyAtSettles
  <1>7. CASE AppendCopy(w, x) \/ PrependCopy(w, x)
    <2>1. PutCopy(w, x, FALSE) \/ PutCopy(w, x, TRUE)
      BY <1>7 DEF AppendCopy, PrependCopy
    <2> QED  BY <2>1, PutCopySettles
  <1> QED  BY <1>2, <1>3, <1>4, <1>5, <1>6, <1>7 DEF Combine

\* Those that move the document of a variable into another
LEMMA MoveOrderly ==
  ASSUME NamesApart, WrappersOK(obj), NEW X, Sound(heap, obj, moved, X), Orderly(heap, obj, moved),
         NEW Y, Sound(heap', obj', moved', Y), NEW w \in DOMAIN obj, NEW v \in Vars, Move(w, v)
  PROVE  Settles(w) \/ Orderly(heap', obj', moved')
  <1>1. CASE MoveAssign(w[1], v)
    <2>1. w[1] \in Vars
      BY DEF WrappersOK, Way
    <2> QED  BY <1>1, <2>1, MoveAssignOrderly
  <1>2. CASE \E k \in Keys : AddMove(w, k, v) \/ ReplaceMove(w, k, v)
    BY <1>2, AddMoveSettles, ReplaceMoveSettles
  <1>3. CASE AppendMove(w, v) \/ PrependMove(w, v)
    <2>1. PutMove(w, v, FALSE) \/ PutMove(w, v, TRUE)
      BY <1>3 DEF AppendMove, PrependMove
    <2> QED  BY <2>1, PutMoveSettles
  <1>4. CASE \E i \in Indices : ReplaceMoveAt(w, i, v)
    BY <1>4, ReplaceMoveAtSettles
  <1> QED  BY <1>1, <1>2, <1>3, <1>4 DEF Move

\* Every call leaves the wrappers in order.
LEMMA CallOrderly ==
  ASSUME NamesApart, Careful, WrappersOK(obj), moved \subseteq Vars, NEW X, Sound(heap, obj, moved, X),
         Orderly(heap, obj, moved), NEW w \in DOMAIN obj, Call(w)
  PROVE  Orderly(heap', obj', moved')
  <1>1. Keeping(X)
    BY CallKeeps
  <1>2. PICK Y : Sound(heap', obj', moved', Y)
    BY <1>1 DEF Keeping
  <1>3. WrappersOK(obj')
    BY <1>1 DEF Keeping
  <1>4. ASSUME NEW x \in DOMAIN obj, Settles(x) PROVE Orderly(heap', obj', moved')
    <2>1. Free \subseteq Cells
      BY FreeCells
    <2> QED  BY <1>2, <1>3, <1>4, <2>1, SettledOrderly DEF Settles
  <1>5. CASE \E k \in Keys : Member(w, k)
    <2>1. PICK k \in Keys : Wrap(w, k, Lookup(w, k))
      BY <1>5 DEF Member
    <2>2. k \notin Indices
      BY DEF NamesApart
    <2>3. PICK item : item = Lookup(w, k)
      OBVIOUS
    <2>4. item = Finds(heap, Focus(w), k) /\ k \in Keys \cup Indices /\ Wrap(w, k, item)
      BY <2>1, <2>2, <2>3, AsTheCallsSay
    <2> QED  BY <2>4, WrapOrderly
  <1>6. CASE \E i \in Indices : Element(w, i)
    <2>1. PICK i \in Indices : Wrap(w, i, LookupAt(w, i))
      BY <1>6 DEF Element
    <2>2. PICK item : item = LookupAt(w, i)
      OBVIOUS
    <2>3. item = Finds(heap, Focus(w), i) /\ i \in Keys \cup Indices /\ Wrap(w, i, item)
      BY <2>1, <2>2, AsTheCallsSay
    <2> QED  BY <2>3, WrapOrderly
  <1>7. "late_member" \notin Liberties /\ {"late_member", "first_scalar"} \cap Liberties = {}
        /\ "assign_member" \notin Liberties
    BY DEF Careful
  <1>8. CASE \E k \in Keys : ScalarMember(w, k)
    <2>1. Settles(w)
      BY <1>2, <1>7, <1>8, ScalarMemberSettles
    <2> QED  BY <1>4, <2>1
  <1>9. CASE \E i \in Indices : ElementAt(w, i)
    <2>1. Settles(w)
      BY <1>2, <1>9, ElementAtSettles
    <2> QED  BY <1>4, <2>1
  <1>10. CASE ScalarElement(w)
    <2>1. Settles(w)
      BY <1>2, <1>7, <1>10, ScalarElementSettles
    <2> QED  BY <1>4, <2>1
  <1>11. CASE Clear(w)
    <2>1. PICK own : own = NULL
      OBVIOUS
    <2>2. Becomes(w, Cleared(w), own) /\ Len(w) = 1
      BY <1>7, <1>11, <2>1 DEF Clear, Assignable, Unless
    <2>3. Settles(w)
      BY <2>1, <2>2, ClearSettles
    <2> QED  BY <1>4, <2>3
  <1>12. CASE \E doc \in Documents : Parse(w, doc)
    <2>1. Len(w) = 1
      BY <1>7, <1>12 DEF Parse, Assignable, Unless
    <2>2. Settles(w)
      BY <1>12, <2>1, ParseSettles
    <2> QED  BY <1>4, <2>2
  <1>13. CASE GetKey(w) \/ ResetTraversing(w)
    BY <1>13, TraversalOrderly
  <1>14. CASE \E x \in DOMAIN obj : Combine(w, x)
    <2>1. PICK x \in DOMAIN obj : Settles(w) \/ Settles(x)
      BY <1>2, <1>14, CombineSettles
    <2> QED  BY <1>4, <2>1
  <1>15. CASE \E v \in Vars : Move(w, v)
    BY <1>2, <1>4, <1>15, MoveOrderly
  <1> QED  BY <1>5, <1>6, <1>8, <1>9, <1>10, <1>11, <1>12, <1>13, <1>14, <1>15 DEF Call

\* At first there are only variables about nothing.
LEMMA InitOrderly ==
  ASSUME Init
  PROVE  Orderly(heap, obj, moved)
  <1>1. PICK V : V = {<<v>> : v \in Vars}
    OBVIOUS
  <1>2. obj = [w \in V |-> Empty]
    BY <1>1 DEF Init
  <1>3. DOMAIN obj = V /\ \A w \in V : obj[w].own = NULL /\ obj[w].ext = NULL /\ obj[w].trav = NULL
    BY <1>2 DEF Empty
  <1>4. ASSUME NEW w \in V PROVE ~(Len(w) > 1)
    <2>1. Len(w) = 1
      BY <1>1
    <2> QED  BY <2>1
  <1>5. Fresh(heap, obj, moved)
    BY <1>1, <1>3, <1>4 DEF Fresh
  <1>6. Placed(heap, obj, moved)
    BY <1>3 DEF Placed, Places
  <1> QED  BY <1>5, <1>6 DEF Orderly

\* So they are in order from one state to the next.
LEMMA NextOrderly ==
  ASSUME NamesApart, Careful, Inv, Orderly(heap, obj, moved), [Next]_vars
  PROVE  Orderly(heap', obj', moved')
  <1>1. CASE Next
    <2>1. PICK X : Sound(heap, obj, moved, X)
      BY DEF Inv
    <2>2. PICK w \in DOMAIN obj : Call(w)
      BY <1>1 DEF Next
    <2> QED  BY <2>1, <2>2, CallOrderly DEF Inv
  <1>2. CASE UNCHANGED vars
    BY <1>2 DEF vars
  <1> QED  BY <1>1, <1>2

\* The inductive part of WrappersFresh and CursorLive: wrappers are about what is
\* found, and cursors where GetKey put them.
WrappersInOrder == Orderly(heap, obj, moved)

\* Whatever careful callers call, in any order, on any variables and wrappers, with
\* documents of any size: the memory stays sound and the wrappers stay in order.
THEOREM OrderKept ==
  ASSUME NamesApart, Careful
  PROVE  Spec => [](Inv /\ WrappersInOrder)
  <1>1. Init => WrappersInOrder
    BY InitOrderly DEF WrappersInOrder
  <1>2. Inv /\ WrappersInOrder /\ [Next]_vars => WrappersInOrder'
    BY NextOrderly DEF WrappersInOrder
  <1>3. Spec => []Inv
    BY MemoryIsSound
  <1> QED  BY <1>1, <1>2, <1>3, PTL DEF Spec

\* A wrapper operator[] has handed out is about the item a search under its key or
\* index would find now, or about nothing if there is none, as long as its parent can
\* be used: every call that edits a list erases the wrappers that would look at
\* something else, from m_mapJsonObjectRef or m_mapJsonArrayRef.
THEOREM WrappersFreshHolds ==
  ASSUME NamesApart, Careful
  PROVE  Spec => []WrappersFresh
  <1>1. ASSUME Inv, WrappersInOrder PROVE WrappersFresh
    <2> SUFFICES ASSUME NEW w \in DOMAIN obj, Len(w) > 1, Live(Parent(w)), obj[w].own = NULL
                 PROVE  obj[w].ext = Designated(w)
      BY DEF WrappersFresh
    <2>1. PICK X : Sound(heap, obj, moved, X)
      BY <1>1 DEF Inv
    <2>2. PICK u : u = Parent(w)
      OBVIOUS
    <2>3. u \in DOMAIN obj
      BY <1>1, <2>2 DEF Inv, WrappersOK
    <2>4. PICK s : s = w[Len(w)]
      OBVIOUS
    <2>5. Usable(heap, obj, moved, u) /\ About(obj, u) = Focus(u)
      BY <2>1, <2>2, <2>3, AsTheCallsSay
    <2>6. obj[w].ext = Finds(heap, Focus(u), s)
      BY <1>1, <2>2, <2>4, <2>5 DEF WrappersInOrder, Orderly, Fresh
    <2>7. Designated(w) = IF s \in Indices THEN LookupAt(u, s) ELSE Lookup(u, s)
      BY <2>2, <2>4 DEF Designated
    <2>8. Designated(w) = Finds(heap, Focus(u), s)
      BY <2>1, <2>3, <2>7, AsTheCallsSay
    <2> QED  BY <2>6, <2>8
  <1>2. Spec => [](Inv /\ WrappersInOrder)
    BY OrderKept
  <1> QED  BY <1>1, <1>2, PTL

\* When no caller replaces the member GetKey would return next, the cursor of GetKey
\* (m_pKeyTravers) of an object that can be used is NULL, the document or one of its
\* children, never an item that was freed or went to another document: Add and Delete
\* of members set it back to the document, and so does what gets w another one.
THEOREM CursorLiveHolds ==
  ASSUME NamesApart, Careful, "replace_ahead" \notin Liberties
  PROVE  Spec => []CursorLive
  <1>1. ASSUME Inv, WrappersInOrder PROVE CursorLive
    <2> SUFFICES ASSUME NEW w \in DOMAIN obj, Live(w), Focus(w) # NULL
                 PROVE  obj[w].trav \in {NULL, Focus(w)} \cup Range(heap[Focus(w)].child)
      BY DEF CursorLive
    <2>1. PICK X : Sound(heap, obj, moved, X)
      BY <1>1 DEF Inv
    <2>2. Usable(heap, obj, moved, w) /\ About(obj, w) = Focus(w)
      BY <2>1, AsTheCallsSay
    <2>3. obj[w].trav \in Places(heap, Focus(w))
      BY <1>1, <2>2 DEF WrappersInOrder, Orderly, Placed
    <2> QED  BY <2>3 DEF Places, Kids
  <1>2. Spec => [](Inv /\ WrappersInOrder)
    BY OrderKept
  <1> QED  BY <1>1, <1>2, PTL
=============================================================================
