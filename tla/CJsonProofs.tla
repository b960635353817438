----------------------------- MODULE CJsonProofs -----------------------------
(***************************************************************************)
(* The memory of cJSON.c: items in trees and free cells, nothing shared.   *)
(* Whatever its functions link, unlink, replace, copy, parse and delete,   *)
(* it stays so; a function at a time.                                      *)
(***************************************************************************)
EXTENDS CJsonObject, FiniteSetTheorems, FunctionTheorems, WellFoundedInduction, TLAPS

(***************************************************************************)
(* Trees, whatever they are for                                            *)
(***************************************************************************)
Memories == [Cells -> Item]

Alive(h, c) == h[c].type # "freed"

Kids(h, c) == Range(h[c].child)

\* The children of a cell are cells, and the elements of its list.
LEMMA KidsAreCells ==
  ASSUME NEW h \in Memories, NEW c \in Cells
  PROVE  /\ h[c].child \in Seq(Cells)
         /\ Kids(h, c) \subseteq Cells
         /\ \A d : d \in Kids(h, c) <=> \E i \in DOMAIN h[c].child : h[c].child[i] = d
  <1>1. h[c] \in Item
    BY DEF Memories
  <1>2. h[c].child \in Seq(Cells)
    BY <1>1 DEF Item
  <1> QED  BY <1>2 DEF Kids, Range

\* Trees(h, N) has N, and with an item its children.
LEMMA TreesHold ==
  ASSUME NEW h \in Memories, NEW N, N \subseteq Cells
  PROVE  /\ N \subseteq Trees(h, N) /\ Trees(h, N) \subseteq Cells
         /\ \A c \in Trees(h, N) : Kids(h, c) \subseteq Trees(h, N)
  <1>1. \A c \in Cells : Kids(h, c) \subseteq Cells
    BY KidsAreCells
  <1> QED  BY <1>1 DEF Trees, Closed, Kids

\* It has nothing else: a set with N that has with an item its children has all of it.
LEMMA TreesLeast ==
  ASSUME NEW h, NEW N, NEW S, S \subseteq Cells, N \subseteq S,
         \A c \in S : Kids(h, c) \subseteq S
  PROVE  Trees(h, N) \subseteq S
  BY DEF Trees, Closed, Kids

\* What is in a tree is its root or a child of what is in it.
LEMMA TreesFrom ==
  ASSUME NEW h \in Memories, NEW N, N \subseteq Cells, NEW c \in Trees(h, N)
  PROVE  c \in N \/ \E d \in Trees(h, N) : c \in Kids(h, d)
  <1> DEFINE S == {x \in Trees(h, N) : x \in N \/ \E d \in Trees(h, N) : x \in Kids(h, d)}
  <1>1. N \subseteq S /\ S \subseteq Cells
    BY TreesHold
  <1>2. \A x \in S : Kids(h, x) \subseteq S
    BY TreesHold
  <1>3. Trees(h, N) \subseteq S
    BY <1>1, <1>2, TreesLeast
  <1> QED  BY <1>3

\* More roots, more trees.
LEMMA TreesGrow ==
  ASSUME NEW h \in Memories, NEW M, NEW N, M \subseteq N, N \subseteq Cells
  PROVE  Trees(h, M) \subseteq Trees(h, N)
  BY TreesHold, TreesLeast

\* The trees of both are the trees of each.
LEMMA TreesJoin ==
  ASSUME NEW h \in Memories, NEW M, NEW N, M \subseteq Cells, N \subseteq Cells
  PROVE  Trees(h, M \cup N) \subseteq Trees(h, M) \cup Trees(h, N)
  <1> DEFINE S == Trees(h, M) \cup Trees(h, N)
  <1>1. M \cup N \subseteq S /\ S \subseteq Cells
    BY TreesHold
  <1>2. \A c \in S : Kids(h, c) \subseteq S
    BY TreesHold
  <1> HIDE DEF S
  <1>3. Trees(h, M \cup N) \subseteq S
    BY <1>1, <1>2, TreesLeast
  <1> QED  BY <1>3 DEF S

(***************************************************************************)
(* A tidy memory: the trees at the roots R and free cells, nothing shared. *)
(***************************************************************************)
Tidy(h, R) ==
  /\ R \subseteq Cells
  /\ \A r \in R : Alive(h, r)
  /\ \A c \in Cells : h[c].child # <<>> => h[c].type \in {"Array", "Object"}
  /\ \A p \in Cells : IsInjective(h[p].child)
  /\ \A p, q \in Cells : \A c : c \in Kids(h, p) /\ c \in Kids(h, q) => p = q
  /\ \A p \in Cells : \A c \in Kids(h, p) : c \notin R /\ Alive(h, c)
  /\ \A c \in Cells : Alive(h, c) => c \in Trees(h, R)

\* The trees at different roots have nothing in common.
LEMMA TreesApart ==
  ASSUME NEW h \in Memories, NEW R, Tidy(h, R),
         NEW A, A \subseteq R, NEW B, B \subseteq R, A \cap B = {}
  PROVE  Trees(h, A) \cap Trees(h, B) = {}
  <1> DEFINE S == Trees(h, A) \ Trees(h, B)
  <1>1. A \subseteq Cells /\ B \subseteq Cells /\ \A p \in Cells : \A c \in Kids(h, p) : c \notin R
    BY DEF Tidy
  <1>2. A \subseteq S
    BY <1>1, TreesHold, TreesFrom
  <1>3. ASSUME NEW p \in S, NEW c \in Kids(h, p) PROVE c \in S
    <2>1. c \in Trees(h, A) /\ p \in Cells
      BY <1>1, <1>3, TreesHold
    <2>2. ASSUME c \in Trees(h, B) PROVE FALSE
      <3>1. c \notin B
        BY <1>1, <2>1, <1>3
      <3>2. PICK q \in Trees(h, B) : c \in Kids(h, q)
        BY <1>1, <2>2, <3>1, TreesFrom
      <3>3. q \in Cells
        BY <1>1, TreesHold
      <3>4. p = q
        BY <1>3, <2>1, <3>2, <3>3 DEF Tidy
      <3> QED  BY <3>4, <3>2, <1>3
    <2> QED  BY <2>1, <2>2
  <1>4. Trees(h, A) \subseteq S
    <2>1. S \subseteq Cells
      BY <1>1, TreesHold
    <2> QED  BY <1>2, <1>3, <2>1, TreesLeast
  <1> QED  BY <1>4

\* No item is below itself.
LEMMA NoCycle ==
  ASSUME NEW h \in Memories, NEW R, Tidy(h, R),
         NEW n \in Cells, Alive(h, n), NEW m \in Trees(h, {n})
  PROVE  n \notin Kids(h, m)
  <1> SUFFICES ASSUME n \in Kids(h, m) PROVE FALSE
    OBVIOUS
  <1> DEFINE S == Trees(h, R) \ Trees(h, {n})
  <1>1. /\ R \subseteq Cells /\ \A p \in Cells : \A c \in Kids(h, p) : c \notin R
        /\ n \in Trees(h, R) /\ n \in Trees(h, {n}) /\ m \in Cells
        /\ \A p, q \in Cells : \A c : c \in Kids(h, p) /\ c \in Kids(h, q) => p = q
    BY TreesHold DEF Tidy
  <1>2. R \subseteq S
    <2> SUFFICES ASSUME NEW r \in R, r \in Trees(h, {n}) PROVE FALSE
      BY <1>1, TreesHold
    <2>1. r # n
      BY <1>1
    <2>2. PICK q \in Trees(h, {n}) : r \in Kids(h, q)
      BY <2>1, TreesFrom
    <2>3. q \in Cells
      BY TreesHold
    <2> QED  BY <2>2, <2>3, <1>1
  <1>3. ASSUME NEW p \in S, NEW c \in Kids(h, p) PROVE c \in S
    <2>1. c \in Trees(h, R) /\ p \in Cells
      BY <1>1, <1>3, TreesHold
    <2>2. ASSUME c \in Trees(h, {n}) PROVE FALSE
      <3>1. PICK q \in Trees(h, {n}) : c \in Kids(h, q)
        BY <2>2, TreesFrom
      <3>2. q \in Cells
        BY TreesHold
      <3>3. p = q
        BY <1>3, <2>1, <3>1, <3>2, <1>1
      <3> QED  BY <3>3, <3>1, <1>3
    <2> QED  BY <2>1, <2>2
  <1>4. S \subseteq Cells
    BY <1>1, TreesHold
  <1>5. Trees(h, R) \subseteq S
    <2> HIDE DEF S
    <2>1. \A p \in S : Kids(h, p) \subseteq S
      BY <1>3
    <2> QED  BY <1>2, <1>4, <2>1, TreesLeast
  <1> QED  BY <1>1, <1>5

(***************************************************************************)
(* What keeps a memory tidy: deleting trees, relinking a list, and putting *)
(* a new tree into free cells. Every function of cJSON.c is one of them.   *)
(***************************************************************************)
\* The items made from nothing are items.
LEMMA ItemsMade ==
  /\ NewItem \in Item /\ Freed \in Item
  /\ 0 \in Int64
  /\ Freed.type = "freed" /\ Freed.child = <<>>
  <1>1. 0 \in Int64
    BY WidthAssumption DEF Int64
  <1>2. <<>> \in Seq(Cells)
    OBVIOUS
  <1>3. NewItem \in Item
    BY <1>1, <1>2 DEF NewItem, Item, Types
  <1>4. Freed \in Item /\ Freed.type = "freed" /\ Freed.child = NewItem.child
    BY <1>3 DEF Freed, Item, Types
  <1> QED  BY <1>1, <1>3, <1>4 DEF NewItem

\* The memory g has of h, whose roots are R, what is not in the trees at N.
Dropped(h, g, R, N) ==
  /\ \A c \in Cells : /\ Alive(g, c) <=> Alive(h, c) /\ c \notin Trees(h, N)
                      /\ c \notin Trees(h, N) => g[c] = h[c]
  /\ \A A : A \subseteq R => Trees(h, A) \ Trees(h, N) \subseteq Trees(g, A \ N)

\* Deleting the trees at some of the roots leaves those at the others.
LEMMA DropTidy ==
  ASSUME NEW h \in Memories, NEW R, Tidy(h, R), NEW N, N \subseteq R,
         NEW g, g = Delete(h, N)
  PROVE  g \in Memories /\ Dropped(h, g, R, N) /\ Tidy(g, R \ N)
  <1> DEFINE T == Trees(h, N)
  <1>1. R \subseteq Cells /\ N \subseteq T /\ T \subseteq Cells /\ \A c \in T : Kids(h, c) \subseteq T
    BY TreesHold DEF Tidy
  <1>2. g = [c \in Cells |-> IF c \in T THEN Freed ELSE h[c]]
    BY DEF Delete
  <1> HIDE DEF T
  <1>3. g \in Memories
    BY <1>2, ItemsMade DEF Memories
  <1>4. \A c \in Cells : /\ c \in T => g[c] = Freed
                         /\ c \notin T => g[c] = h[c]
    BY <1>2
  <1>5. \A c \in Cells : /\ c \in T => Kids(g, c) = {} /\ ~Alive(g, c) /\ g[c].child = <<>>
                         /\ c \notin T => Kids(g, c) = Kids(h, c) /\ (Alive(g, c) <=> Alive(h, c))
    <2>1. Range(<<>>) = {}
      BY DEF Range
    <2> QED  BY <1>4, <2>1, ItemsMade DEF Kids, Alive
  <1>6. ASSUME NEW A, A \subseteq R PROVE Trees(h, A) \ T \subseteq Trees(g, A \ N)
    <2> DEFINE S == Trees(g, A \ N) \cup T
    <2>0. A \subseteq Cells /\ A \ N \subseteq Cells
      BY <1>1, <1>6
    <2>1. A \subseteq S /\ S \subseteq Cells
      BY <1>1, <1>3, <2>0, TreesHold
    <2>2. ASSUME NEW c \in S PROVE Kids(h, c) \subseteq S
      <3>1. CASE c \in T
        BY <3>1, <1>1
      <3>2. CASE c \notin T
        <4>1. c \in Trees(g, A \ N) /\ c \in Cells
          BY <3>2, <2>1
        <4> QED  BY <4>1, <3>2, <1>5, <1>3, <2>0, TreesHold
      <3> QED  BY <3>1, <3>2
    <2>3. Trees(h, A) \subseteq S
      <3> HIDE DEF S
      <3> QED  BY <2>1, <2>2, TreesLeast
    <2> QED  BY <2>3
  <1>7. \A p \in Cells : \A c \in Kids(h, p) : p \notin T => c \notin T
    <2> SUFFICES ASSUME NEW p \in Cells, NEW c \in Kids(h, p), p \notin T, c \in T PROVE FALSE
      OBVIOUS
    <2>1. c \notin N
      BY DEF Tidy
    <2>2. PICK q \in T : c \in Kids(h, q)
      BY <2>1, <1>1, TreesFrom DEF T
    <2>3. q \in Cells
      BY <1>1
    <2> QED  BY <2>2, <2>3 DEF Tidy
  <1>8. Tidy(g, R \ N)
    <2>1. R \ N \subseteq Cells
      BY <1>1
    <2>2. ASSUME NEW r \in R \ N PROVE Alive(g, r)
      <3>1. r \notin T
        <4> SUFFICES ASSUME r \in T PROVE FALSE
          OBVIOUS
        <4>1. PICK q \in T : r \in Kids(h, q)
          BY <1>1, TreesFrom DEF T
        <4>2. q \in Cells
          BY <1>1
        <4> QED  BY <4>1, <4>2 DEF Tidy
      <3> QED  BY <3>1, <1>1, <1>5 DEF Tidy
    <2>3. \A c \in Cells : g[c].child # <<>> => g[c].type \in {"Array", "Object"}
      BY <1>4, <1>5 DEF Tidy
    <2>4. \A p \in Cells : IsInjective(g[p].child)
      <3>1. IsInjective(<<>>)
        BY DEF IsInjective
      <3> QED  BY <3>1, <1>4, <1>5 DEF Tidy
    <2>5. \A p, q \in Cells : \A c : c \in Kids(g, p) /\ c \in Kids(g, q) => p = q
      BY <1>5 DEF Tidy
    <2>6. \A p \in Cells : \A c \in Kids(g, p) : c \notin R \ N /\ Alive(g, c)
      <3> SUFFICES ASSUME NEW p \in Cells, NEW c \in Kids(g, p) PROVE c \notin R \ N /\ Alive(g, c)
        OBVIOUS
      <3>1. p \notin T /\ c \in Kids(h, p)
        BY <1>5
      <3>2. c \notin T /\ c \in Cells
        BY <3>1, <1>7, KidsAreCells
      <3> QED  BY <3>1, <3>2, <1>5 DEF Tidy
    <2>7. \A c \in Cells : Alive(g, c) => c \in Trees(g, R \ N)
      BY <1>5, <1>6 DEF Tidy
    <2> QED  BY <2>1, <2>2, <2>3, <2>4, <2>5, <2>6, <2>7 DEF Tidy
  <1> QED  BY <1>3, <1>4, <1>5, <1>6, <1>8 DEF T, Dropped

\* The items D leave the list of a, which become roots, and the roots N, none of
\* them above a, enter it.
LEMMA RelinkTidy ==
  ASSUME NEW h \in Memories, NEW g \in Memories, NEW R, Tidy(h, R),
         NEW a \in Cells, h[a].type \in {"Array", "Object"},
         NEW D, D \subseteq Kids(h, a), NEW N, N \subseteq R, a \notin Trees(h, N),
         \A c \in Cells : g[c].type = h[c].type,
         \A c \in Cells \ {a} : g[c].child = h[c].child,
         Kids(g, a) = (Kids(h, a) \ D) \cup N,
         IsInjective(g[a].child)
  PROVE  /\ \A A : A \subseteq Cells => Trees(h, A) \subseteq Trees(g, A \cup D)
         /\ Tidy(g, (R \ N) \cup D)
  <1>1. /\ R \subseteq Cells /\ D \subseteq Cells /\ N \subseteq Cells
        /\ \A p \in Cells : Kids(h, p) \subseteq Cells /\ \A c \in Kids(h, p) : c \notin R
    BY KidsAreCells DEF Tidy
  <1>2. /\ \A c \in Cells \ {a} : Kids(g, c) = Kids(h, c)
        /\ \A c \in Cells : Alive(g, c) <=> Alive(h, c)
        /\ Alive(h, a)
    BY DEF Kids, Alive
  <1>3. ASSUME NEW A, A \subseteq Cells PROVE Trees(h, A) \subseteq Trees(g, A \cup D)
    <2> DEFINE S == Trees(g, A \cup D)
    <2>1. A \subseteq S /\ D \subseteq S /\ S \subseteq Cells /\ \A c \in S : Kids(g, c) \subseteq S
      BY <1>1, <1>3, TreesHold
    <2> HIDE DEF S
    <2>2. \A c \in S : Kids(h, c) \subseteq S
      BY <2>1, <1>2
    <2>3. Trees(h, A) \subseteq S
      BY <2>1, <2>2, TreesLeast
    <2> QED  BY <2>3 DEF S
  <1>4. \A c \in Cells : Alive(h, c) => c \in Trees(g, (R \ N) \cup D)
    <2> DEFINE S == Trees(g, (R \ N) \cup D)
    <2>1. /\ R \ N \subseteq S /\ D \subseteq S /\ S \subseteq Cells
          /\ \A c \in S : Kids(g, c) \subseteq S
      BY <1>1, TreesHold
    <2>2. a \in S
      <3>1. a \in Trees(h, (R \ N) \cup N)
        <4>1. (R \ N) \cup N = R
          OBVIOUS
        <4> QED  BY <4>1, <1>2 DEF Tidy
      <3>2. a \in Trees(h, R \ N)
        BY <3>1, <1>1, TreesJoin
      <3> QED  BY <3>2, <1>1, <1>3
    <2>3. R \cup D \subseteq S
      BY <2>1, <2>2
    <2>4. Trees(g, R \cup D) \subseteq S
      <3> HIDE DEF S
      <3> QED  BY <2>1, <2>3, TreesLeast
    <2> QED  BY <2>4, <1>1, <1>3 DEF Tidy
  <1>5. Tidy(g, (R \ N) \cup D)
    <2>1. (R \ N) \cup D \subseteq Cells
      BY <1>1
    <2>2. \A r \in (R \ N) \cup D : Alive(g, r)
      BY <1>1, <1>2 DEF Tidy
    <2>3. \A c \in Cells : g[c].child # <<>> => g[c].type \in {"Array", "Object"}
      BY DEF Tidy
    <2>4. \A p \in Cells : IsInjective(g[p].child)
      BY DEF Tidy
    <2>5. \A p, q \in Cells : \A c : c \in Kids(g, p) /\ c \in Kids(g, q) => p = q
      <3> SUFFICES ASSUME NEW p \in Cells, NEW q \in Cells, NEW c,
                          c \in Kids(g, p), c \in Kids(g, q), p # q
                   PROVE  FALSE
        OBVIOUS
      <3>1. \A x \in Cells \ {a} : c \in Kids(h, x) => c \notin Kids(h, a) /\ c \notin R
        BY <1>1 DEF Tidy
      <3>2. CASE p = a
        BY <3>1, <3>2, <1>2
      <3>3. CASE q = a
        BY <3>1, <3>3, <1>2
      <3>4. CASE p # a /\ q # a
        BY <3>4, <1>2 DEF Tidy
      <3> QED  BY <3>2, <3>3, <3>4
    <2>6. \A p \in Cells : \A c \in Kids(g, p) : c \notin (R \ N) \cup D /\ Alive(g, c)
      <3> SUFFICES ASSUME NEW p \in Cells, NEW c \in Kids(g, p)
                   PROVE  c \notin (R \ N) \cup D /\ Alive(g, c)
        OBVIOUS
      <3>1. CASE p = a
        BY <3>1, <1>1, <1>2 DEF Tidy
      <3>2. CASE p # a
        <4>1. c \in Kids(h, p)
          BY <3>2, <1>2
        <4>2. c \notin Kids(h, a)
          BY <4>1, <3>2 DEF Tidy
        <4> QED  BY <4>1, <4>2, <1>1, <1>2 DEF Tidy
      <3> QED  BY <3>1, <3>2
    <2>7. \A c \in Cells : Alive(g, c) => c \in Trees(g, (R \ N) \cup D)
      BY <1>2, <1>4
    <2> QED  BY <2>1, <2>2, <2>3, <2>4, <2>5, <2>6, <2>7 DEF Tidy
  <1> QED  BY <1>3, <1>5

\* A new tree at r in the free cells F.
LEMMA GraftTidy ==
  ASSUME NEW h \in Memories, NEW g \in Memories, NEW R, Tidy(h, R),
         NEW F, F \subseteq Cells, NEW r \in F,
         \A c \in F : ~Alive(h, c) /\ Alive(g, c),
         \A c \in Cells \ F : g[c] = h[c],
         \A c \in F : Kids(g, c) \subseteq F \ {r},
         \A c \in F : g[c].child # <<>> => g[c].type \in {"Array", "Object"},
         \A c \in F : IsInjective(g[c].child),
         \A p, q \in F : \A c : c \in Kids(g, p) /\ c \in Kids(g, q) => p = q,
         F \subseteq Trees(g, {r})
  PROVE  /\ \A A : A \subseteq Cells => Trees(h, A) \subseteq Trees(g, A)
         /\ Tidy(g, R \cup {r})
  <1>1. /\ R \subseteq Cells /\ r \in Cells /\ R \cap F = {}
        /\ \A p \in Cells : \A c \in Kids(h, p) : c \in Cells /\ c \notin F /\ c \notin R
    BY KidsAreCells DEF Tidy
  <1>2. \A c \in F : Kids(h, c) = {}
    <2>1. Range(<<>>) = {}
      BY DEF Range
    <2> QED  BY <2>1 DEF Tidy, Kids, Alive
  <1>3. \A c \in Cells \ F : Kids(g, c) = Kids(h, c) /\ (Alive(g, c) <=> Alive(h, c))
    BY DEF Kids, Alive
  <1>4. ASSUME NEW A, A \subseteq Cells PROVE Trees(h, A) \subseteq Trees(g, A)
    <2> DEFINE S == Trees(g, A)
    <2>1. A \subseteq S /\ S \subseteq Cells /\ \A c \in S : Kids(g, c) \subseteq S
      BY <1>4, TreesHold
    <2> HIDE DEF S
    <2>2. \A c \in S : Kids(h, c) \subseteq S
      BY <2>1, <1>2, <1>3
    <2>3. Trees(h, A) \subseteq S
      BY <2>1, <2>2, TreesLeast
    <2> QED  BY <2>3 DEF S
  <1>5. Tidy(g, R \cup {r})
    <2>1. R \cup {r} \subseteq Cells
      BY <1>1
    <2>2. \A x \in R \cup {r} : Alive(g, x)
      BY <1>1, <1>3 DEF Tidy
    <2>3. \A c \in Cells : g[c].child # <<>> => g[c].type \in {"Array", "Object"}
      BY <1>3 DEF Tidy
    <2>4. \A p \in Cells : IsInjective(g[p].child)
      BY DEF Tidy
    <2>5. \A p, q \in Cells : \A c : c \in Kids(g, p) /\ c \in Kids(g, q) => p = q
      <3> SUFFICES ASSUME NEW p \in Cells, NEW q \in Cells, NEW c,
                          c \in Kids(g, p), c \in Kids(g, q)
                   PROVE  p = q
        OBVIOUS
      <3>1. \A x \in Cells : c \in Kids(g, x) => (x \in F <=> c \in F)
        BY <1>1, <1>3
      <3> QED  BY <3>1, <1>3 DEF Tidy
    <2>6. \A p \in Cells : \A c \in Kids(g, p) : c \notin R \cup {r} /\ Alive(g, c)
      <3> SUFFICES ASSUME NEW p \in Cells, NEW c \in Kids(g, p)
                   PROVE  c \notin R \cup {r} /\ Alive(g, c)
        OBVIOUS
      <3>1. CASE p \in F
        BY <3>1, <1>1
      <3>2. CASE p \notin F
        BY <3>2, <1>1, <1>3 DEF Tidy
      <3> QED  BY <3>1, <3>2
    <2>7. ASSUME NEW c \in Cells, Alive(g, c) PROVE c \in Trees(g, R \cup {r})
      <3>1. CASE c \in F
        <4>1. Trees(g, {r}) \subseteq Trees(g, R \cup {r})
          BY <1>1, TreesGrow
        <4> QED  BY <3>1, <4>1
      <3>2. CASE c \notin F
        <4>1. c \in Trees(h, R)
          BY <3>2, <2>7, <1>3 DEF Tidy
        <4>2. Trees(g, R) \subseteq Trees(g, R \cup {r})
          BY <1>1, TreesGrow
        <4> QED  BY <4>1, <4>2, <1>1, <1>4
      <3> QED  BY <3>1, <3>2
    <2> QED  BY <2>1, <2>2, <2>3, <2>4, <2>5, <2>6, <2>7 DEF Tidy
  <1> QED  BY <1>4, <1>5

(***************************************************************************)
(* Sibling lists                                                           *)
(***************************************************************************)
\* The two places cJSON puts a new element
LEMMA ListPut ==
  ASSUME NEW S, NEW list \in Seq(S), IsInjective(list), NEW n \in S, n \notin Range(list),
         NEW new, new \in {Append(list, n), <<n>> \o list}
  PROVE  new \in Seq(S) /\ IsInjective(new) /\ Range(new) = Range(list) \cup {n}
  <1>1. CASE new = Append(list, n)
    <2>1. /\ new \in Seq(S) /\ Len(new) = Len(list) + 1 /\ new[Len(list) + 1] = n
          /\ \A i \in 1..Len(list) : new[i] = list[i]
      BY <1>1
    <2>2. DOMAIN new = 1..(Len(list) + 1) /\ DOMAIN list = 1..Len(list) /\ Len(list) \in Nat
      BY <2>1
    <2> HIDE <1>1
    <2>3. IsInjective(new)
      BY <2>1, <2>2 DEF IsInjective, Range
    <2>4. Range(new) = Range(list) \cup {n}
      BY <2>1, <2>2 DEF Range
    <2> QED  BY <2>1, <2>3, <2>4
  <1>2. CASE new = <<n>> \o list
    <2>1. /\ new \in Seq(S) /\ Len(new) = Len(list) + 1 /\ new[1] = n
          /\ \A i \in 1..Len(list) : new[i + 1] = list[i]
      BY <1>2
    <2>2. DOMAIN new = 1..(Len(list) + 1) /\ DOMAIN list = 1..Len(list) /\ Len(list) \in Nat
      BY <2>1
    <2>3. \A i \in DOMAIN new : i # 1 => i - 1 \in DOMAIN list /\ new[i] = list[i - 1]
      BY <2>1, <2>2
    <2> HIDE <1>2
    <2>4. IsInjective(new)
      <3> SUFFICES ASSUME NEW i \in DOMAIN new, NEW j \in DOMAIN new, new[i] = new[j] PROVE i = j
        BY DEF IsInjective
      <3>1. \A x \in DOMAIN list : list[x] # n
        BY DEF Range
      <3>2. i \in Int /\ j \in Int
        BY <2>2
      <3>3. CASE i = 1
        BY <3>1, <3>3, <2>1, <2>3
      <3>4. CASE j = 1
        BY <3>1, <3>4, <2>1, <2>3
      <3>5. CASE i # 1 /\ j # 1
        <4>1. list[i - 1] = list[j - 1] /\ i - 1 \in DOMAIN list /\ j - 1 \in DOMAIN list
          BY <3>5, <2>3
        <4>2. i - 1 = j - 1
          BY <4>1 DEF IsInjective
        <4> QED  BY <4>2, <3>2
      <3> QED  BY <3>3, <3>4, <3>5
    <2>5. Range(new) = Range(list) \cup {n}
      <3>1. \A x \in Range(new) : x \in Range(list) \cup {n}
        BY <2>1, <2>3 DEF Range
      <3>2. n \in Range(new)
        BY <2>1, <2>2 DEF Range
      <3>3. \A i \in DOMAIN list : i + 1 \in DOMAIN new /\ new[i + 1] = list[i]
        BY <2>1, <2>2
      <3>4. \A x \in Range(list) : x \in Range(new)
        BY <3>3 DEF Range
      <3> QED  BY <3>1, <3>2, <3>4
    <2> QED  BY <2>1, <2>4, <2>5
  <1> QED  BY <1>1, <1>2

\* Detaching takes the item out, and nothing else.
LEMMA ListDetached ==
  ASSUME NEW S, NEW list \in Seq(S), IsInjective(list), NEW n \in Range(list)
  PROVE  /\ Detached(list, n) \in Seq(S) /\ IsInjective(Detached(list, n))
         /\ Range(Detached(list, n)) = Range(list) \ {n}
  <1> DEFINE at == CHOOSE i \in DOMAIN list : list[i] = n
             new == Detached(list, n)
  <1>1. at \in DOMAIN list /\ list[at] = n
    BY DEF Range
  <1>2. new = [i \in 1..(Len(list) - 1) |-> list[IF i < at THEN i ELSE i + 1]]
    BY DEF Detached
  <1>3. Len(list) \in Nat /\ DOMAIN list = 1..Len(list)
    OBVIOUS
  <1> HIDE DEF at, new
  <1>4. DOMAIN new = 1..(Len(list) - 1) /\ at \in 1..Len(list) /\ Len(list) - 1 \in Nat
    BY <1>1, <1>2, <1>3
  <1>5. \A i \in DOMAIN new : /\ i < at => i \in DOMAIN list /\ new[i] = list[i]
                              /\ ~(i < at) => i + 1 \in DOMAIN list /\ new[i] = list[i + 1]
    BY <1>2, <1>3, <1>4
  <1>6. new \in Seq(S)
    <2>1. \A i \in DOMAIN new : new[i] \in S
      BY <1>5
    <2> QED  BY <2>1, <1>2, <1>4
  <1>7. IsInjective(new)
    <2> SUFFICES ASSUME NEW i \in DOMAIN new, NEW j \in DOMAIN new, new[i] = new[j] PROVE i = j
      BY DEF IsInjective
    <2>1. i \in Int /\ j \in Int /\ at \in Int
      BY <1>4
    <2>2. CASE i < at /\ j < at
      BY <2>2, <1>5 DEF IsInjective
    <2>3. CASE i < at /\ ~(j < at)
      <3>1. i = j + 1
        BY <2>3, <1>5 DEF IsInjective
      <3> QED  BY <3>1, <2>3, <2>1
    <2>4. CASE ~(i < at) /\ j < at
      <3>1. i + 1 = j
        BY <2>4, <1>5 DEF IsInjective
      <3> QED  BY <3>1, <2>4, <2>1
    <2>5. CASE ~(i < at) /\ ~(j < at)
      <3>1. i + 1 = j + 1
        BY <2>5, <1>5 DEF IsInjective
      <3> QED  BY <3>1, <2>1
    <2> QED  BY <2>2, <2>3, <2>4, <2>5
  <1>8. \A x \in Range(new) : x \in Range(list) /\ x # n
    <2> SUFFICES ASSUME NEW i \in DOMAIN new PROVE new[i] \in Range(list) /\ new[i] # n
      BY DEF Range
    <2>1. i \in Int /\ at \in Int
      BY <1>4
    <2>2. CASE i < at
      <3>1. i # at /\ i \in DOMAIN list /\ new[i] = list[i]
        BY <2>1, <2>2, <1>5
      <3> QED  BY <3>1, <1>1 DEF IsInjective, Range
    <2>3. CASE ~(i < at)
      <3>1. i + 1 # at /\ i + 1 \in DOMAIN list /\ new[i] = list[i + 1]
        BY <2>1, <2>3, <1>5
      <3> QED  BY <3>1, <1>1 DEF IsInjective, Range
    <2> QED  BY <2>2, <2>3
  <1>9. \A x \in Range(list) \ {n} : x \in Range(new)
    <2> SUFFICES ASSUME NEW i \in DOMAIN list, i # at PROVE list[i] \in Range(new)
      BY <1>1 DEF Range
    <2>1. CASE i < at
      <3>1. i \in DOMAIN new /\ new[i] = list[i]
        BY <2>1, <1>2, <1>3, <1>4
      <3> QED  BY <3>1 DEF Range
    <2>2. CASE ~(i < at)
      <3>1. i - 1 \in DOMAIN new /\ ~(i - 1 < at) /\ i - 1 + 1 = i
        BY <2>2, <1>3, <1>4
      <3>2. new[i - 1] = list[i]
        BY <3>1, <1>5
      <3> QED  BY <3>1, <3>2 DEF Range
    <2> QED  BY <2>1, <2>2
  <1>10. Range(new) = Range(list) \ {n}
    BY <1>8, <1>9
  <1> QED  BY <1>6, <1>7, <1>10 DEF new

\* Replacing puts the new item where the old one was.
LEMMA ListReplaced ==
  ASSUME NEW S, NEW list \in Seq(S), IsInjective(list), NEW n \in Range(list),
         NEW m \in S, m \notin Range(list), NEW new,
         new = [i \in DOMAIN list |-> IF list[i] = n THEN m ELSE list[i]]
  PROVE  new \in Seq(S) /\ IsInjective(new) /\ Range(new) = (Range(list) \ {n}) \cup {m}
  <1>1. DOMAIN new = DOMAIN list /\ DOMAIN list = 1..Len(list) /\ Len(list) \in Nat
    OBVIOUS
  <1>2. \A i \in DOMAIN list : /\ list[i] = n => new[i] = m
                               /\ list[i] # n => new[i] = list[i]
    OBVIOUS
  <1>3. new \in Seq(S)
    <2>1. \A i \in DOMAIN new : new[i] \in S
      BY <1>1, <1>2
    <2> QED  BY <2>1, <1>1
  <1>4. IsInjective(new)
    BY <1>1, <1>2 DEF IsInjective, Range
  <1>5. \A x \in Range(new) : x \in (Range(list) \ {n}) \cup {m}
    BY <1>1, <1>2 DEF Range
  <1>6. \A x \in (Range(list) \ {n}) \cup {m} : x \in Range(new)
    BY <1>1, <1>2 DEF Range
  <1> QED  BY <1>3, <1>4, <1>5, <1>6

(***************************************************************************)
(* The functions of cJSON.c                                                *)
(***************************************************************************)
\* What is left of the trees at A is in the trees at B.
Keeps(h, g, A, B) == \A c \in Trees(h, A) : Alive(g, c) => c \in Trees(g, B)

\* An item that is there keeps its type, and the free cells are free.
Retyped(h, g) == \A c \in Cells : g[c].type \in {h[c].type, "freed"}

\* Giving an item other children, or another key
WithChildren(h, a, list) == [h EXCEPT ![a].child = list]

WithString(h, n, k) == [h EXCEPT ![n].string = k]

Relisted(h, g, a, list) ==
  /\ g[a].child = list
  /\ \A c \in Cells : g[c].type = h[c].type /\ (c # a => g[c].child = h[c].child)

\* An item gets another list of children.
LEMMA ChildrenGiven ==
  ASSUME NEW h \in Memories, NEW a \in Cells, NEW list \in Seq(Cells),
         NEW g, g = WithChildren(h, a, list)
  PROVE  g \in Memories /\ Relisted(h, g, a, list)
  BY DEF Item, Memories, WithChildren, Relisted

\* An item gets another key.
LEMMA StringGiven ==
  ASSUME NEW h \in Memories, NEW n \in Cells, NEW k \in Keys, NEW g, g = WithString(h, n, k)
  PROVE  /\ g \in Memories
         /\ \A c \in Cells : g[c].type = h[c].type /\ g[c].child = h[c].child
  BY DEF Item, Memories, WithString

\* Either way nothing is relinked but the children of a.
LEMMA BothGiven ==
  ASSUME NEW h \in Memories, NEW a \in Cells, NEW n \in Cells, NEW k \in Keys,
         NEW list \in Seq(Cells), NEW g,
         \/ g = WithChildren(h, a, list)
         \/ g = WithChildren(WithString(h, n, k), a, list)
  PROVE  g \in Memories /\ Relisted(h, g, a, list)
  <1>1. CASE g = WithChildren(h, a, list)
    BY <1>1, ChildrenGiven
  <1>2. CASE g = WithChildren(WithString(h, n, k), a, list)
    <2>1. PICK f : f = WithString(h, n, k)
      OBVIOUS
    <2>2. /\ f \in Memories
          /\ \A c \in Cells : f[c].type = h[c].type /\ f[c].child = h[c].child
      BY <2>1, StringGiven
    <2>3. g \in Memories /\ Relisted(f, g, a, list)
      BY <1>2, <2>1, <2>2, ChildrenGiven
    <2> QED  BY <2>2, <2>3 DEF Relisted
  <1> QED  BY <1>1, <1>2

\* Adding the root n to a, an array or object that is not below n
LEMMA AddTidy ==
  ASSUME NEW h \in Memories, NEW R, Tidy(h, R),
         NEW a \in Cells, h[a].type \in {"Array", "Object"},
         NEW n \in R, a \notin Trees(h, {n}), NEW g,
         \/ g = AddItemToArray(h, a, n)
         \/ g = AddItemToArrayHead(h, a, n)
         \/ \E k \in Keys : g = AddItemToObject(h, a, k, n)
  PROVE  /\ g \in Memories /\ Retyped(h, g) /\ Tidy(g, R \ {n})
         /\ \A A : A \subseteq Cells => Keeps(h, g, A, A)
  <1>1. n \in Cells /\ n \notin Kids(h, a) /\ h[a].child \in Seq(Cells) /\ IsInjective(h[a].child)
    BY KidsAreCells DEF Tidy
  <1>2. PICK list \in {Append(h[a].child, n), <<n>> \o h[a].child} :
          \/ g = WithChildren(h, a, list)
          \/ \E k \in Keys : g = WithChildren(WithString(h, n, k), a, list)
    <2>1. n # a
      BY <1>1, TreesHold
    <2>2. \A k : WithString(h, n, k)[a].child = h[a].child
      BY <1>1, <2>1 DEF WithString, Memories
    <2> QED  BY <2>1, <2>2 DEF AddItemToArray, AddItemToArrayHead, AddItemToObject, WithChildren, WithString
  <1>3. list \in Seq(Cells) /\ IsInjective(list) /\ Range(list) = Kids(h, a) \cup {n}
    <2>1. n \notin Range(h[a].child)
      BY <1>1 DEF Kids
    <2>2. PICK old : old = h[a].child
      OBVIOUS
    <2>3. list \in {Append(old, n), <<n>> \o old} /\ old \in Seq(Cells) /\ IsInjective(old) /\ n \notin Range(old)
      BY <1>1, <2>1, <2>2
    <2>4. list \in Seq(Cells) /\ IsInjective(list) /\ Range(list) = Range(old) \cup {n}
      BY <1>1, <2>3, ListPut
    <2> QED  BY <2>2, <2>4 DEF Kids
  <1>4. g \in Memories /\ Relisted(h, g, a, list)
    BY <1>1, <1>2, <1>3, ChildrenGiven, BothGiven
  <1>5. /\ \A A : A \subseteq Cells => Trees(h, A) \subseteq Trees(g, A \cup {})
        /\ Tidy(g, (R \ {n}) \cup {})
    <2>1. Kids(g, a) = (Kids(h, a) \ {}) \cup {n}
      BY <1>3, <1>4 DEF Kids, Relisted
    <2> QED  BY <1>3, <1>4, <2>1, RelinkTidy DEF Relisted
  <1>6. (R \ {n}) \cup {} = R \ {n} /\ \A A : A \cup {} = A
    OBVIOUS
  <1> QED  BY <1>4, <1>5, <1>6 DEF Keeps, Retyped, Relisted

\* What is unlinked and deleted, after something may have been put in its place
LEMMA UnlinkTidy ==
  ASSUME NEW h \in Memories, NEW f \in Memories, NEW R, NEW n, NEW N,
         Tidy(h, R), N \subseteq R, n \in Cells, n \notin R,
         Tidy(f, (R \ N) \cup {n}),
         \A c \in Cells : f[c].type = h[c].type,
         \A A : A \subseteq Cells => Trees(h, A) \subseteq Trees(f, A \cup {n}),
         NEW g, g = Delete(f, {n})
  PROVE  /\ g \in Memories /\ Retyped(h, g) /\ Tidy(g, R \ N)
         /\ \A A : A \subseteq R \ N => Keeps(h, g, A, A)
  <1> DEFINE Q == (R \ N) \cup {n}
  <1>1. {n} \subseteq Q /\ Q \ {n} = R \ N /\ R \subseteq Cells /\ Tidy(f, Q)
    BY DEF Tidy
  <1> HIDE DEF Q
  <1>2. /\ g \in Memories
        /\ \A c \in Cells : /\ Alive(g, c) <=> Alive(f, c) /\ c \notin Trees(f, {n})
                            /\ c \notin Trees(f, {n}) => g[c] = f[c]
        /\ \A A : A \subseteq Q => Trees(f, A) \ Trees(f, {n}) \subseteq Trees(g, A \ {n})
        /\ Tidy(g, Q \ {n})
    <2>1. g \in Memories /\ Dropped(f, g, Q, {n}) /\ Tidy(g, Q \ {n})
      BY <1>1, DropTidy
    <2> QED  BY <2>1 DEF Dropped
  <1>3. Retyped(h, g)
    BY <1>2 DEF Retyped, Alive
  <1>4. ASSUME NEW A, A \subseteq R \ N PROVE Keeps(h, g, A, A)
    <2>1. A \cup {n} \subseteq Q /\ (A \cup {n}) \ {n} = A /\ A \subseteq Cells
      BY <1>1, <1>4 DEF Q
    <2>2. Trees(f, A \cup {n}) \ Trees(f, {n}) \subseteq Trees(g, A)
      BY <2>1, <1>2
    <2>3. Trees(h, A) \subseteq Trees(f, A \cup {n}) /\ Trees(h, A) \subseteq Cells
      BY <2>1, TreesHold
    <2> QED  BY <2>2, <2>3, <1>2 DEF Keeps
  <1> QED  BY <1>1, <1>2, <1>3, <1>4

\* Deleting the element n of a
LEMMA DeleteItemTidy ==
  ASSUME NEW h \in Memories, NEW R, Tidy(h, R),
         NEW a \in Cells, h[a].type \in {"Array", "Object"}, NEW n, n = NULL \/ n \in Kids(h, a),
         NEW g, g = DeleteItem(h, a, n)
  PROVE  /\ g \in Memories /\ Retyped(h, g) /\ Tidy(g, R)
         /\ \A A : A \subseteq R => Keeps(h, g, A, A)
  <1>1. CASE n = NULL
    BY <1>1 DEF DeleteItem, Keeps, Retyped
  <1>2. CASE n \in Kids(h, a)
    <2>1. n \in Cells /\ n \notin R /\ n # NULL /\ h[a].child \in Seq(Cells) /\ IsInjective(h[a].child)
      BY <1>2, KidsAreCells, CellsAssumption DEF Tidy
    <2>2. PICK list : list = Detached(h[a].child, n)
      OBVIOUS
    <2>3. list \in Seq(Cells) /\ IsInjective(list) /\ Range(list) = Kids(h, a) \ {n}
      BY <1>2, <2>1, <2>2, ListDetached DEF Kids
    <2>4. PICK f : f = WithChildren(h, a, list) /\ g = Delete(f, {n})
      BY <2>1, <2>2 DEF DeleteItem, WithChildren
    <2>7. f \in Memories /\ Relisted(h, f, a, list)
      BY <2>3, <2>4, ChildrenGiven
    <2>5. /\ \A A : A \subseteq Cells => Trees(h, A) \subseteq Trees(f, A \cup {n})
          /\ Tidy(f, (R \ {}) \cup {n})
      <3>1. /\ {} \subseteq R /\ {n} \subseteq Kids(h, a)
            /\ Kids(f, a) = (Kids(h, a) \ {n}) \cup {}
        BY <1>2, <2>3, <2>7 DEF Kids, Relisted
      <3>2. a \notin Trees(h, {})
        <4>1. Trees(h, {}) \subseteq {}
          BY TreesLeast
        <4> QED  BY <4>1
      <3> QED  BY <2>3, <2>7, <3>1, <3>2, RelinkTidy DEF Relisted
    <2>6. R \ {} = R /\ {} \subseteq R
      OBVIOUS
    <2>8. Tidy(f, (R \ {}) \cup {n}) /\ \A c \in Cells : f[c].type = h[c].type
      BY <2>5, <2>7 DEF Relisted
    <2>9. /\ g \in Memories /\ Retyped(h, g) /\ Tidy(g, R \ {})
          /\ \A A : A \subseteq R \ {} => Keeps(h, g, A, A)
      BY <2>1, <2>4, <2>5, <2>6, <2>7, <2>8, UnlinkTidy
    <2> QED  BY <2>6, <2>9
  <1> QED  BY <1>1, <1>2

\* Replacing the element n of a by the root m, which a is not below
LEMMA ReplaceItemTidy ==
  ASSUME NEW h \in Memories, NEW R, Tidy(h, R),
         NEW a \in Cells, h[a].type \in {"Array", "Object"}, NEW n \in Kids(h, a),
         NEW m \in R, a \notin Trees(h, {m}),
         NEW g, \/ g = ReplaceItem(h, a, n, m)
                \/ \E k \in Keys : g = ReplaceItem([h EXCEPT ![m].string = k], a, n, m)
  PROVE  /\ g \in Memories /\ Retyped(h, g) /\ Tidy(g, R \ {m})
         /\ \A A : A \subseteq R \ {m} => Keeps(h, g, A, A)
  <1>1. /\ n \in Cells /\ n \notin R /\ n # NULL
        /\ m \in Cells /\ m \notin Kids(h, a) /\ m # a
        /\ h[a].child \in Seq(Cells) /\ IsInjective(h[a].child)
    BY KidsAreCells, CellsAssumption, TreesHold DEF Tidy
  <1>2. PICK list : list = [i \in DOMAIN h[a].child |-> IF h[a].child[i] = n THEN m ELSE h[a].child[i]]
    OBVIOUS
  <1>3. list \in Seq(Cells) /\ IsInjective(list) /\ Range(list) = (Kids(h, a) \ {n}) \cup {m}
    BY <1>1, <1>2, ListReplaced DEF Kids
  <1>4. PICK f : /\ g = Delete(f, {n})
                 /\ \/ f = WithChildren(h, a, list)
                    \/ \E k \in Keys : f = WithChildren(WithString(h, m, k), a, list)
    <2>1. \A k : WithString(h, m, k)[a].child = h[a].child
      BY <1>1 DEF WithString, Memories
    <2> QED  BY <1>1, <1>2, <2>1 DEF ReplaceItem, WithChildren, WithString
  <1>6. f \in Memories /\ Relisted(h, f, a, list)
    BY <1>1, <1>3, <1>4, ChildrenGiven, BothGiven
  <1>5. /\ \A A : A \subseteq Cells => Trees(h, A) \subseteq Trees(f, A \cup {n})
        /\ Tidy(f, (R \ {m}) \cup {n})
    <2>1. /\ {m} \subseteq R /\ {n} \subseteq Kids(h, a)
          /\ Kids(f, a) = (Kids(h, a) \ {n}) \cup {m}
      BY <1>3, <1>6 DEF Kids, Relisted
    <2> QED  BY <1>3, <1>6, <2>1, RelinkTidy DEF Relisted
  <1>7. \A c \in Cells : f[c].type = h[c].type
    BY <1>6 DEF Relisted
  <1>8. PICK N : N = {m}
    OBVIOUS
  <1>9. N \subseteq R /\ Tidy(f, (R \ N) \cup {n})
    BY <1>5, <1>8
  <1>10. \A A : A \subseteq Cells => Trees(h, A) \subseteq Trees(f, A \cup {n})
    BY <1>5
  <1>11. /\ g \in Memories /\ Retyped(h, g) /\ Tidy(g, R \ N)
         /\ \A A : A \subseteq R \ N => Keeps(h, g, A, A)
    BY <1>1, <1>4, <1>6, <1>7, <1>9, <1>10, UnlinkTidy
  <1> QED  BY <1>8, <1>11

(***************************************************************************)
(* New items                                                               *)
(***************************************************************************)
\* The memory g is h with something new in the cells F.
Grown(h, g, F) ==
  /\ \A c \in Cells \ F : g[c] = h[c]
  /\ \A A : A \subseteq Cells => Trees(h, A) \subseteq Trees(g, A)

\* A new item, by itself
LEMMA NewTidy ==
  ASSUME NEW h \in Memories, NEW R, Tidy(h, R), NEW n \in Cells, ~Alive(h, n),
         NEW item \in Item, item.type # "freed", item.child = <<>>,
         NEW g, g = [h EXCEPT ![n] = item]
  PROVE  /\ g \in Memories /\ g[n] = item /\ Grown(h, g, {n}) /\ Tidy(g, R \cup {n})
  <1>1. /\ g \in Memories /\ g[n] = item
        /\ \A c \in Cells \ {n} : g[c] = h[c]
    BY DEF Memories
  <1>2. Kids(g, n) = {} /\ IsInjective(g[n].child) /\ Alive(g, n)
    BY <1>1 DEF Kids, Range, IsInjective, Alive
  <1>3. PICK F : F = {n}
    OBVIOUS
  <1>4. n \in Trees(g, {n})
    BY <1>1, TreesHold
  <1>5. /\ F \subseteq Cells /\ n \in F /\ F \subseteq Trees(g, {n})
        /\ \A c \in Cells \ F : g[c] = h[c]
        /\ \A c \in F : c = n
    BY <1>1, <1>3, <1>4
  <1>6. /\ \A c \in F : ~Alive(h, c) /\ Alive(g, c) /\ Kids(g, c) \subseteq F \ {n}
        /\ \A c \in F : IsInjective(g[c].child) /\ g[c].child = <<>>
        /\ \A p, q \in F : p = q
    BY <1>1, <1>2, <1>5
  <1>7. /\ \A A : A \subseteq Cells => Trees(h, A) \subseteq Trees(g, A)
        /\ Tidy(g, R \cup {n})
    BY <1>1, <1>5, <1>6, GraftTidy
  <1> QED  BY <1>1, <1>3, <1>5, <1>7 DEF Grown

\* Where there is room the new cells are found, each its own.
LEMMA Allocated ==
  ASSUME NEW S, NEW free, IsFiniteSet(S), IsFiniteSet(free), Cardinality(S) <= Cardinality(free)
  PROVE  Allocate(S, free) \in [S -> free] /\ IsInjective(Allocate(S, free))
  <1>1. PICK m \in Nat, n \in Nat :
          m = Cardinality(S) /\ n = Cardinality(free)
            /\ ExistsBijection(1..m, S) /\ ExistsBijection(1..n, free)
    BY FS_CardinalityType
  <1>2. ExistsInjection(S, 1..m)
    BY <1>1, Fun_ExistsBijSymmetric DEF ExistsBijection, ExistsInjection, Bijection
  <1>3. ExistsInjection(1..m, 1..n)
    BY <1>1, Fun_NatInjLeq
  <1>4. ExistsInjection(1..n, free)
    BY <1>1 DEF ExistsBijection, ExistsInjection, Bijection
  <1>5. ExistsInjection(S, free)
    BY <1>2, <1>3, <1>4, Fun_ExistsInjTransitive
  <1> QED  BY <1>5 DEF ExistsInjection, Injection, Allocate

\* An integer converted is of the type.
LEMMA CastType ==
  ASSUME NEW v \in Int
  PROVE  /\ Cast("int64", v) \in Int64 /\ Cast("uint64", v) \in 0..(M64 - 1)
         /\ Cast("int32", v) \in Int64
  <1>1. M64 \in Nat /\ M64 > 0 /\ M64 = 2 * (M64 \div 2) /\ M64 \div 2 \in Nat
    BY WidthAssumption
  <1>2. v % M64 \in 0..(M64 - 1)
    BY <1>1
  <1>3. M32 \in Nat /\ M32 > 0 /\ M32 = 2 * (M32 \div 2) /\ M32 \div 2 \in Nat /\ M32 \div 2 < M64 \div 2
    BY WidthAssumption
  <1>4. v % M32 \in 0..(M32 - 1)
    BY <1>3
  <1>5. Cast("int64", v) \in Int64
    BY <1>1, <1>2 DEF Cast, Signed, Int64
  <1>6. Cast("int32", v) \in Int64
    BY <1>1, <1>3, <1>4 DEF Cast, Signed, Int64
  <1> QED  BY <1>1, <1>2, <1>5, <1>6 DEF Cast, Unsigned

\* The inverse of an injection
LEMMA AntiOf ==
  ASSUME NEW S, NEW f, DOMAIN f = S, IsInjective(f)
  PROVE  /\ DOMAIN AntiFunction(f) = Range(f)
         /\ \A s \in S : f[s] \in Range(f) /\ AntiFunction(f)[f[s]] = s
         /\ \A t \in Range(f) : AntiFunction(f)[t] \in S /\ f[AntiFunction(f)[t]] = t
  <1>1. AntiFunction(f) = [t \in Range(f) |-> CHOOSE s \in S : t \in Range(f) => f[s] = t]
    BY DEF AntiFunction, Inverse
  <1>2. \A t \in Range(f) : AntiFunction(f)[t] \in S /\ f[AntiFunction(f)[t]] = t
    <2> SUFFICES ASSUME NEW t \in Range(f) PROVE AntiFunction(f)[t] \in S /\ f[AntiFunction(f)[t]] = t
      OBVIOUS
    <2>1. \E s \in S : t \in Range(f) => f[s] = t
      BY DEF Range
    <2>2. AntiFunction(f)[t] = CHOOSE s \in S : t \in Range(f) => f[s] = t
      BY <1>1
    <2> QED  BY <2>1, <2>2
  <1>3. \A s \in S : f[s] \in Range(f)
    BY DEF Range
  <1>4. \A s \in S : AntiFunction(f)[f[s]] = s
    BY <1>2, <1>3 DEF IsInjective
  <1> QED  BY <1>1, <1>2, <1>3, <1>4

\* An item printed and parsed again is an item, and a container stays one.
LEMMA ReparsedItem ==
  ASSUME NEW item \in Item, item.type # "freed"
  PROVE  /\ Reparsed(item) \in Item /\ Reparsed(item).type # "freed"
         /\ item.type \in {"Array", "Object"} => Reparsed(item).type = item.type
  <1>1. CASE IsNumber(item)
    <2> DEFINE t == PrintNumber(item)
               n == Cast("int64", t.digits)
               sign == IF t.neg THEN -1 ELSE 1
    <2>1. /\ item.valueint \in Int /\ item.valuedouble \in Int /\ item.number \in Int
          /\ item.valueint \in Int64 /\ item.type \notin {"Array", "Object"}
      <3>1. item.valueint \in Int64 /\ item.valuedouble \in Int /\ item.number \in Int
        BY DEF Item
      <3>2. item.valueint \in Int
        BY <3>1, WidthAssumption DEF Int64
      <3> QED  BY <1>1, <3>1, <3>2 DEF IsNumber
    <2>2. t.digits \in Int /\ t.half \in {0, 1, NoFraction} /\ t.exp = 0 /\ t.neg \in BOOLEAN
      <3>1. CASE item.type = "Int"
        <4>1. Cast("uint64", item.valueint) \in Int
          BY <2>1, CastType
        <4> QED  BY <3>1, <4>1, <2>1 DEF PrintNumber, PrintInt, Text, Abs, NoFraction
      <3>2. CASE item.type # "Int"
        BY <3>2, <2>1 DEF PrintNumber, PrintDouble, Text, Abs, NoFraction
      <3> QED  BY <3>1, <3>2
    <2> HIDE DEF t
    <2>3. n \in Int64 /\ n \in Int /\ sign \in {-1, 1}
      BY <2>2, CastType DEF Int64
    <2>4. sign * n \in Int
      BY <2>3
    <2>5. Cast("int64", sign * n) \in Int64
      BY <2>4, CastType
    <2> DEFINE value == 2 * n + (IF t.half = NoFraction THEN 0 ELSE t.half)
               new == [ParseNumber(t) EXCEPT !.number = item.number]
    <2>6. sign * value \in Int
      BY <2>2, <2>3 DEF NoFraction
    <2>7. ParseNumber(t) =
            LET it == [NewItem EXCEPT !.valuedouble = sign * value, !.sign = sign, !.number = Denotes(t)]
            IN  IF t.half = NoFraction
                THEN [it EXCEPT !.type = "Int", !.valueint = Cast("int64", sign * n)]
                ELSE [it EXCEPT !.type = "Double", !.valueint = n]
      BY <2>2 DEF ParseNumber
    <2> HIDE DEF n, sign, value
    <2>8. new \in Item /\ new.type \in {"Int", "Double"}
      <3>1. PICK it : it = [NewItem EXCEPT !.valuedouble = sign * value, !.sign = sign, !.number = Denotes(t)]
        OBVIOUS
      <3>3. CASE t.half = NoFraction
        <4>1. PICK int \in Int64 : ParseNumber(t) = [it EXCEPT !.type = "Int", !.valueint = int]
          BY <2>7, <3>1, <3>3, <2>5
        <4> QED  BY <3>1, <4>1, <2>1, <2>3, <2>6, ItemsMade DEF Item, Types
      <3>4. CASE t.half # NoFraction
        <4>1. ParseNumber(t) = [it EXCEPT !.type = "Double", !.valueint = n]
          BY <2>7, <3>1, <3>4
        <4> QED  BY <3>1, <4>1, <2>1, <2>3, <2>6, ItemsMade DEF Item, Types
      <3> QED  BY <3>3, <3>4
    <2>9. Reparsed(item) = new
      BY <1>1 DEF Reparsed, t
    <2> QED  BY <2>1, <2>8, <2>9
  <1>2. CASE ~IsNumber(item)
    <2>1. Reparsed(item) = [item EXCEPT !.sign = 0, !.valueint = IF item.type = "True" THEN 1 ELSE 0]
      BY <1>2 DEF Reparsed
    <2>2. 0 \in Int64 /\ 1 \in Int64
      BY WidthAssumption DEF Int64
    <2> QED  BY <2>1, <2>2 DEF Item
  <1> QED  BY <1>1, <1>2

\* The item of a copy, under the key k, with the children list
CopyOf(item, k, list) == [Reparsed(item) EXCEPT !.string = k, !.child = list]

\* A copy is an item, with the children it is given.
LEMMA CopiedItem ==
  ASSUME NEW item \in Item, item.type # "freed", NEW k \in Keys \cup {NoKey},
         NEW list \in Seq(Cells), NEW new,
         new = CopyOf(item, k, list)
  PROVE  /\ new \in Item /\ new.type # "freed" /\ new.child = list
         /\ item.type \in {"Array", "Object"} => new.type = item.type
  <1>1. PICK it \in Item : it = Reparsed(item)
    BY ReparsedItem
  <1>2. /\ it.type # "freed"
        /\ item.type \in {"Array", "Object"} => it.type = item.type
    BY <1>1, ReparsedItem
  <1>3. new = [it EXCEPT !.string = k, !.child = list]
    BY <1>1 DEF CopyOf
  <1> QED  BY <1>2, <1>3 DEF Item

\* The copy of the tree at n is a new tree, in cells of its own.
LEMMA CopyTidy ==
  ASSUME NEW h \in Memories, NEW R, Tidy(h, R), NEW n \in Cells, Alive(h, n),
         NEW free, free \subseteq {c \in Cells : ~Alive(h, c)},
         Cardinality(Trees(h, {n})) <= Cardinality(free),
         NEW g, g = Copy(h, n, free), NEW r, r = CopyCell(h, n, free)[n]
  PROVE  /\ g \in Memories /\ r \in free /\ Alive(g, r)
         /\ Grown(h, g, free) /\ Tidy(g, R \cup {r})
  <1>1. PICK T : T = Trees(h, {n})
    OBVIOUS
  <1>2. /\ T \subseteq Cells /\ n \in T
        /\ \A m \in T : Kids(h, m) \subseteq T
    BY <1>1, TreesHold
  <1>3. PICK at : at = Allocate(T, free)
    OBVIOUS
  <1>4. at \in [T -> free] /\ IsInjective(at)
    <2>1. IsFiniteSet(T) /\ IsFiniteSet(free)
      BY <1>2, FS_Subset, CellsAssumption
    <2> QED  BY <2>1, <1>1, <1>3, Allocated
  <1>5. PICK F : F = Range(at)
    OBVIOUS
  <1>6. /\ DOMAIN AntiFunction(at) = F
        /\ \A m \in T : at[m] \in F /\ AntiFunction(at)[at[m]] = m
        /\ \A c \in F : AntiFunction(at)[c] \in T /\ at[AntiFunction(at)[c]] = c
    BY <1>4, <1>5, AntiOf
  <1>7. F \subseteq free /\ free \subseteq Cells /\ r \in F /\ r = at[n]
    <2>1. CopyCell(h, n, free) = at
      BY <1>1, <1>3 DEF CopyCell
    <2> QED  BY <1>2, <1>4, <1>6, <2>1
  <1> DEFINE Key(m) == IF m = n THEN NoKey ELSE h[m].string
             List(m) == [i \in DOMAIN h[m].child |-> at[h[m].child[i]]]
             Copied(m) == [Reparsed(h[m]) EXCEPT !.string = Key(m), !.child = List(m)]
  <1>8. g = [c \in Cells |-> IF c \in F THEN Copied(AntiFunction(at)[c]) ELSE h[c]]
    BY <1>1, <1>3, <1>6 DEF Copy, CopyCell
  <1>9. \A m \in T : Alive(h, m)
    <2>1. {c \in Cells : Alive(h, c)} \subseteq Cells /\ {n} \subseteq {c \in Cells : Alive(h, c)}
      OBVIOUS
    <2>2. \A c \in {d \in Cells : Alive(h, d)} : Kids(h, c) \subseteq {d \in Cells : Alive(h, d)}
      BY KidsAreCells DEF Tidy
    <2>3. T \subseteq {c \in Cells : Alive(h, c)}
      BY <1>1, <2>1, <2>2, TreesLeast
    <2> QED  BY <2>3
  <1>10. \A m \in T : /\ List(m) \in Seq(Cells) /\ IsInjective(List(m))
                      /\ Range(List(m)) = {at[d] : d \in Kids(h, m)}
                      /\ List(m) # <<>> => h[m].child # <<>>
    <2> SUFFICES ASSUME NEW m \in T
                 PROVE  /\ List(m) \in Seq(Cells) /\ IsInjective(List(m))
                        /\ Range(List(m)) = {at[d] : d \in Kids(h, m)}
                        /\ List(m) # <<>> => h[m].child # <<>>
      OBVIOUS
    <2>1. PICK old \in Seq(Cells) : old = h[m].child
      BY <1>2, KidsAreCells
    <2>2. Range(old) \subseteq T /\ IsInjective(old) /\ Range(old) = Kids(h, m)
      BY <1>2, <2>1 DEF Kids, Tidy
    <2>3. PICK new : new = List(m)
      OBVIOUS
    <2>4. new = [i \in 1..Len(old) |-> at[old[i]]] /\ DOMAIN old = 1..Len(old) /\ Len(old) \in Nat
      BY <2>1, <2>3
    <2>5. \A i \in 1..Len(old) : old[i] \in T /\ at[old[i]] \in free
      BY <2>2, <2>4, <1>4 DEF Range
    <2>6. new \in Seq(Cells)
      BY <2>4, <2>5, <1>7
    <2>7. IsInjective(new)
      BY <2>2, <2>4, <2>5, <1>4 DEF IsInjective
    <2>8. Range(new) = {at[d] : d \in Range(old)}
      BY <2>4 DEF Range
    <2>9. new # <<>> => old # <<>>
      BY <2>4
    <2> QED  BY <2>1, <2>2, <2>3, <2>6, <2>7, <2>8, <2>9
  <1>11. \A m \in T : /\ Copied(m) \in Item /\ Copied(m).type # "freed" /\ Copied(m).child = List(m)
                      /\ h[m].type \in {"Array", "Object"} => Copied(m).type = h[m].type
    <2> SUFFICES ASSUME NEW m \in T
                 PROVE  /\ Copied(m) \in Item /\ Copied(m).type # "freed" /\ Copied(m).child = List(m)
                        /\ h[m].type \in {"Array", "Object"} => Copied(m).type = h[m].type
      OBVIOUS
    <2>1. h[m] \in Item /\ h[m].type # "freed"
      BY <1>2, <1>9 DEF Memories, Alive
    <2>2. Key(m) \in Keys \cup {NoKey} /\ List(m) \in Seq(Cells)
      BY <2>1, <1>10 DEF Item
    <2>3. PICK item \in Item, k \in Keys \cup {NoKey}, list \in Seq(Cells) :
            item = h[m] /\ k = Key(m) /\ list = List(m)
      BY <2>1, <2>2
    <2>4. PICK new : new = CopyOf(item, k, list)
      OBVIOUS
    <2>5. /\ new \in Item /\ new.type # "freed" /\ new.child = list
          /\ item.type \in {"Array", "Object"} => new.type = item.type
      BY <2>1, <2>3, <2>4, CopiedItem
    <2> QED  BY <2>3, <2>4, <2>5 DEF CopyOf
  <1> HIDE DEF Key, List, Copied
  <1>12. /\ \A c \in Cells \ F : g[c] = h[c]
         /\ \A m \in T : g[at[m]] = Copied(m)
    BY <1>6, <1>7, <1>8
  <1>13. g \in Memories
    <2>1. \A c \in Cells : h[c] \in Item
      BY DEF Memories
    <2> QED  BY <2>1, <1>6, <1>8, <1>11 DEF Memories
  <1>14. \A m \in T : /\ Kids(g, at[m]) = {at[d] : d \in Kids(h, m)}
                      /\ IsInjective(g[at[m]].child) /\ Alive(g, at[m])
                      /\ g[at[m]].child # <<>> => g[at[m]].type \in {"Array", "Object"}
    <2> SUFFICES ASSUME NEW m \in T
                 PROVE  /\ Kids(g, at[m]) = {at[d] : d \in Kids(h, m)}
                        /\ IsInjective(g[at[m]].child) /\ Alive(g, at[m])
                        /\ g[at[m]].child # <<>> => g[at[m]].type \in {"Array", "Object"}
      OBVIOUS
    <2>1. g[at[m]].child = List(m) /\ g[at[m]].type = Copied(m).type /\ Copied(m).type # "freed"
      BY <1>11, <1>12
    <2>2. h[m].child # <<>> => h[m].type \in {"Array", "Object"}
      BY <1>2 DEF Tidy
    <2>3. h[m].type \in {"Array", "Object"} => Copied(m).type = h[m].type
      BY <1>11
    <2>4. Kids(g, at[m]) = {at[d] : d \in Kids(h, m)} /\ IsInjective(g[at[m]].child)
      BY <2>1, <1>10 DEF Kids
    <2>5. g[at[m]].child # <<>> => h[m].child # <<>>
      BY <2>1, <1>10
    <2> QED  BY <2>1, <2>2, <2>3, <2>4, <2>5 DEF Alive
  <1>15. \A c \in F : \E m \in T : c = at[m]
    BY <1>6
  <1>16. \A c \in F : ~Alive(h, c) /\ Alive(g, c)
    BY <1>7, <1>14, <1>15
  <1>17. \A c \in F : Kids(g, c) \subseteq F \ {r}
    <2> SUFFICES ASSUME NEW m \in T, NEW d \in Kids(h, m) PROVE at[d] \in F /\ at[d] # r
      BY <1>14, <1>15
    <2>1. d \in T /\ d # n
      BY <1>1, <1>2, NoCycle
    <2> QED  BY <2>1, <1>2, <1>4, <1>6, <1>7 DEF IsInjective
  <1>18. /\ \A c \in F : g[c].child # <<>> => g[c].type \in {"Array", "Object"}
         /\ \A c \in F : IsInjective(g[c].child)
    BY <1>14, <1>15
  <1>19. \A p, q \in F : \A c : c \in Kids(g, p) /\ c \in Kids(g, q) => p = q
    <2> SUFFICES ASSUME NEW m \in T, NEW o \in T, NEW d \in Kids(h, m), NEW e \in Kids(h, o), at[d] = at[e]
                 PROVE  m = o
      BY <1>14, <1>15
    <2>1. d \in T /\ e \in T
      BY <1>2
    <2>2. d = e
      BY <2>1, <1>4 DEF IsInjective
    <2> QED  BY <2>2, <1>2 DEF Tidy
  <1>20. F \subseteq Trees(g, {r})
    <2> DEFINE S == {m \in T : at[m] \in Trees(g, {r})}
    <2>1. r \in Trees(g, {r}) /\ \A c \in Trees(g, {r}) : Kids(g, c) \subseteq Trees(g, {r})
      BY <1>7, <1>13, TreesHold
    <2>2. S \subseteq Cells /\ {n} \subseteq S
      BY <1>2, <1>7, <2>1
    <2>3. \A m \in S : Kids(h, m) \subseteq S
      <3> SUFFICES ASSUME NEW m \in S, NEW d \in Kids(h, m) PROVE d \in S
        OBVIOUS
      <3>1. at[d] \in Kids(g, at[m])
        BY <1>14
      <3> QED  BY <3>1, <2>1, <1>2
    <2>4. T \subseteq S
      <3> HIDE DEF S
      <3> QED  BY <1>1, <2>2, <2>3, TreesLeast
    <2> QED  BY <2>4, <1>15
  <1>21. /\ \A A : A \subseteq Cells => Trees(h, A) \subseteq Trees(g, A)
         /\ Tidy(g, R \cup {r})
    BY <1>7, <1>12, <1>13, <1>16, <1>17, <1>18, <1>19, <1>20, GraftTidy
  <1> QED  BY <1>7, <1>12, <1>13, <1>16, <1>21 DEF Grown

\* A function of indexes is a list.
LEMMA ListMade ==
  ASSUME NEW n \in Nat, NEW list \in [1..n -> Cells]
  PROVE  list \in Seq(Cells)
  OBVIOUS

\* The memory when doc has been parsed, its root in the cell root, its members in
\* the cells `cell`
ParsedMemory(h, doc, root, cell) ==
  [c \in Cells |-> CASE c = root -> [CreateObject EXCEPT !.child = cell]
                     [] c \in Range(cell) ->
                          LET m == doc[AntiFunction(cell)[c]] IN [m.item EXCEPT !.string = m.key]
                     [] OTHER -> h[c]]

\* The members of a text get cells of their own where there is room.
LEMMA MembersPlaced ==
  ASSUME NEW free, free \subseteq Cells, NEW root \in free,
         NEW doc \in Documents, Len(doc) < Cardinality(free),
         NEW cell, cell = Allocate(DOMAIN doc, free \ {root})
  PROVE  /\ DOMAIN doc = 1..Len(doc) /\ Len(doc) \in Nat
         /\ \A i \in DOMAIN doc : /\ doc[i].key \in Keys /\ doc[i].item \in Item
                                  /\ doc[i].item.type # "freed" /\ doc[i].item.child = <<>>
         /\ cell \in [DOMAIN doc -> free \ {root}] /\ IsInjective(cell)
  <1>1. /\ DOMAIN doc = 1..Len(doc) /\ Len(doc) \in Nat
        /\ \A i \in DOMAIN doc : /\ doc[i].key \in Keys /\ doc[i].item \in Item
                                 /\ doc[i].item.type # "freed" /\ doc[i].item.child = <<>>
    <2>1. doc \in Seq([key : Keys, item : Item])
      BY ValuesAssumption
    <2>2. PICK M : M = [key : Keys, item : Item]
      OBVIOUS
    <2>3. doc \in Seq(M)
      BY <2>1, <2>2
    <2>4. DOMAIN doc = 1..Len(doc) /\ Len(doc) \in Nat /\ \A i \in DOMAIN doc : doc[i] \in M
      BY <2>3
    <2>5. \A m \in M : m.key \in Keys /\ m.item \in Item
      BY <2>2
    <2> QED  BY <2>4, <2>5, ValuesAssumption
  <1>2. cell \in [DOMAIN doc -> free \ {root}] /\ IsInjective(cell)
    <2>1. IsFiniteSet(free) /\ IsFiniteSet(DOMAIN doc) /\ IsFiniteSet(free \ {root})
      <3>1. IsFiniteSet(1..Len(doc))
        BY <1>1, FS_Interval
      <3>2. IsFiniteSet(free)
        BY FS_Subset, CellsAssumption
      <3> QED  BY <1>1, <3>1, <3>2, FS_Subset
    <2>2. Cardinality(DOMAIN doc) = Len(doc)
      <3>1. Cardinality(1..Len(doc)) = IF 1 > Len(doc) THEN 0 ELSE Len(doc) - 1 + 1
        <4>1. 1 \in Int /\ Len(doc) \in Int
          BY <1>1
        <4> QED  BY <4>1, FS_Interval
      <3> QED  BY <1>1, <3>1
    <2>3. Cardinality(free \ {root}) = Cardinality(free) - 1 /\ Cardinality(free) \in Nat
      BY <2>1, FS_RemoveElement, FS_CardinalityType
    <2>4. Cardinality(DOMAIN doc) <= Cardinality(free \ {root})
      BY <2>2, <2>3, <1>1
    <2> QED  BY <2>1, <2>4, Allocated
  <1> QED  BY <1>1, <1>2

\* A parsed text is a new tree.
LEMMA ParsedTidy ==
  ASSUME NEW h \in Memories, NEW R, Tidy(h, R),
         NEW free, free \subseteq {c \in Cells : ~Alive(h, c)}, NEW root \in free,
         NEW doc \in Documents, Len(doc) < Cardinality(free),
         NEW cell, cell = Allocate(DOMAIN doc, free \ {root}),
         NEW g, g = ParsedMemory(h, doc, root, cell)
  PROVE  g \in Memories /\ Alive(g, root) /\ Grown(h, g, free) /\ Tidy(g, R \cup {root})
  <1>1. /\ DOMAIN doc = 1..Len(doc) /\ Len(doc) \in Nat
        /\ \A i \in DOMAIN doc : /\ doc[i].key \in Keys /\ doc[i].item \in Item
                                 /\ doc[i].item.type # "freed" /\ doc[i].item.child = <<>>
    BY MembersPlaced
  <1>2. cell \in [DOMAIN doc -> free \ {root}] /\ IsInjective(cell)
    BY MembersPlaced
  <1>3. PICK F : F = {root} \cup Range(cell)
    OBVIOUS
  <1>4. /\ \A i \in DOMAIN doc : cell[i] \in F /\ cell[i] # root /\ AntiFunction(cell)[cell[i]] = i
        /\ \A c \in F \ {root} : c \in Range(cell) /\ \E i \in DOMAIN doc : c = cell[i]
        /\ F \subseteq free /\ free \subseteq Cells /\ root \in F /\ root \notin Range(cell)
    <2>1. Range(cell) \subseteq free \ {root}
      BY <1>2 DEF Range
    <2>2. \A i \in DOMAIN doc : cell[i] \in Range(cell) /\ AntiFunction(cell)[cell[i]] = i
      BY <1>2, AntiOf
    <2>3. \A c \in Range(cell) : \E i \in DOMAIN doc : c = cell[i]
      BY <1>2 DEF Range
    <2>4. F \subseteq free /\ free \subseteq Cells /\ root \in F /\ root \notin Range(cell)
      BY <1>3, <2>1
    <2>5. \A i \in DOMAIN doc : cell[i] \in F /\ cell[i] # root
      BY <1>3, <2>2, <2>4
    <2>6. F \ {root} \subseteq Range(cell)
      BY <1>3
    <2> QED  BY <2>2, <2>3, <2>4, <2>5, <2>6
  <1> DEFINE Made(i) == [doc[i].item EXCEPT !.string = doc[i].key]
  <1>5. /\ g[root] = [CreateObject EXCEPT !.child = cell]
        /\ \A i \in DOMAIN doc : g[cell[i]] = Made(i)
        /\ \A c \in Cells \ F : g[c] = h[c]
        /\ DOMAIN g = Cells /\ g = [c \in Cells |-> g[c]]
    <2>1. \A i \in DOMAIN doc : cell[i] \in Range(cell) /\ cell[i] \in Cells
      BY <1>4
    <2>2. g[root] = [CreateObject EXCEPT !.child = cell]
      BY <1>4 DEF ParsedMemory
    <2>3. ASSUME NEW i \in DOMAIN doc PROVE g[cell[i]] = Made(i)
      BY <1>4, <2>1 DEF ParsedMemory
    <2>4. ASSUME NEW c \in Cells \ F PROVE g[c] = h[c]
      BY <1>3 DEF ParsedMemory
    <2>5. DOMAIN g = Cells /\ g = [c \in Cells |-> g[c]]
      BY DEF ParsedMemory
    <2> QED  BY <2>2, <2>3, <2>4, <2>5
  <1>6. \A i \in DOMAIN doc : /\ Made(i) \in Item /\ Made(i).type # "freed" /\ Made(i).child = <<>>
    BY <1>1 DEF Item
  <1>7. /\ g[root] \in Item /\ g[root].type = "Object" /\ g[root].child = cell
    <2>1. cell \in Seq(Cells)
      <3>1. PICK n \in Nat : n = Len(doc)
        BY <1>1
      <3>2. cell \in [1..n -> Cells]
        BY <1>1, <1>2, <1>4, <3>1
      <3> QED  BY <3>2, ListMade
    <2>2. CreateObject \in Item /\ CreateObject.type = "Object"
      BY ItemsMade DEF CreateObject, Item, Types
    <2> QED  BY <1>5, <2>1, <2>2 DEF Item
  <1> HIDE DEF Made
  <1>8. g \in Memories
    <2>1. \A c \in Cells : g[c] \in Item
      <3>1. \A c \in Cells : h[c] \in Item
        BY DEF Memories
      <3>2. \A i \in DOMAIN doc : g[cell[i]] \in Item
        BY <1>5, <1>6
      <3>3. \A c \in F \ {root} : g[c] \in Item
        BY <3>2, <1>4
      <3>4. \A c \in Cells \ F : g[c] \in Item
        BY <3>1, <1>5
      <3> QED  BY <3>3, <3>4, <1>7
    <2> QED  BY <2>1, <1>5 DEF Memories
  <1>9. /\ Kids(g, root) = F \ {root} /\ IsInjective(g[root].child) /\ Alive(g, root)
    BY <1>2, <1>3, <1>4, <1>7 DEF Kids, Alive
  <1>10. \A c \in F \ {root} : Kids(g, c) = {} /\ g[c].child = <<>> /\ Alive(g, c)
    <2>1. \A c \in F \ {root} : g[c].child = <<>> /\ Alive(g, c)
      <3>1. \A i \in DOMAIN doc : g[cell[i]].child = <<>> /\ Alive(g, cell[i])
        BY <1>5, <1>6 DEF Alive
      <3> SUFFICES ASSUME NEW c \in F \ {root} PROVE g[c].child = <<>> /\ Alive(g, c)
        OBVIOUS
      <3>2. PICK i \in DOMAIN doc : c = cell[i]
        BY <1>4
      <3> QED  BY <3>1, <3>2
    <2>2. Range(<<>>) = {}
      BY DEF Range
    <2> QED  BY <2>1, <2>2 DEF Kids
  <1>11. \A c \in F : ~Alive(h, c) /\ Alive(g, c) /\ Kids(g, c) \subseteq F \ {root}
    BY <1>4, <1>9, <1>10
  <1>12. /\ \A c \in F : g[c].child # <<>> => g[c].type \in {"Array", "Object"}
         /\ \A c \in F : IsInjective(g[c].child)
    <2>1. IsInjective(<<>>)
      BY DEF IsInjective
    <2> QED  BY <2>1, <1>7, <1>9, <1>10
  <1>13. \A p, q \in F : \A c : c \in Kids(g, p) /\ c \in Kids(g, q) => p = q
    <2>1. \A p \in F : \A c : c \in Kids(g, p) => p = root
      BY <1>10
    <2> QED  BY <2>1
  <1>14. F \subseteq Trees(g, {root})
    <2>1. {root} \subseteq Trees(g, {root}) /\ \A c \in Trees(g, {root}) : Kids(g, c) \subseteq Trees(g, {root})
      <3>1. {root} \subseteq Cells
        BY <1>4
      <3> QED  BY <3>1, <1>8, TreesHold
    <2> QED  BY <2>1, <1>9
  <1>15. /\ \A A : A \subseteq Cells => Trees(h, A) \subseteq Trees(g, A)
         /\ Tidy(g, R \cup {root})
    <2>1. F \subseteq Cells /\ root \in F /\ \A c \in Cells \ F : g[c] = h[c]
      BY <1>4, <1>5
    <2>2. \A c \in F : ~Alive(h, c) /\ Alive(g, c)
      BY <1>11
    <2>3. \A c \in F : Kids(g, c) \subseteq F \ {root}
      BY <1>11
    <2>4. \A c \in F : IsInjective(g[c].child)
      BY <1>12
    <2>5. \A c \in F : g[c].child # <<>> => g[c].type \in {"Array", "Object"}
      BY <1>12
    <2>6. PICK m \in Memories : m = g
      BY <1>8
    <2>7. /\ \A c \in F : ~Alive(h, c) /\ Alive(m, c)
          /\ \A c \in Cells \ F : m[c] = h[c]
          /\ \A c \in F : Kids(m, c) \subseteq F \ {root}
          /\ \A c \in F : m[c].child # <<>> => m[c].type \in {"Array", "Object"}
          /\ \A c \in F : IsInjective(m[c].child)
          /\ \A p, q \in F : \A c : c \in Kids(m, p) /\ c \in Kids(m, q) => p = q
          /\ F \subseteq Trees(m, {root})
      BY <2>1, <2>2, <2>3, <2>4, <2>5, <2>6, <1>13, <1>14
    <2>8. /\ \A A : A \subseteq Cells => Trees(h, A) \subseteq Trees(m, A)
          /\ Tidy(m, R \cup {root})
      BY <2>1, <2>7, GraftTidy
    <2> QED  BY <2>6, <2>8
  <1> QED  BY <1>4, <1>5, <1>8, <1>9, <1>15 DEF Grown

(***************************************************************************)
(* Numbers                                                                 *)
(***************************************************************************)
\* The remainder of what is less than one width away
LEMMA Remainder ==
  ASSUME NEW m \in Nat, m > 0, NEW v \in Int
  PROVE  /\ v \in 0..(m - 1) => v % m = v
         /\ v \in (-m)..(-1) => v % m = v + m
  OBVIOUS

\* A value of a type is kept by a conversion to it, and one of the two types of
\* 64 bits is kept by a conversion to the other and back.
LEMMA CastKeeps ==
  ASSUME NEW v \in Int
  PROVE  /\ v \in Int64 => Cast("int64", v) = v /\ Cast("int64", Cast("uint64", v)) = v
         /\ v \in 0..(M64 - 1) => Cast("uint64", v) = v /\ Cast("uint64", Cast("int64", v)) = v
         /\ v \in 0..(M64 \div 2 - 1) => Cast("int64", v) = v
         /\ Cast("int64", M64 \div 2) = -(M64 \div 2)
  <1>1. PICK m \in Nat : m = M64 \div 2 /\ M64 = 2 * m /\ m > 0
    BY WidthAssumption
  <1>2. \A x \in Int : /\ x \in 0..(M64 - 1) => x % M64 = x
                       /\ x \in (-M64)..(-1) => x % M64 = x + M64
    BY <1>1, Remainder
  <1>3. \A x \in Int : x % M64 \in Int
    BY <1>1
  <1>4. \A x \in Int : Cast("int64", x) = (IF x % M64 < m THEN x % M64 ELSE (x % M64) - M64)
    BY <1>1 DEF Cast, Signed
  <1>5. \A x \in Int : Cast("uint64", x) = x % M64
    BY DEF Cast, Unsigned
  <1>6. Int64 = (-m)..(m - 1)
    BY <1>1 DEF Int64
  <1>7. \A x \in Int64 : /\ x < 0 => x % M64 = x + M64 /\ x + M64 \in 0..(M64 - 1) /\ x + M64 >= m
                         /\ x >= 0 => x % M64 = x /\ x < m
    BY <1>1, <1>2, <1>6
  <1>8. ASSUME v \in Int64
        PROVE  Cast("int64", v) = v /\ Cast("int64", Cast("uint64", v)) = v
    <2>1. CASE v >= 0
      <3>1. v % M64 = v /\ v < m
        BY <1>7, <1>8, <2>1
      <3> QED  BY <1>4, <1>5, <3>1
    <2>2. CASE v < 0
      <3>1. v % M64 = v + M64 /\ v + M64 \in 0..(M64 - 1) /\ ~(v + M64 < m) /\ v + M64 \in Int
        BY <1>1, <1>7, <1>8, <2>2
      <3>2. (v + M64) % M64 = v + M64
        BY <1>2, <3>1
      <3>3. (v + M64) - M64 = v
        BY <1>1
      <3> QED  BY <1>4, <1>5, <3>1, <3>2, <3>3
    <2> QED  BY <2>1, <2>2
  <1>9. ASSUME v \in 0..(M64 - 1)
        PROVE  Cast("uint64", v) = v /\ Cast("uint64", Cast("int64", v)) = v
    <2>1. v % M64 = v
      BY <1>2, <1>9
    <2>2. CASE v < m
      BY <1>4, <1>5, <2>1, <2>2
    <2>3. CASE v >= m
      <3>5. Cast("int64", v) = IF v % M64 < m THEN v % M64 ELSE (v % M64) - M64
        BY <1>4
      <3>1. Cast("int64", v) = v - M64
        BY <1>1, <2>1, <2>3, <3>5
      <3>9. v - M64 \in (-M64)..(-1)
        BY <1>1, <1>9
      <3>2. (v - M64) % M64 = v
        BY <1>1, <1>2, <3>9
      <3>3. v - M64 \in Int
        BY <1>1
      <3>4. Cast("uint64", v - M64) = (v - M64) % M64 /\ Cast("uint64", v) = v % M64
        BY <1>5, <3>3
      <3> QED  BY <2>1, <3>1, <3>2, <3>4
    <2> QED  BY <1>1, <2>2, <2>3
  <1>10. v \in 0..(M64 \div 2 - 1) => Cast("int64", v) = v
    BY <1>1, <1>6, <1>8
  <1>11. Cast("int64", M64 \div 2) = -(M64 \div 2)
    <2>1. m % M64 = m
      BY <1>1, <1>2
    <2> QED  BY <1>1, <1>4, <2>1
  <1> QED  BY <1>8, <1>9, <1>10, <1>11

(***************************************************************************)
(* An item that is a number says the number it was given: by its integer,  *)
(* read as its sign says, or by its double, which is in the range where it *)
(* survives being printed and parsed.                                      *)
(***************************************************************************)
Fields == {"type", "valueint", "valuedouble", "sign", "number"}

SaysNumber(item) ==
  /\ item.valueint \in Int64 /\ item.valuedouble \in Int /\ item.number \in Int
  /\ item.type = "Int" =>
       /\ item.number = 2 * (IF item.sign = -1 THEN item.valueint ELSE Cast("uint64", item.valueint))
       /\ item.number \in 0..(M64 - 1) => item.valuedouble = item.number
  /\ item.type = "Double" => item.valuedouble = item.number /\ Abs(item.number) < M64

Says(item) == Fields \subseteq DOMAIN item /\ (IsNumber(item) => SaysNumber(item))

\* Every item of the memory h does.
Numeric(h) == DOMAIN h = Cells /\ \A c \in Cells : Says(h[c])

\* Links and keys are no part of it.
LEMMA SaysRelinked ==
  ASSUME NEW item, Says(item), NEW x, NEW new,
         \/ new = [item EXCEPT !.child = x]
         \/ new = [item EXCEPT !.string = x]
  PROVE  Says(new)
  <1>1. /\ DOMAIN new = DOMAIN item /\ new.type = item.type /\ new.valueint = item.valueint
        /\ new.valuedouble = item.valuedouble /\ new.sign = item.sign /\ new.number = item.number
    BY DEF Says, Fields
  <1> QED  BY <1>1 DEF Says, SaysNumber, IsNumber

\* What is printed is the number.
LEMMA PrintSays ==
  ASSUME NEW item, Says(item), IsNumber(item)
  PROVE  LET t == PrintNumber(item)
         IN /\ Denotes(t) = item.number
            /\ t.neg \in BOOLEAN /\ t.digits \in Nat /\ t.exp = 0
            /\ item.type = "Int" =>
                 t.half = NoFraction /\ t.digits < (IF t.neg THEN M64 \div 2 + 1 ELSE M64)
            /\ item.type = "Double" => t.half \in {0, 1} /\ t.digits < M64 \div 2
  <1>0. PICK t : t = PrintNumber(item)
    OBVIOUS
  <1>1. PICK m \in Nat : m = M64 \div 2 /\ M64 = 2 * m /\ m > 0
    BY WidthAssumption
  <1>2. SaysNumber(item)
    BY DEF Says
  <1>3. 10 ^ 0 = 1
    OBVIOUS
  <1>4. CASE item.type = "Int"
    <2>1. PICK v \in Int : /\ v = IF item.sign = -1 THEN item.valueint ELSE Cast("uint64", item.valueint)
                           /\ item.number = 2 * v /\ v >= -m /\ v < M64
      <3>1. item.valueint \in Int /\ item.valueint \in (-m)..(m - 1)
        BY <1>1, <1>2 DEF SaysNumber, Int64
      <3>2. Cast("uint64", item.valueint) \in 0..(M64 - 1)
        BY <3>1, CastType
      <3> QED  BY <1>1, <1>2, <1>4, <3>1, <3>2 DEF SaysNumber
    <2>2. t = Text(v < 0, Abs(v), NoFraction, 0)
      BY <1>0, <1>4, <2>1 DEF PrintNumber, PrintInt
    <2>3. t.neg = (v < 0) /\ t.digits = Abs(v) /\ t.half = NoFraction /\ t.exp = 0
      BY <2>2 DEF Text
    <2>4. PICK a \in Nat : a = Abs(v) /\ a = IF v < 0 THEN -v ELSE v
      BY <2>1 DEF Abs
    <2>5. Denotes(t) = IF v < 0 THEN -((2 * a + 0) * 1) ELSE (2 * a + 0) * 1
      BY <2>3, <2>4, <1>3 DEF Denotes
    <2>6. Denotes(t) = item.number
      BY <2>1, <2>4, <2>5
    <2>7. t.digits < (IF t.neg THEN M64 \div 2 + 1 ELSE M64)
      <3>1. CASE v < 0
        <4>1. a <= m
          BY <2>1, <2>4, <3>1
        <4>2. t.neg
          BY <2>3, <3>1
        <4> QED  BY <1>1, <2>3, <2>4, <4>1, <4>2
      <3>2. CASE ~(v < 0)
        <4>1. a < M64
          BY <2>1, <2>4, <3>2
        <4>2. ~t.neg
          BY <2>3, <3>2
        <4> QED  BY <1>1, <2>3, <2>4, <4>1, <4>2
      <3> QED  BY <3>1, <3>2
    <2> QED  BY <1>0, <1>4, <2>3, <2>4, <2>6, <2>7
  <1>5. CASE item.type = "Double"
    <2>1. PICK d \in Int : d = item.valuedouble /\ d = item.number /\ Abs(d) < M64
      BY <1>2, <1>5 DEF SaysNumber
    <2>2. t = Text(d < 0, Abs(d) \div 2, Abs(d) % 2, 0)
      BY <1>0, <1>5, <2>1 DEF PrintNumber, PrintDouble
    <2>3. t.neg = (d < 0) /\ t.digits = Abs(d) \div 2 /\ t.half = Abs(d) % 2 /\ t.exp = 0
      BY <2>2 DEF Text
    <2>4. PICK a \in Nat : a = Abs(d) /\ a < M64
      BY <2>1, <1>1 DEF Abs
    <2>5. a \div 2 \in Nat /\ a % 2 \in {0, 1} /\ 2 * (a \div 2) + (a % 2) = a /\ a \div 2 < m
      <3>1. a \div 2 \in Nat /\ a % 2 \in {0, 1} /\ 2 * (a \div 2) + (a % 2) = a
        BY <2>4
      <3> QED  BY <1>1, <2>4, <3>1
    <2>6. Denotes(t) = IF d < 0 THEN -((2 * (a \div 2) + (a % 2)) * 1) ELSE (2 * (a \div 2) + (a % 2)) * 1
      <3>1. (IF t.half = NoFraction THEN 0 ELSE t.half) = a % 2
        BY <2>3, <2>4, <2>5 DEF NoFraction
      <3>2. t.digits = a \div 2 /\ t.exp = 0 /\ t.neg = (d < 0)
        BY <2>3, <2>4
      <3> QED  BY <1>3, <3>1, <3>2 DEF Denotes
    <2>7. Denotes(t) = d
      BY <2>1, <2>4, <2>5, <2>6 DEF Abs
    <2> QED  BY <1>0, <1>1, <1>5, <2>1, <2>3, <2>4, <2>5, <2>7
  <1> QED  BY <1>4, <1>5 DEF IsNumber

\* What is parsed says what its text denotes, where the text fits.
LEMMA ParsedSays ==
  ASSUME NEW t, t.neg \in BOOLEAN, t.digits \in Nat, t.half \in 0..NoFraction, t.exp \in Nat,
         IF t.half = NoFraction
         THEN t.exp = 0 /\ t.digits < (IF t.neg THEN M64 \div 2 + 1 ELSE M64)
         ELSE t.digits < M64 \div 2 /\ Abs(Denotes(t)) < M64,
         NEW item, item = ParseNumber(t)
  PROVE  Says(item) /\ IsNumber(item) /\ item.number = Denotes(t)
  <1>1. PICK m \in Nat : m = M64 \div 2 /\ M64 = 2 * m /\ m > 0
    BY WidthAssumption
  <1>2. PICK sign \in {-1, 1} : sign = IF t.neg THEN -1 ELSE 1
    OBVIOUS
  <1>3. PICK n \in Int64 : n = Cast("int64", t.digits)
    BY CastType
  <1>4. n \in Int
    BY <1>1 DEF Int64
  <1>5. 10 ^ 0 = 1 /\ 10 ^ t.exp \in Int
    OBVIOUS
  <1>6. CASE t.half = NoFraction
    <2>1. t.exp = 0 /\ t.digits < (IF t.neg THEN m + 1 ELSE M64)
      BY <1>1, <1>6
    <2>2. PICK int \in Int64 : int = Cast("int64", sign * n)
      <3>1. sign * n \in Int
        BY <1>4
      <3> QED  BY <3>1, CastType
    <2>3. item = [NewItem EXCEPT !.valuedouble = sign * (2 * n), !.sign = sign, !.number = Denotes(t),
                                 !.type = "Int", !.valueint = int]
      <3>1. 2 * n + 0 = 2 * n
        BY <1>4
      <3>2. item = [[NewItem EXCEPT !.valuedouble = sign * (2 * n), !.sign = sign, !.number = Denotes(t)]
                      EXCEPT !.type = "Int", !.valueint = int]
        BY <1>2, <1>3, <1>6, <2>1, <2>2, <3>1 DEF ParseNumber
      <3> QED  BY <3>2 DEF NewItem
    <2>4. /\ Fields \subseteq DOMAIN item /\ item.valuedouble = sign * (2 * n) /\ item.sign = sign
          /\ item.number = Denotes(t) /\ item.type = "Int" /\ item.valueint = int
      BY <2>3 DEF NewItem, Fields
    <2>5. Denotes(t) = IF t.neg THEN -((2 * t.digits + 0) * 1) ELSE (2 * t.digits + 0) * 1
      BY <1>5, <1>6, <2>1 DEF Denotes
    <2>6. CASE t.neg
      <3>1. int = -t.digits
        <4>1. CASE t.digits = m
          <5>1. n = -m /\ sign * n = m
            BY <1>1, <1>2, <1>3, <2>6, <4>1, CastKeeps
          <5> QED  BY <1>1, <2>2, <4>1, <5>1, CastKeeps
        <4>2. CASE t.digits < m
          <5>1. n = t.digits
            BY <1>1, <1>3, <4>2, CastKeeps
          <5>2. sign * n = -t.digits /\ -t.digits \in Int64
            BY <1>1, <1>2, <2>6, <4>2, <5>1 DEF Int64
          <5> QED  BY <2>2, <5>2, CastKeeps DEF Int64
        <4> QED  BY <1>1, <2>1, <2>6, <4>1, <4>2
      <3>2. Denotes(t) = 2 * int /\ Denotes(t) = -2 * t.digits
        BY <2>5, <2>6, <3>1
      <3>3. Denotes(t) \in 0..(M64 - 1) => Denotes(t) = sign * (2 * n)
        <4> SUFFICES ASSUME Denotes(t) \in 0..(M64 - 1) PROVE Denotes(t) = sign * (2 * n)
          OBVIOUS
        <4>1. t.digits = 0
          BY <3>2
        <4>2. n = 0
          BY <1>1, <1>3, <4>1, CastKeeps
        <4> QED  BY <1>2, <3>2, <4>1, <4>2
      <3> QED  BY <1>2, <1>4, <2>4, <2>6, <3>2, <3>3 DEF Says, SaysNumber, IsNumber
    <2>7. CASE ~t.neg
      <3>1. int = n /\ sign = 1
        BY <1>2, <1>3, <1>4, <2>2, <2>7, CastKeeps
      <3>2. Cast("uint64", int) = t.digits
        BY <1>1, <1>3, <2>1, <2>7, <3>1, CastKeeps
      <3>3. Denotes(t) = 2 * t.digits
        BY <2>5, <2>7
      <3>4. Denotes(t) \in 0..(M64 - 1) => Denotes(t) = sign * (2 * n)
        BY <1>1, <1>3, <3>1, <3>3, CastKeeps
      <3> QED  BY <1>2, <1>4, <2>4, <3>1, <3>2, <3>3, <3>4 DEF Says, SaysNumber, IsNumber
    <2> QED  BY <2>6, <2>7
  <1>7. CASE t.half # NoFraction
    <2>1. t.digits < m /\ Abs(Denotes(t)) < M64 /\ t.half \in {0, 1}
      BY <1>1, <1>7 DEF NoFraction
    <2>2. n = t.digits
      BY <1>1, <1>3, <2>1, CastKeeps
    <2>3. PICK e \in Int : e = 10 ^ t.exp
      BY <1>5
    <2>4. PICK size \in Int : size = (2 * t.digits + t.half) * e
      BY <2>1
    <2>5. Denotes(t) = sign * size
      BY <1>2, <1>7, <2>3, <2>4 DEF Denotes
    <2>6. (IF t.exp = 0 THEN 2 * n + t.half ELSE (2 * n + t.half) * 10 ^ t.exp) = size
      <3>1. CASE t.exp = 0
        BY <1>4, <1>5, <2>1, <2>2, <2>3, <2>4, <3>1
      <3>2. CASE t.exp # 0
        BY <2>2, <2>3, <2>4, <3>2
      <3> QED  BY <3>1, <3>2
    <2>7. item = [NewItem EXCEPT !.valuedouble = sign * size, !.sign = sign, !.number = Denotes(t),
                                 !.type = "Double", !.valueint = n]
      BY <1>2, <1>3, <1>7, <2>6 DEF ParseNumber, NewItem
    <2>8. /\ Fields \subseteq DOMAIN item /\ item.valuedouble = sign * size /\ item.sign = sign
          /\ item.number = Denotes(t) /\ item.type = "Double" /\ item.valueint = n
      BY <2>7 DEF NewItem, Fields
    <2> QED  BY <1>2, <1>3, <2>1, <2>4, <2>5, <2>8 DEF Says, SaysNumber, IsNumber
  <1> QED  BY <1>6, <1>7

\* So a copy of an item says what the item says.
LEMMA ReparsedSays ==
  ASSUME NEW item, Says(item)
  PROVE  Says(Reparsed(item))
  <1>1. CASE IsNumber(item)
    <2>1. PICK t : t = PrintNumber(item)
      OBVIOUS
    <2>2. PICK it : it = ParseNumber(t)
      OBVIOUS
    <2>3. /\ t.neg \in BOOLEAN /\ t.digits \in Nat /\ t.exp = 0 /\ Denotes(t) = item.number
          /\ item.type = "Int" =>
               t.half = NoFraction /\ t.digits < (IF t.neg THEN M64 \div 2 + 1 ELSE M64)
          /\ item.type = "Double" => t.half \in {0, 1} /\ t.digits < M64 \div 2
      BY <1>1, <2>1, PrintSays
    <2>4. item.type = "Double" => Abs(item.number) < M64
      BY <1>1 DEF Says, SaysNumber
    <2>5. Says(it) /\ it.number = item.number
      <3>1. CASE item.type = "Int"
        BY <2>2, <2>3, <3>1, ParsedSays DEF NoFraction
      <3>2. CASE item.type = "Double"
        BY <2>2, <2>3, <2>4, <3>2, ParsedSays DEF NoFraction
      <3> QED  BY <1>1, <3>1, <3>2 DEF IsNumber
    <2>6. PICK new : new = [it EXCEPT !.number = item.number]
      OBVIOUS
    <2>7. /\ DOMAIN new = DOMAIN it /\ new.type = it.type /\ new.valueint = it.valueint
          /\ new.valuedouble = it.valuedouble /\ new.sign = it.sign /\ new.number = it.number
      BY <2>5, <2>6 DEF Says, Fields
    <2>8. Says(new)
      BY <2>5, <2>7 DEF Says, SaysNumber, IsNumber
    <2> QED  BY <1>1, <2>1, <2>2, <2>6, <2>8 DEF Reparsed
  <1>2. CASE ~IsNumber(item)
    <2>1. PICK new : new = Reparsed(item)
      OBVIOUS
    <2>2. new = [item EXCEPT !.sign = 0, !.valueint = IF item.type = "True" THEN 1 ELSE 0]
      BY <1>2, <2>1 DEF Reparsed
    <2>3. DOMAIN new = DOMAIN item /\ new.type = item.type
      BY <2>2 DEF Says, Fields
    <2> QED  BY <1>2, <2>1, <2>3 DEF Says, IsNumber
  <1> QED  BY <1>1, <1>2
=============================================================================
