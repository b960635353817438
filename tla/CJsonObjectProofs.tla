-------------------------- MODULE CJsonObjectProofs --------------------------
(***************************************************************************)
(* The documents of neb::CJsonObject: whatever is built, copied, moved     *)
(* into each other, replaced and deleted, by any calls in any order on any *)
(* number of variables and cells, every item has one owner that will free  *)
(* it, and no more; and every number is printed and read as it was given.  *)
(***************************************************************************)
EXTENDS CJsonProperties, CJsonProofs

(***************************************************************************)
(* Documents: the trees at the items that the wrappers ob own, and at the  *)
(* items X that a call has under way. Whatever a wrapper looks into is in  *)
(* a document of its own variable, unless it was freed or the variable's   *)
(* document was moved away.                                                *)
(***************************************************************************)
Roots(ob) == {ob[w].own : w \in DOMAIN ob} \ {NULL}

OwnsOf(ob, v) == {ob[w].own : w \in {p \in DOMAIN ob : p[1] = v}} \ {NULL}

Sound(h, ob, mv, X) ==
  /\ h \in Memories /\ Tidy(h, Roots(ob) \cup X) /\ X \cap Roots(ob) = {}
  /\ \A w \in DOMAIN ob : ob[w].own \in Pointers /\ ob[w].ext \in Pointers
  /\ \A w, x \in DOMAIN ob : ob[w].own = ob[x].own /\ ob[w].own # NULL => w = x
  /\ \A w \in DOMAIN ob :
       w[1] \notin mv /\ ob[w].ext # NULL /\ Alive(h, ob[w].ext)
         => ob[w].ext \in Trees(h, OwnsOf(ob, w[1]))

\* What the wrappers of one variable own is owned.
LEMMA OwnsAreRoots ==
  ASSUME NEW ob, NEW v
  PROVE  OwnsOf(ob, v) \subseteq Roots(ob)
  BY DEF OwnsOf, Roots

\* What a wrapper is about is in a document.
LEMMA FocusHeld ==
  ASSUME NEW h, NEW ob, NEW mv, NEW X, Sound(h, ob, mv, X),
         NEW w \in DOMAIN ob, w[1] \notin mv, NEW f,
         f = IF ob[w].own # NULL THEN ob[w].own ELSE ob[w].ext, f # NULL, Alive(h, f)
  PROVE  f \in Cells /\ f \in Trees(h, Roots(ob))
  <1>1. /\ h \in Memories /\ f \in Cells /\ Roots(ob) \subseteq Cells
        /\ OwnsOf(ob, w[1]) \subseteq Roots(ob)
    BY OwnsAreRoots DEF Sound, Pointers, Tidy
  <1>2. CASE ob[w].own # NULL
    <2>1. f \in Roots(ob)
      BY <1>2 DEF Roots
    <2> QED  BY <1>1, <2>1, TreesHold
  <1>3. CASE ob[w].own = NULL
    <2>1. f \in Trees(h, OwnsOf(ob, w[1]))
      BY <1>3 DEF Sound
    <2> QED  BY <1>1, <2>1, TreesGrow
  <1> QED  BY <1>1, <1>2, <1>3

\* A call that relinks items of documents
LEMMA SoundRelinked ==
  ASSUME NEW h, NEW ob, NEW mv, NEW X, Sound(h, ob, mv, X),
         NEW g \in Memories, Retyped(h, g), NEW Y, Tidy(g, Roots(ob) \cup Y), Y \cap Roots(ob) = {},
         \A A : A \subseteq Roots(ob) => Keeps(h, g, A, A)
  PROVE  Sound(g, ob, mv, Y)
  <1> SUFFICES ASSUME NEW w \in DOMAIN ob, w[1] \notin mv, ob[w].ext # NULL, Alive(g, ob[w].ext)
               PROVE  ob[w].ext \in Trees(g, OwnsOf(ob, w[1]))
    BY DEF Sound
  <1>1. ob[w].ext \in Cells
    BY DEF Sound, Pointers
  <1>2. Alive(h, ob[w].ext)
    BY <1>1 DEF Retyped, Alive
  <1>3. ob[w].ext \in Trees(h, OwnsOf(ob, w[1]))
    BY <1>2 DEF Sound
  <1> QED  BY <1>3, OwnsAreRoots DEF Keeps

\* Something new, in cells nobody points at
LEMMA SoundGrown ==
  ASSUME NEW h, NEW ob, NEW mv, NEW X, Sound(h, ob, mv, X),
         NEW g \in Memories, NEW F, F \subseteq {c \in Cells : ~Alive(h, c)},
         \A w \in DOMAIN ob : ob[w].ext \notin F,
         Grown(h, g, F), NEW r \in F, Tidy(g, (Roots(ob) \cup X) \cup {r})
  PROVE  Sound(g, ob, mv, X \cup {r})
  <1>1. Tidy(g, Roots(ob) \cup (X \cup {r}))
    <2>1. Roots(ob) \cup (X \cup {r}) = (Roots(ob) \cup X) \cup {r}
      OBVIOUS
    <2> QED  BY <2>1
  <1>2. (X \cup {r}) \cap Roots(ob) = {}
    BY DEF Sound, Tidy
  <1>3. ASSUME NEW w \in DOMAIN ob, w[1] \notin mv, ob[w].ext # NULL, Alive(g, ob[w].ext)
        PROVE  ob[w].ext \in Trees(g, OwnsOf(ob, w[1]))
    <2>1. ob[w].ext \in Cells /\ ob[w].ext \notin F
      BY <1>3 DEF Sound, Pointers
    <2>2. Alive(h, ob[w].ext)
      BY <1>3, <2>1 DEF Grown, Alive
    <2>3. ob[w].ext \in Trees(h, OwnsOf(ob, w[1]))
      BY <1>3, <2>2 DEF Sound
    <2>4. OwnsOf(ob, w[1]) \subseteq Cells
      BY OwnsAreRoots DEF Sound, Tidy
    <2> QED  BY <2>3, <2>4 DEF Grown
  <1> QED  BY <1>1, <1>2, <1>3 DEF Sound

\* The root n under way is put into a, which is in a document.
LEMMA SoundLinked ==
  ASSUME NEW h, NEW ob, NEW mv, NEW X, Sound(h, ob, mv, X), NEW n \in X,
         NEW a \in Cells, a \in Trees(h, Roots(ob)), h[a].type \in {"Array", "Object"}, NEW g,
         \/ g = AddItemToArray(h, a, n)
         \/ g = AddItemToArrayHead(h, a, n)
         \/ \E k \in Keys : g = AddItemToObject(h, a, k, n)
  PROVE  Sound(g, ob, mv, X \ {n}) /\ Retyped(h, g)
  <1>1. PICK R : R = Roots(ob) \cup X
    OBVIOUS
  <1>2. /\ h \in Memories /\ Tidy(h, R) /\ n \in R /\ R \subseteq Cells
        /\ R \ {n} = Roots(ob) \cup (X \ {n}) /\ n \notin Roots(ob) /\ Roots(ob) \subseteq R
        /\ (X \ {n}) \cap Roots(ob) = {}
    BY <1>1 DEF Sound, Tidy
  <1>3. a \notin Trees(h, {n})
    <2>1. {n} \subseteq R /\ Roots(ob) \cap {n} = {}
      BY <1>2
    <2> QED  BY <1>2, <2>1, TreesApart
  <1>4. /\ g \in Memories /\ Retyped(h, g) /\ Tidy(g, R \ {n})
        /\ \A A : A \subseteq Cells => Keeps(h, g, A, A)
    BY <1>2, <1>3, AddTidy
  <1>5. Tidy(g, Roots(ob) \cup (X \ {n})) /\ \A A : A \subseteq Roots(ob) => Keeps(h, g, A, A)
    BY <1>2, <1>4
  <1> QED  BY <1>2, <1>4, <1>5, SoundRelinked

\* An element is deleted.
LEMMA SoundDeleted ==
  ASSUME NEW h, NEW ob, NEW mv, NEW X, Sound(h, ob, mv, X),
         NEW a \in Cells, h[a].type \in {"Array", "Object"}, NEW n, n = NULL \/ n \in Kids(h, a),
         NEW g, g = DeleteItem(h, a, n)
  PROVE  Sound(g, ob, mv, X) /\ Retyped(h, g)
  <1>1. h \in Memories /\ Tidy(h, Roots(ob) \cup X) /\ X \cap Roots(ob) = {}
    BY DEF Sound
  <1>2. /\ g \in Memories /\ Retyped(h, g) /\ Tidy(g, Roots(ob) \cup X)
        /\ \A A : A \subseteq Roots(ob) \cup X => Keeps(h, g, A, A)
    BY <1>1, DeleteItemTidy
  <1> QED  BY <1>1, <1>2, SoundRelinked

\* An element is replaced by the root m under way.
LEMMA SoundReplaced ==
  ASSUME NEW h, NEW ob, NEW mv, NEW X, Sound(h, ob, mv, X), NEW m \in X,
         NEW a \in Cells, a \in Trees(h, Roots(ob)), h[a].type \in {"Array", "Object"},
         NEW n \in Kids(h, a),
         NEW g, \/ g = ReplaceItem(h, a, n, m)
                \/ \E k \in Keys : g = ReplaceItem([h EXCEPT ![m].string = k], a, n, m)
  PROVE  Sound(g, ob, mv, X \ {m}) /\ Retyped(h, g)
  <1>1. PICK R : R = Roots(ob) \cup X
    OBVIOUS
  <1>2. /\ h \in Memories /\ Tidy(h, R) /\ m \in R /\ R \subseteq Cells
        /\ R \ {m} = Roots(ob) \cup (X \ {m}) /\ m \notin Roots(ob) /\ Roots(ob) \subseteq R
        /\ (X \ {m}) \cap Roots(ob) = {}
    BY <1>1 DEF Sound, Tidy
  <1>3. a \notin Trees(h, {m})
    <2>1. {m} \subseteq R /\ Roots(ob) \cap {m} = {}
      BY <1>2
    <2> QED  BY <1>2, <2>1, TreesApart
  <1>4. /\ g \in Memories /\ Retyped(h, g) /\ Tidy(g, R \ {m})
        /\ \A A : A \subseteq R \ {m} => Keeps(h, g, A, A)
    BY <1>2, <1>3, ReplaceItemTidy
  <1>5. Tidy(g, Roots(ob) \cup (X \ {m})) /\ \A A : A \subseteq Roots(ob) => Keeps(h, g, A, A)
    BY <1>2, <1>4
  <1> QED  BY <1>2, <1>4, <1>5, SoundRelinked

(***************************************************************************)
(* Owners                                                                  *)
(***************************************************************************)
\* Items change hands between wrappers and the calls under way: all keep an owner,
\* and what a wrapper looks into stays with the variable.
LEMMA SoundRewrapped ==
  ASSUME NEW h, NEW ob, NEW mv, NEW X, Sound(h, ob, mv, X), NEW ob2, NEW mv2, NEW Y,
         Roots(ob2) \cup Y = Roots(ob) \cup X, Y \cap Roots(ob2) = {},
         \A w \in DOMAIN ob2 : ob2[w].own \in Pointers /\ ob2[w].ext \in Pointers,
         \A w, x \in DOMAIN ob2 : ob2[w].own = ob2[x].own /\ ob2[w].own # NULL => w = x,
         \A w \in DOMAIN ob2 : w[1] \notin mv2 /\ ob2[w].ext # NULL =>
           \E x \in DOMAIN ob : /\ x[1] \notin mv /\ ob2[w].ext = ob[x].ext
                                /\ OwnsOf(ob, x[1]) \subseteq OwnsOf(ob2, w[1])
  PROVE  Sound(h, ob2, mv2, Y)
  <1>1. h \in Memories /\ Tidy(h, Roots(ob2) \cup Y) /\ Roots(ob2) \subseteq Cells
    BY DEF Sound, Tidy
  <1>2. ASSUME NEW w \in DOMAIN ob2, w[1] \notin mv2, ob2[w].ext # NULL, Alive(h, ob2[w].ext)
        PROVE  ob2[w].ext \in Trees(h, OwnsOf(ob2, w[1]))
    <2>1. PICK x \in DOMAIN ob : /\ x[1] \notin mv /\ ob2[w].ext = ob[x].ext
                                 /\ OwnsOf(ob, x[1]) \subseteq OwnsOf(ob2, w[1])
      BY <1>2
    <2>2. ob[x].ext \in Trees(h, OwnsOf(ob, x[1]))
      BY <1>2, <2>1 DEF Sound
    <2>3. OwnsOf(ob2, w[1]) \subseteq Cells
      BY <1>1, OwnsAreRoots
    <2> QED  BY <1>1, <2>1, <2>2, <2>3, TreesGrow
  <1> QED  BY <1>1, <1>2 DEF Sound

\* The wrapper w, which owns nothing, gets the item r under way.
LEMMA SoundTaken ==
  ASSUME NEW h, NEW ob, NEW mv, NEW X, Sound(h, ob, mv, X), NEW r \in X,
         NEW w \in DOMAIN ob, ob[w].own = NULL, NEW ob2, DOMAIN ob2 = DOMAIN ob,
         \A p \in DOMAIN ob : ob2[p].ext = ob[p].ext,
         \A p \in DOMAIN ob : ob2[p].own = IF p = w THEN r ELSE ob[p].own
  PROVE  Sound(h, ob2, mv, X \ {r})
  <1>1. r \in Cells /\ r \notin Roots(ob) /\ r # NULL
    BY CellsAssumption DEF Sound, Tidy
  <1>2. Roots(ob2) = Roots(ob) \cup {r}
    BY <1>1 DEF Roots
  <1>3. Roots(ob2) \cup (X \ {r}) = Roots(ob) \cup X /\ (X \ {r}) \cap Roots(ob2) = {}
    BY <1>2 DEF Sound
  <1>4. \A v : OwnsOf(ob, v) \subseteq OwnsOf(ob2, v)
    BY <1>1 DEF OwnsOf
  <1>5. \A p \in DOMAIN ob : ob[p].own # r
    BY <1>1 DEF Roots
  <1>6. \A p \in DOMAIN ob2 : ob2[p].own \in Pointers /\ ob2[p].ext \in Pointers
    BY <1>1 DEF Sound, Pointers
  <1>7. \A p, q \in DOMAIN ob2 : ob2[p].own = ob2[q].own /\ ob2[p].own # NULL => p = q
    BY <1>5 DEF Sound
  <1> QED  BY <1>3, <1>4, <1>6, <1>7, SoundRewrapped

\* The document of the variable v leaves it.
LEMMA SoundGiven ==
  ASSUME NEW h, NEW ob, NEW mv, NEW X, Sound(h, ob, mv, X),
         NEW v, <<v>> \in DOMAIN ob, NEW r, r = ob[<<v>>].own, r # NULL,
         NEW ob2, DOMAIN ob2 = DOMAIN ob,
         \A p \in DOMAIN ob : ob2[p].ext = ob[p].ext,
         \A p \in DOMAIN ob : ob2[p].own = IF p = <<v>> THEN NULL ELSE ob[p].own
  PROVE  Sound(h, ob2, mv \cup {v}, X \cup {r})
  <1>1. r \in Roots(ob) /\ r \in Cells /\ r \notin X
    BY DEF Sound, Roots, Pointers
  <1>2. \A p \in DOMAIN ob : p # <<v>> => ob[p].own # r
    BY DEF Sound
  <1>3. Roots(ob2) = Roots(ob) \ {r}
    BY <1>2 DEF Roots
  <1>4. /\ Roots(ob2) \cup (X \cup {r}) = Roots(ob) \cup X
        /\ (X \cup {r}) \cap Roots(ob2) = {}
    BY <1>1, <1>3 DEF Sound
  <1>5. ASSUME NEW u, u # v PROVE OwnsOf(ob, u) \subseteq OwnsOf(ob2, u)
    BY <1>5 DEF OwnsOf
  <1>6. \A p \in DOMAIN ob2 : ob2[p].own \in Pointers /\ ob2[p].ext \in Pointers
    BY DEF Sound, Pointers
  <1>7. \A p, q \in DOMAIN ob2 : ob2[p].own = ob2[q].own /\ ob2[p].own # NULL => p = q
    BY DEF Sound
  <1>8. \A w \in DOMAIN ob2 : w[1] \notin mv \cup {v} /\ ob2[w].ext # NULL =>
           \E x \in DOMAIN ob : /\ x[1] \notin mv /\ ob2[w].ext = ob[x].ext
                                /\ OwnsOf(ob, x[1]) \subseteq OwnsOf(ob2, w[1])
    BY <1>5
  <1> QED  BY <1>4, <1>6, <1>7, <1>8, SoundRewrapped

\* What the wrappers P of ob own
OwnedBy(ob, P) == {ob[p].own : p \in P} \ {NULL}

\* What the wrappers P own is freed; each of them goes, or is about nothing.
LEMMA SoundDropped ==
  ASSUME NEW h, NEW ob, NEW mv, NEW X, Sound(h, ob, mv, X), NEW P, P \subseteq DOMAIN ob,
         NEW g, g = Delete(h, OwnedBy(ob, P)),
         NEW ob2, DOMAIN ob2 \subseteq DOMAIN ob, DOMAIN ob \ P \subseteq DOMAIN ob2,
         \A p \in DOMAIN ob2 : /\ ob2[p].own = IF p \in P THEN NULL ELSE ob[p].own
                               /\ ob2[p].ext \in {ob[p].ext, NULL},
         NEW mv2, \A p \in DOMAIN ob2 : p[1] \in mv \ mv2 => ob2[p].ext = NULL
  PROVE  Sound(g, ob2, mv2, X)
  <1>1. PICK N : N = {ob[p].own : p \in P} \ {NULL}
    OBVIOUS
  <1>2. PICK R : R = Roots(ob) \cup X
    OBVIOUS
  <1>3. N \subseteq R /\ N \subseteq Roots(ob) /\ h \in Memories /\ Tidy(h, R) /\ g = Delete(h, N)
    BY <1>1, <1>2 DEF Sound, Roots, OwnedBy
  <1>4. g \in Memories /\ Dropped(h, g, R, N) /\ Tidy(g, R \ N)
    BY <1>3, DropTidy
  <1>5. \A p \in DOMAIN ob : p \notin P => ob[p].own \notin N
    BY <1>1 DEF Sound
  <1>6. Roots(ob2) = Roots(ob) \ N
    BY <1>1, <1>5 DEF Roots
  <1>7. R \ N = Roots(ob2) \cup X /\ X \cap Roots(ob2) = {}
    BY <1>2, <1>3, <1>6 DEF Sound
  <1>8. \A v : OwnsOf(ob, v) \ N \subseteq OwnsOf(ob2, v)
    BY <1>1 DEF OwnsOf
  <1>9. ASSUME NEW w \in DOMAIN ob2, w[1] \notin mv2, ob2[w].ext # NULL, Alive(g, ob2[w].ext)
        PROVE  ob2[w].ext \in Trees(g, OwnsOf(ob2, w[1]))
    <2>1. ob2[w].ext = ob[w].ext /\ w[1] \notin mv /\ ob[w].ext \in Cells
      BY <1>9 DEF Sound, Pointers
    <2>2. Alive(h, ob[w].ext) /\ ob[w].ext \notin Trees(h, N)
      BY <1>4, <1>9, <2>1 DEF Dropped
    <2>3. ob[w].ext \in Trees(h, OwnsOf(ob, w[1]))
      BY <1>9, <2>1, <2>2 DEF Sound
    <2>4. PICK A : A = OwnsOf(ob, w[1])
      OBVIOUS
    <2>5. A \subseteq R
      BY <1>2, <2>4, OwnsAreRoots
    <2>6. ob[w].ext \in Trees(g, A \ N)
      BY <1>4, <2>2, <2>3, <2>4, <2>5 DEF Dropped
    <2>7. A \ N \subseteq OwnsOf(ob2, w[1]) /\ OwnsOf(ob2, w[1]) \subseteq Cells
      BY <1>4, <1>7, <1>8, <2>4, OwnsAreRoots DEF Tidy
    <2> QED  BY <1>4, <2>1, <2>6, <2>7, TreesGrow
  <1>10. /\ \A w \in DOMAIN ob2 : ob2[w].own \in Pointers /\ ob2[w].ext \in Pointers
         /\ \A w, x \in DOMAIN ob2 : ob2[w].own = ob2[x].own /\ ob2[w].own # NULL => w = x
    BY DEF Sound, Pointers
  <1> QED  BY <1>4, <1>7, <1>9, <1>10 DEF Sound

(***************************************************************************)
(* Wrappers, and the ways they are named by                                *)
(***************************************************************************)
Steps == Vars \cup Keys \cup Indices

Way(w) ==
  w \in Seq(Steps) /\ w # <<>> /\ w[1] \in Vars /\ \A i \in 2..Len(w) : w[i] \in Keys \cup Indices

\* What TypeOK says of the wrappers
WrappersOK(ob) ==
  /\ ob \in [DOMAIN ob -> Wrapper]
  /\ \A w \in DOMAIN ob : /\ Way(w)
                          /\ Len(w) > 1 => Parent(w) \in DOMAIN ob
                          /\ ob[w].own = NULL \/ ob[w].ext = NULL
  /\ \A v \in Vars : <<v>> \in DOMAIN ob

\* The way to a wrapper is the way to its parent and a step.
LEMMA ParentWay ==
  ASSUME NEW w, Way(w), Len(w) > 1
  PROVE  /\ Way(Parent(w)) /\ Len(Parent(w)) = Len(w) - 1 /\ Parent(w)[1] = w[1]
         /\ \A i \in 1..(Len(w) - 1) : Parent(w)[i] = w[i]
  <1>1. w \in Seq(Steps) /\ Len(w) \in Nat /\ w[1] \in Vars /\ \A i \in 2..Len(w) : w[i] \in Keys \cup Indices
    BY DEF Way
  <1>2. PICK u : u = Parent(w)
    OBVIOUS
  <1>3. u \in Seq(Steps) /\ Len(u) = Len(w) - 1 /\ \A i \in 1..(Len(w) - 1) : u[i] = w[i]
    BY <1>1, <1>2 DEF Parent
  <1>4. u[1] = w[1] /\ u # <<>> /\ \A i \in 2..Len(u) : u[i] \in Keys \cup Indices
    BY <1>1, <1>3
  <1> QED  BY <1>1, <1>2, <1>3, <1>4 DEF Way

\* A way and a step are a way, with the way as its parent.
LEMMA ChildWay ==
  ASSUME NEW w, Way(w), NEW s \in Keys \cup Indices
  PROVE  Way(Append(w, s)) /\ Parent(Append(w, s)) = w /\ Len(Append(w, s)) = Len(w) + 1
  <1>1. w \in Seq(Steps) /\ Len(w) \in Nat /\ s \in Steps
    BY DEF Way, Steps
  <1>2. PICK u : u = Append(w, s)
    OBVIOUS
  <1>3. /\ u \in Seq(Steps) /\ Len(u) = Len(w) + 1 /\ u[Len(w) + 1] = s
        /\ \A i \in 1..Len(w) : u[i] = w[i]
    BY <1>1, <1>2
  <1>4. u # <<>> /\ u[1] = w[1] /\ \A i \in 2..Len(u) : u[i] \in Keys \cup Indices
    <2>1. Len(w) >= 1
      BY <1>1 DEF Way
    <2>2. \A i \in 2..Len(w) : w[i] \in Keys \cup Indices
      BY DEF Way
    <2> QED  BY <1>1, <1>3, <2>1, <2>2
  <1>5. SubSeq(u, 1, Len(u) - 1) = w
    <2>1. PICK t : t = SubSeq(u, 1, Len(u) - 1)
      OBVIOUS
    <2>2. t \in Seq(Steps) /\ Len(t) = Len(w) /\ \A i \in 1..Len(w) : t[i] = u[i]
      BY <1>1, <1>3, <2>1
    <2> QED  BY <1>1, <1>3, <2>1, <2>2
  <1> QED  BY <1>2, <1>3, <1>4, <1>5 DEF Way, Parent

\* Dropping wrappers with all that is below them, and changing what the others hold
LEMMA WrappersLeft ==
  ASSUME NEW ob, WrappersOK(ob), NEW P, NEW ob2, ob2 \in [DOMAIN ob \ P -> Wrapper],
         \A v \in Vars : <<v>> \notin P,
         \A p \in DOMAIN ob : Len(p) > 1 /\ Parent(p) \in P => p \in P,
         \A p \in DOMAIN ob2 : ob2[p].own = NULL \/ ob2[p].ext = NULL
  PROVE  WrappersOK(ob2)
  BY DEF WrappersOK

\* The wrappers kept below w: of its variable, and with what is below them
LEMMA CachedBelow ==
  ASSUME WrappersOK(obj), NEW w \in DOMAIN obj, NEW S
  PROVE  /\ Cached(w, S) \subseteq DOMAIN obj /\ w \notin Cached(w, S)
         /\ \A v \in Vars : <<v>> \notin Cached(w, S)
         /\ \A p \in Cached(w, S) : p[1] = w[1]
         /\ \A p \in DOMAIN obj : Len(p) > 1 /\ Parent(p) \in Cached(w, S) => p \in Cached(w, S)
  <1>1. \A p \in DOMAIN obj : Way(p) /\ Len(p) \in Nat /\ p \in Seq(Steps) /\ Len(p) >= 1
    BY DEF WrappersOK, Way
  <1>2. Len(w) \in Nat /\ Len(w) >= 1
    BY <1>1
  <1>3. \A p \in Cached(w, S) : p \in DOMAIN obj /\ Len(p) > Len(w) /\ SubSeq(p, 1, Len(w)) = w
    BY DEF Cached
  <1>4. \A v \in Vars : <<v>> \notin Cached(w, S)
    <2>1. \A v : Len(<<v>>) = 1
      OBVIOUS
    <2> QED  BY <1>2, <1>3, <2>1
  <1>5. \A p \in Cached(w, S) : p[1] = w[1]
    <2> SUFFICES ASSUME NEW p \in Cached(w, S) PROVE p[1] = w[1]
      OBVIOUS
    <2>1. p \in Seq(Steps) /\ Len(p) > Len(w) /\ SubSeq(p, 1, Len(w)) = w
      BY <1>1, <1>3
    <2>2. SubSeq(p, 1, Len(w))[1] = p[1]
      BY <1>2, <2>1
    <2> QED  BY <2>1, <2>2
  <1>6. ASSUME NEW p \in DOMAIN obj, Len(p) > 1, Parent(p) \in Cached(w, S)
        PROVE  p \in Cached(w, S)
    <2>1. PICK u : u = Parent(p)
      OBVIOUS
    <2>2. /\ p \in Seq(Steps) /\ Len(p) \in Nat /\ u \in Seq(Steps) /\ Len(u) = Len(p) - 1
          /\ \A i \in 1..(Len(p) - 1) : u[i] = p[i]
      BY <1>1, <1>6, <2>1, ParentWay DEF Way
    <2>3. Len(u) > Len(w) /\ SubSeq(u, 1, Len(w)) = w /\ u[Len(w) + 1] \in S
      BY <1>6, <2>1 DEF Cached
    <2>4. PICK t : t = SubSeq(p, 1, Len(w))
      OBVIOUS
    <2>5. PICK s : s = SubSeq(u, 1, Len(w))
      OBVIOUS
    <2>6. /\ t \in Seq(Steps) /\ Len(t) = Len(w) /\ \A i \in 1..Len(w) : t[i] = p[i]
      BY <1>2, <2>2, <2>3, <2>4
    <2>7. /\ s \in Seq(Steps) /\ Len(s) = Len(w) /\ \A i \in 1..Len(w) : s[i] = u[i]
      BY <1>2, <2>2, <2>3, <2>5
    <2>8. t = s
      <3>1. \A i \in 1..Len(w) : i \in 1..(Len(p) - 1)
        BY <1>2, <2>2, <2>3
      <3>2. \A i \in 1..Len(w) : t[i] = s[i]
        BY <2>2, <2>6, <2>7, <3>1
      <3> QED  BY <1>2, <2>6, <2>7, <3>2
    <2>9. p[Len(w) + 1] = u[Len(w) + 1] /\ Len(p) > Len(w)
      BY <1>2, <2>2, <2>3
    <2> QED  BY <2>3, <2>4, <2>5, <2>8, <2>9 DEF Cached
  <1> QED  BY <1>2, <1>3, <1>4, <1>5, <1>6

(***************************************************************************)
(* What is found                                                           *)
(***************************************************************************)
\* cJSON_GetObjectItem and cJSON_GetArrayItem give a child, or nothing.
LEMMA FoundIsKid ==
  ASSUME NEW h \in Memories, NEW c \in Cells, NEW k
  PROVE  GetObjectItem(h, c, k) = NULL \/ GetObjectItem(h, c, k) \in Kids(h, c)
  <1> DEFINE Named(i) == Fold[h[h[c].child[i]].string] = Fold[k]
             named == {i \in DOMAIN h[c].child : Named(i)}
  <1>1. \A i \in DOMAIN h[c].child : i \in Nat
    <2>1. h[c].child \in Seq(Cells)
      BY KidsAreCells
    <2>2. DOMAIN h[c].child = 1..Len(h[c].child) /\ Len(h[c].child) \in Nat
      BY <2>1
    <2> QED  BY <2>2
  <1>2. named \subseteq Nat /\ named \subseteq DOMAIN h[c].child
    BY <1>1
  <1>3. GetObjectItem(h, c, k) = IF named = {} THEN NULL
                                 ELSE h[c].child[CHOOSE i \in named : \A j \in named : i <= j]
    BY DEF GetObjectItem
  <1> HIDE DEF named
  <1>4. ASSUME named # {} PROVE \E i \in named : \A j \in named : i <= j
    <2> DEFINE Less == {p \in Nat \X Nat : p[1] < p[2]}
    <2>0. IsWellFoundedOn(Less, Nat)
      BY NatLessThanWellFounded DEF OpToRel
    <2>1. PICK i \in named : \A j \in named : ~(<<j, i>> \in Less)
      <3> HIDE DEF Less
      <3> QED  BY <1>2, <1>4, <2>0, WFMin
    <2>2. \A j \in named : ~(j < i)
      BY <1>2, <2>1
    <2>3. \A j \in named : i <= j
      BY <1>2, <2>2
    <2> QED  BY <2>3
  <1>5. CASE named # {}
    <2>1. PICK i : i = CHOOSE x \in named : \A j \in named : x <= j
      OBVIOUS
    <2>2. i \in named
      BY <1>4, <1>5, <2>1
    <2>3. GetObjectItem(h, c, k) = h[c].child[i] /\ i \in DOMAIN h[c].child
      BY <1>2, <1>3, <1>5, <2>1, <2>2
    <2> QED  BY <2>3, KidsAreCells
  <1> QED  BY <1>3, <1>5

\* cJSON_GetArrayItem returns an item of the array, or nothing.
LEMMA FoundAtIsKid ==
  ASSUME NEW h \in Memories, NEW c \in Cells, NEW i \in Int
  PROVE  GetArrayItem(h, c, i) = NULL \/ GetArrayItem(h, c, i) \in Kids(h, c)
  <1>1. h[c].child \in Seq(Cells)
    BY KidsAreCells
  <1>2. DOMAIN h[c].child = 1..Len(h[c].child) /\ Len(h[c].child) \in Nat
    BY <1>1
  <1>3. h[c].child # <<>> => Len(h[c].child) >= 1
    BY <1>1, <1>2
  <1>4. CASE h[c].child = <<>> \/ i >= Len(h[c].child)
    BY <1>4 DEF GetArrayItem
  <1>5. CASE ~(h[c].child = <<>> \/ i >= Len(h[c].child))
    <2>1. PICK j : j = IF i > 0 THEN i + 1 ELSE 1
      OBVIOUS
    <2>2. j \in DOMAIN h[c].child /\ GetArrayItem(h, c, i) = h[c].child[j]
      BY <1>2, <1>3, <1>5, <2>1 DEF GetArrayItem
    <2> QED  BY <2>2, KidsAreCells
  <1> QED  BY <1>4, <1>5

\* It is found as well when something else was put into free cells.
LEMMA FoundAsWell ==
  ASSUME NEW h \in Memories, NEW R, Tidy(h, R), NEW c \in Cells, Alive(h, c),
         NEW F, \A x \in F : ~Alive(h, x),
         NEW g \in Memories, \A x \in Cells \ F : g[x] = h[x], NEW k
  PROVE  GetObjectItem(g, c, k) = GetObjectItem(h, c, k)
  <1>1. c \notin F /\ g[c] = h[c]
    OBVIOUS
  <1>2. h[c].child \in Seq(Cells)
    BY KidsAreCells
  <1>3. ASSUME NEW i \in DOMAIN h[c].child PROVE g[h[c].child[i]] = h[h[c].child[i]]
    <2>1. h[c].child[i] \in Kids(h, c) /\ h[c].child[i] \in Cells
      BY KidsAreCells
    <2>2. Alive(h, h[c].child[i])
      BY <2>1 DEF Tidy
    <2> QED  BY <2>1, <2>2
  <1> DEFINE named(m) == {i \in DOMAIN m[c].child : Fold[m[m[c].child[i]].string] = Fold[k]}
  <1>4. \A i : i \in named(g) <=> i \in named(h)
    BY <1>1, <1>3
  <1>5. named(g) = named(h)
    BY <1>4
  <1>6. \A m : GetObjectItem(m, c, k) = IF named(m) = {} THEN NULL
                                 ELSE m[c].child[CHOOSE i \in named(m) : \A j \in named(m) : i <= j]
    BY DEF GetObjectItem
  <1> HIDE DEF named
  <1> QED  BY <1>1, <1>5, <1>6

(***************************************************************************)
(* Free cells                                                              *)
(***************************************************************************)
\* A free cell has no item and no pointer to it.
LEMMA FreeCells ==
  /\ Free \subseteq {c \in Cells : ~Alive(heap, c)} /\ IsFiniteSet(Free) /\ Cardinality(Free) \in Nat
  /\ \A p \in DOMAIN obj : obj[p].own \notin Free /\ obj[p].ext \notin Free
  <1>1. Free \subseteq {c \in Cells : ~Alive(heap, c)}
    BY DEF Free, Alive
  <1>2. IsFiniteSet(Free)
    BY <1>1, CellsAssumption, FS_Subset
  <1>3. \A p \in DOMAIN obj : obj[p].own \in Pointed /\ obj[p].ext \in Pointed
    BY DEF Pointed
  <1> QED  BY <1>1, <1>2, <1>3, FS_CardinalityType DEF Free

\* A cell is taken: the others are one less.
LEMMA FirstFree ==
  ASSUME NEW S, S \subseteq Cells, Cardinality(S) >= 1
  PROVE  First(S) \in S /\ Cardinality(S \ {First(S)}) = Cardinality(S) - 1
  <1>1. IsFiniteSet(S)
    BY CellsAssumption, FS_Subset
  <1>2. S # {}
    BY FS_EmptySet
  <1>3. First(S) \in S
    BY <1>2 DEF First
  <1> QED  BY <1>1, <1>3, FS_RemoveElement

\* A memory with the same links has the same trees.
LEMMA SameTrees ==
  ASSUME NEW h, NEW g, \A c \in Cells : g[c].child = h[c].child
  PROVE  \A N : Trees(g, N) = Trees(h, N)
  <1>1. Closed(g) = Closed(h)
    BY DEF Closed
  <1> QED  BY <1>1 DEF Trees

\* The array or object a wrapper is opened with is an item without children.
LEMMA RootsMade ==
  ASSUME NEW root \in {CreateObject, CreateArray}
  PROVE  root \in Item /\ root.type \in {"Array", "Object"} /\ root.child = <<>>
  BY ItemsMade DEF CreateObject, CreateArray, NewItem, Item, Types

(***************************************************************************)
(* New items and copies of items                                           *)
(***************************************************************************)
WithItem(h, n, item) == [h EXCEPT ![n] = item]

\* A new item is one more under way.
LEMMA SoundNew ==
  ASSUME NEW h, NEW ob, NEW mv, NEW X, Sound(h, ob, mv, X),
         NEW n \in Cells, ~Alive(h, n), \A p \in DOMAIN ob : ob[p].ext # n,
         NEW item \in Item, item.type # "freed", item.child = <<>>,
         NEW g, g = WithItem(h, n, item)
  PROVE  Sound(g, ob, mv, X \cup {n}) /\ g \in Memories /\ Grown(h, g, {n})
  <1>1. h \in Memories /\ Tidy(h, Roots(ob) \cup X)
    BY DEF Sound
  <1>2. g \in Memories /\ Grown(h, g, {n}) /\ Tidy(g, (Roots(ob) \cup X) \cup {n})
    BY <1>1, NewTidy DEF WithItem
  <1>3. PICK F : F = {n}
    OBVIOUS
  <1>4. F \subseteq {c \in Cells : ~Alive(h, c)} /\ n \in F /\ \A p \in DOMAIN ob : ob[p].ext \notin F
    BY <1>3
  <1> QED  BY <1>2, <1>3, <1>4, SoundGrown

\* So is a copy of an item.
LEMMA SoundCopied ==
  ASSUME NEW h, NEW ob, NEW mv, NEW X, Sound(h, ob, mv, X), NEW n \in Cells, Alive(h, n),
         NEW free, free \subseteq {c \in Cells : ~Alive(h, c)},
         Cardinality(Trees(h, {n})) <= Cardinality(free),
         \A p \in DOMAIN ob : ob[p].ext \notin free,
         NEW g, g = Copy(h, n, free), NEW r, r = CopyCell(h, n, free)[n]
  PROVE  Sound(g, ob, mv, X \cup {r}) /\ g \in Memories /\ Grown(h, g, free) /\ r \in free
  <1>1. h \in Memories /\ Tidy(h, Roots(ob) \cup X)
    BY DEF Sound
  <1>2. g \in Memories /\ r \in free /\ Grown(h, g, free) /\ Tidy(g, (Roots(ob) \cup X) \cup {r})
    BY <1>1, CopyTidy
  <1> QED  BY <1>2, SoundGrown

\* A wrapper about nothing gets a document of its own; one about something keeps it.
LEMMA SoundOpened ==
  ASSUME WrappersOK(obj), NEW ob, NEW mv, NEW X, Sound(heap, ob, mv, X), DOMAIN ob = DOMAIN obj,
         \A p \in DOMAIN ob : ob[p].ext = obj[p].ext,
         NEW w \in DOMAIN obj, ob[w].own = obj[w].own, w[1] \notin mv, Live(w),
         NEW n \in Nat, Room(w, n),
         NEW root \in {CreateObject, CreateArray}, Focus(w) = NULL \/ Is(w, root.type),
         NEW h, h = Opened(w, root),
         NEW ob1, DOMAIN ob1 = DOMAIN ob, \A p \in DOMAIN ob : ob1[p].ext = ob[p].ext,
         \A p \in DOMAIN ob : ob1[p].own = IF p = w THEN Own(w) ELSE ob[p].own
  PROVE  /\ Sound(h, ob1, mv, X)
         /\ At(w) \in Cells /\ At(w) \in Trees(h, Roots(ob1)) /\ h[At(w)].type = root.type
         /\ Rest(w) \subseteq {c \in Cells : ~Alive(h, c)} /\ Cardinality(Rest(w)) >= n
         /\ \A p \in DOMAIN ob1 : ob1[p].ext \notin Rest(w)
         /\ \A c \in Cells : Alive(heap, c) => h[c] = heap[c]
         /\ \A N : Trees(h, N) = Trees(heap, N)
  <1>1. root \in Item /\ root.type \in {"Array", "Object"} /\ root.child = <<>>
    BY RootsMade
  <1>2. heap \in Memories /\ Tidy(heap, Roots(ob) \cup X)
    BY DEF Sound
  <1>3. CASE Focus(w) # NULL
    <2>1. /\ h = heap /\ At(w) = Focus(w) /\ Own(w) = obj[w].own /\ Rest(w) = Free
          /\ Cardinality(Free) >= n
      <3>1. Cardinality(Free) >= n + 0
        BY <1>3 DEF Room
      <3> QED  BY <1>3, <3>1, FreeCells DEF Opened, At, Own, Rest
    <2>2. heap[Focus(w)].type = root.type
      BY <1>3 DEF Is, TypeOf
    <2>3. PICK f : f = Focus(w)
      OBVIOUS
    <2>4. f = IF ob[w].own # NULL THEN ob[w].own ELSE ob[w].ext
      BY <2>3 DEF Focus
    <2>5. f # NULL /\ Alive(heap, f)
      BY <1>1, <1>3, <2>2, <2>3 DEF Alive
    <2>6. f \in Cells /\ f \in Trees(heap, Roots(ob))
      BY <2>4, <2>5, FocusHeld
    <2>7. \A p \in DOMAIN ob : ob1[p].own = ob[p].own
      BY <2>1
    <2>8. /\ Roots(ob1) = Roots(ob) /\ \A v : OwnsOf(ob1, v) = OwnsOf(ob, v)
      BY <2>7 DEF Roots, OwnsOf
    <2>9. Sound(heap, ob1, mv, X)
      BY <2>7, <2>8 DEF Sound
    <2> QED  BY <2>1, <2>2, <2>3, <2>6, <2>8, <2>9, FreeCells
  <1>4. CASE Focus(w) = NULL
    <2>1. PICK r : r = First(Free)
      OBVIOUS
    <2>2. /\ h = [heap EXCEPT ![r] = root] /\ At(w) = r /\ Own(w) = r /\ Rest(w) = Free \ {r}
          /\ Cardinality(Free) >= n + 1
      BY <1>4, <2>1 DEF Opened, At, Own, Rest, Room
    <2>3. /\ r \in Free /\ Cardinality(Free \ {r}) = Cardinality(Free) - 1
          /\ r \in Cells /\ ~Alive(heap, r) /\ \A p \in DOMAIN ob : ob[p].ext # r
      <3>1. Free \subseteq Cells /\ Cardinality(Free) >= 1
        BY <2>2, FreeCells
      <3> QED  BY <2>1, <3>1, FirstFree, FreeCells
    <2>4. /\ Sound(h, ob, mv, X \cup {r}) /\ h \in Memories /\ Grown(heap, h, {r})
      <3>1. h = WithItem(heap, r, root) /\ root.type # "freed"
        BY <1>1, <2>2 DEF WithItem
      <3> QED  BY <1>1, <2>3, <3>1, SoundNew
    <2>5. ob[w].own = NULL /\ r \in X \cup {r} /\ r \notin X
      <3>1. r \notin X
        BY <1>2, <2>3 DEF Tidy
      <3> QED  BY <1>4, <3>1 DEF Focus
    <2>6. PICK Y : Y = X \cup {r}
      OBVIOUS
    <2>7. Sound(h, ob1, mv, Y \ {r})
      <3>1. \A p \in DOMAIN ob : ob1[p].own = IF p = w THEN r ELSE ob[p].own
        BY <2>2
      <3> QED  BY <2>4, <2>5, <2>6, <3>1, SoundTaken
    <2>8. Y \ {r} = X
      BY <2>5, <2>6
    <2>9. h[r] = root /\ \A c \in Cells : c # r => h[c] = heap[c]
      BY <1>2, <2>2, <2>3 DEF Memories
    <2>10. r \in Trees(h, Roots(ob1))
      <3>1. r \in Roots(ob1)
        BY <2>2, <2>3, CellsAssumption DEF Roots
      <3>2. Roots(ob1) \subseteq Cells
        BY <2>7, <2>8 DEF Sound, Tidy
      <3> QED  BY <2>4, <3>1, <3>2, TreesHold
    <2>11. \A N : Trees(h, N) = Trees(heap, N)
      <3>1. heap[r].child = <<>>
        BY <1>2, <2>3 DEF Tidy, Alive
      <3> QED  BY <1>1, <2>9, <3>1, SameTrees
    <2>12. Rest(w) \subseteq {c \in Cells : ~Alive(h, c)}
      BY <2>2, <2>9, FreeCells DEF Alive
    <2>13. \A p \in DOMAIN ob1 : ob1[p].ext \notin Rest(w)
      BY <2>2, FreeCells
    <2>14. Cardinality(Rest(w)) >= n
      BY <2>2, <2>3, FreeCells
    <2> QED  BY <1>1, <2>2, <2>3, <2>7, <2>8, <2>9, <2>10, <2>11, <2>12, <2>13, <2>14
  <1> QED  BY <1>3, <1>4

(***************************************************************************)
(* How a call ends                                                         *)
(***************************************************************************)
\* The wrapper w of ob with another document and another cursor
Given(ob, w, own, trav) == [ob EXCEPT ![w].own = own, ![w].trav = trav]

\* Wrappers that go together with what is below them, and no variable
Droppable(gone) ==
  /\ gone \subseteq DOMAIN obj /\ \A v \in Vars : <<v>> \notin gone
  /\ \A p \in DOMAIN obj : Len(p) > 1 /\ Parent(p) \in gone => p \in gone

\* The wrappers ob but for those that go
Left(ob, gone) == [p \in DOMAIN ob \ gone |-> ob[p]]

\* A wrapper that gets another document and cursor is in order, and so are the rest.
LEMMA GivenOK ==
  ASSUME NEW ob, WrappersOK(ob), NEW w \in DOMAIN ob, NEW own \in Pointers, NEW trav \in Pointers,
         own = NULL \/ ob[w].ext = NULL,
         NEW ob1, ob1 = Given(ob, w, own, trav)
  PROVE  /\ WrappersOK(ob1) /\ DOMAIN ob1 = DOMAIN ob
         /\ \A p \in DOMAIN ob : ob1[p].ext = ob[p].ext
         /\ \A p \in DOMAIN ob : ob1[p].own = IF p = w THEN own ELSE ob[p].own
  <1>1. ob \in [DOMAIN ob -> Wrapper] /\ ob[w] \in Wrapper
    BY DEF WrappersOK
  <1>2. DOMAIN ob1 = DOMAIN ob /\ \A p \in DOMAIN ob : p # w => ob1[p] = ob[p]
    BY <1>1 DEF Given
  <1>3. ob1[w].own = own /\ ob1[w].trav = trav /\ ob1[w].ext = ob[w].ext /\ ob1[w] \in Wrapper
    BY <1>1 DEF Given, Wrapper
  <1>4. ob1 \in [DOMAIN ob -> Wrapper]
    BY <1>1, <1>2, <1>3 DEF Given
  <1> QED  BY <1>2, <1>3, <1>4 DEF WrappersOK

\* So is a variable whose document is moved out of it.
LEMMA MovedOutOK ==
  ASSUME NEW ob, WrappersOK(ob), NEW v \in Vars, NEW ob1, ob1 = MovedOut(v, ob)
  PROVE  /\ WrappersOK(ob1) /\ DOMAIN ob1 = DOMAIN ob
         /\ \A p \in DOMAIN ob : ob1[p].ext = ob[p].ext
         /\ \A p \in DOMAIN ob : ob1[p].own = IF p = <<v>> THEN NULL ELSE ob[p].own
         /\ \A p \in DOMAIN ob : ob1[p].trav = ob[p].trav
  <1>1. ob \in [DOMAIN ob -> Wrapper] /\ <<v>> \in DOMAIN ob /\ ob[<<v>>] \in Wrapper
    BY DEF WrappersOK
  <1>2. DOMAIN ob1 = DOMAIN ob /\ \A p \in DOMAIN ob : p # <<v>> => ob1[p] = ob[p]
    BY <1>1 DEF MovedOut
  <1>3. /\ ob1[<<v>>].own = NULL /\ ob1[<<v>>].ext = ob[<<v>>].ext /\ ob1[<<v>>] \in Wrapper
        /\ ob1[<<v>>].trav = ob[<<v>>].trav
    BY <1>1 DEF MovedOut, Wrapper, Pointers
  <1>4. ob1 \in [DOMAIN ob -> Wrapper]
    <2>1. PICK w : w = <<v>>
      OBVIOUS
    <2>2. ob1 = [ob EXCEPT ![w] = ob1[w]] /\ ob1[w] \in Wrapper
      BY <1>1, <1>3, <2>1 DEF MovedOut
    <2>3. \A p \in DOMAIN ob : ob1[p] \in Wrapper
      BY <1>1, <1>2, <2>1, <2>2
    <2> QED  BY <1>2, <2>2, <2>3
  <1>5. \A p \in DOMAIN ob1 : ob1[p].own = NULL \/ ob1[p].ext = NULL
    <2>1. \A p \in DOMAIN ob : ob[p].own = NULL \/ ob[p].ext = NULL
      BY DEF WrappersOK
    <2> QED  BY <1>2, <1>3, <2>1
  <1>6. WrappersOK(ob1)
    <2>1. /\ \A w \in DOMAIN ob : Way(w) /\ (Len(w) > 1 => Parent(w) \in DOMAIN ob)
          /\ \A u \in Vars : <<u>> \in DOMAIN ob
      BY DEF WrappersOK
    <2>2. ob1 \in [DOMAIN ob1 -> Wrapper]
      BY <1>2, <1>4
    <2> QED  BY <1>2, <1>5, <2>1, <2>2 DEF WrappersOK
  <1>7. \A p \in DOMAIN ob : ob1[p].ext = ob[p].ext /\ ob1[p].trav = ob[p].trav
    BY <1>2, <1>3
  <1>8. \A p \in DOMAIN ob : ob1[p].own = IF p = <<v>> THEN NULL ELSE ob[p].own
    BY <1>2, <1>3
  <1> QED  BY <1>2, <1>6, <1>7, <1>8

\* The wrappers left when some go are in order.
LEMMA LeftOK ==
  ASSUME WrappersOK(obj), NEW ob, WrappersOK(ob), DOMAIN ob = DOMAIN obj, NEW gone, Droppable(gone),
         NEW ob2, ob2 = Left(ob, gone)
  PROVE  WrappersOK(ob2)
  <1>1. ob \in [DOMAIN ob -> Wrapper]
    BY DEF WrappersOK
  <1>2. ob2 \in [DOMAIN ob \ gone -> Wrapper]
    BY <1>1 DEF Left
  <1>3. \A p \in DOMAIN ob2 : ob2[p].own = NULL \/ ob2[p].ext = NULL
    BY <1>1 DEF Left, WrappersOK
  <1> QED  BY <1>2, <1>3, WrappersLeft DEF Droppable

\* The dropped wrappers go, and what they own.
LEMMA LeavesSound ==
  ASSUME WrappersOK(obj), NEW ob, WrappersOK(ob), DOMAIN ob = DOMAIN obj,
         NEW g, NEW mv, NEW X, Sound(g, ob, mv, X), NEW gone, Droppable(gone),
         \A p \in gone : ob[p].own = obj[p].own,
         NEW ob2, ob2 = Left(ob, gone), NEW h, h = Delete(g, Owned(gone))
  PROVE  WrappersOK(ob2) /\ Sound(h, ob2, mv, X)
  <1>1. Owned(gone) = OwnedBy(ob, gone)
    BY DEF Owned, OwnedBy
  <1>2. /\ gone \subseteq DOMAIN ob /\ DOMAIN ob2 \subseteq DOMAIN ob /\ DOMAIN ob \ gone \subseteq DOMAIN ob2
        /\ \A p \in DOMAIN ob2 : /\ ob2[p].own = IF p \in gone THEN NULL ELSE ob[p].own
                                 /\ ob2[p].ext \in {ob[p].ext, NULL}
    BY DEF Left, Droppable
  <1>3. h = Delete(g, OwnedBy(ob, gone))
    BY <1>1
  <1>4. \A p \in DOMAIN ob2 : p[1] \in mv \ mv => ob2[p].ext = NULL
    OBVIOUS
  <1>5. Sound(h, ob2, mv, X)
    BY <1>2, <1>3, <1>4, SoundDropped
  <1> QED  BY <1>5, LeftOK

\* The forms in which the calls say so
LEMMA RewrappedIs ==
  ASSUME WrappersOK(obj), NEW w \in DOMAIN obj, NEW gone, w \notin gone, NEW own, NEW trav
  PROVE  Rewrapped(gone, w, own, trav) = Left(Given(obj, w, own, trav), gone)
  <1>1. obj \in [DOMAIN obj -> Wrapper]
    BY DEF WrappersOK
  <1>2. DOMAIN obj \ gone \subseteq DOMAIN obj
    OBVIOUS
  <1>3. Without(gone) = [p \in DOMAIN obj \ gone |-> obj[p]]
    BY DEF Without, Restrict
  <1>4. PICK ob : ob = Without(gone)
    OBVIOUS
  <1>5. ob = [p \in DOMAIN obj \ gone |-> obj[p]]
    BY <1>3, <1>4
  <1>6. [ob EXCEPT ![w].own = own, ![w].trav = trav] =
          [p \in DOMAIN obj \ gone |-> [obj EXCEPT ![w].own = own, ![w].trav = trav][p]]
    BY <1>1, <1>5
  <1> QED  BY <1>4, <1>6 DEF Rewrapped, Left, Given

\* It does not matter whether the document is moved before the wrappers go or after.
LEMMA MovedOutIs ==
  ASSUME NEW ob, NEW gone, NEW v, <<v>> \in DOMAIN ob, <<v>> \notin gone
  PROVE  MovedOut(v, Left(ob, gone)) = Left(MovedOut(v, ob), gone)
  BY DEF MovedOut, Left

(***************************************************************************)
(* Add, and what is put into an array                                      *)
(***************************************************************************)
\* The memory g is h when n was put into a.
Joined(h, g, a, n) ==
  \/ g = AddItemToArray(h, a, n)
  \/ g = AddItemToArrayHead(h, a, n)
  \/ \E k \in Keys : g = AddItemToObject(h, a, k, n)

\* The end of all of them: the item n under way is put into a, and wrappers go.
LEMMA JoinedSound ==
  ASSUME WrappersOK(obj), NEW ob, WrappersOK(ob), DOMAIN ob = DOMAIN obj,
         NEW h, NEW mv, NEW X, NEW n, n \notin X, Sound(h, ob, mv, X \cup {n}),
         NEW a \in Cells, a \in Trees(h, Roots(ob)), h[a].type \in {"Array", "Object"},
         NEW g, Joined(h, g, a, n), NEW gone, Droppable(gone),
         \A p \in gone : ob[p].own = obj[p].own,
         NEW ob2, ob2 = Left(ob, gone), NEW h2, h2 = Delete(g, Owned(gone))
  PROVE  WrappersOK(ob2) /\ Sound(h2, ob2, mv, X)
  <1>1. PICK Y : Y = X \cup {n}
    OBVIOUS
  <1>2. n \in Y /\ Y \ {n} = X /\ Sound(h, ob, mv, Y)
    BY <1>1
  <1>3. Sound(g, ob, mv, Y \ {n})
    BY <1>2, SoundLinked DEF Joined
  <1>4. Sound(g, ob, mv, X)
    BY <1>2, <1>3
  <1> QED  BY <1>4, LeavesSound

\* The wrapper w when it was opened
LEMMA OpenedOK ==
  ASSUME WrappersOK(obj), NEW w \in DOMAIN obj, Room(w, 0), NEW trav \in Pointers,
         NEW ob, ob = Given(obj, w, Own(w), trav)
  PROVE  /\ WrappersOK(ob) /\ DOMAIN ob = DOMAIN obj /\ At(w) \in Pointers
         /\ \A p \in DOMAIN obj : ob[p].ext = obj[p].ext
         /\ \A p \in DOMAIN obj : ob[p].own = IF p = w THEN Own(w) ELSE obj[p].own
  <1>1. obj[w].own \in Pointers /\ obj[w].ext \in Pointers
    BY DEF WrappersOK, Wrapper
  <1>2. Own(w) \in Pointers /\ At(w) \in Pointers /\ (Own(w) = NULL \/ obj[w].ext = NULL)
    <2>1. CASE Focus(w) # NULL
      BY <2>1, <1>1 DEF Own, At, Focus, WrappersOK
    <2>2. CASE Focus(w) = NULL
      <3>1. Free \subseteq Cells /\ Cardinality(Free) >= 0 + 1
        BY <2>2, FreeCells DEF Room
      <3>2. First(Free) \in Cells
        BY <3>1, FirstFree
      <3> QED  BY <2>2, <3>2 DEF Own, At, Focus, Pointers
    <2> QED  BY <2>1, <2>2
  <1>3. ob = Given(obj, w, Own(w), trav)
    OBVIOUS
  <1> QED  BY <1>2, <1>3, GivenOK

\* Room for some items is room for none but the root.
LEMMA RoomLess ==
  ASSUME NEW w, NEW n \in Nat, Room(w, n)
  PROVE  Room(w, 0)
  BY FreeCells DEF Room

\* A scalar
LEMMA ScalarAdded ==
  ASSUME WrappersOK(obj), NEW X, Sound(heap, obj, moved, X),
         NEW w \in DOMAIN obj, Live(w), Room(w, 1),
         NEW root \in {CreateObject, CreateArray}, Focus(w) = NULL \/ Is(w, root.type),
         NEW item \in Item, item.type # "freed", item.child = <<>>,
         NEW n, n = First(Rest(w)), NEW h, h = WithItem(Opened(w, root), n, item),
         NEW g, Joined(h, g, At(w), n), NEW gone, Droppable(gone), w \notin gone,
         NEW trav \in Pointers,
         NEW ob2, ob2 = Rewrapped(gone, w, Own(w), trav), NEW h2, h2 = Delete(g, Owned(gone))
  PROVE  WrappersOK(ob2) /\ Sound(h2, ob2, moved, X)
  <1>1. PICK ob : ob = Given(obj, w, Own(w), trav)
    OBVIOUS
  <1>2. /\ WrappersOK(ob) /\ DOMAIN ob = DOMAIN obj
        /\ \A p \in DOMAIN obj : ob[p].ext = obj[p].ext
        /\ \A p \in DOMAIN obj : ob[p].own = IF p = w THEN Own(w) ELSE obj[p].own
    BY <1>1, OpenedOK, RoomLess
  <1>3. PICK f : f = Opened(w, root)
    OBVIOUS
  <1>4. w[1] \notin moved
    BY DEF Live
  <1>5. /\ Sound(f, ob, moved, X)
        /\ At(w) \in Cells /\ At(w) \in Trees(f, Roots(ob)) /\ f[At(w)].type = root.type
        /\ Rest(w) \subseteq {c \in Cells : ~Alive(f, c)} /\ Cardinality(Rest(w)) >= 1
        /\ \A p \in DOMAIN ob : ob[p].ext \notin Rest(w)
    BY <1>2, <1>3, <1>4, SoundOpened
  <1>6. n \in Rest(w) /\ n \in Cells /\ ~Alive(f, n) /\ n # At(w) /\ n \notin X
    <2>1. n \in Rest(w) /\ n \in Cells /\ ~Alive(f, n)
      BY <1>5, FirstFree
    <2>2. root.type # "freed"
      BY RootsMade
    <2> QED  BY <2>1, <2>2, <1>5 DEF Alive, Sound, Tidy
  <1>7. h = WithItem(f, n, item)
    BY <1>3
  <1>8. Sound(h, ob, moved, X \cup {n}) /\ h \in Memories /\ Grown(f, h, {n})
    <2>1. \A p \in DOMAIN ob : ob[p].ext # n
      BY <1>5, <1>6
    <2>2. Sound(f, ob, moved, X) /\ n \in Cells /\ ~Alive(f, n)
      BY <1>5, <1>6
    <2> QED  BY <1>7, <2>1, <2>2, SoundNew
  <1>9. At(w) \in Trees(h, Roots(ob)) /\ h[At(w)].type \in {"Array", "Object"}
    <2>1. Roots(ob) \subseteq Cells
      BY <1>5 DEF Sound, Tidy
    <2> QED  BY <1>5, <1>6, <1>8, <2>1, RootsMade DEF Grown
  <1>10. \A p \in gone : ob[p].own = obj[p].own
    BY <1>2 DEF Droppable
  <1>11. ob2 = Left(ob, gone)
    BY <1>1, RewrappedIs
  <1> QED  BY <1>2, <1>5, <1>6, <1>8, <1>9, <1>10, <1>11, JoinedSound

\* A copy
LEMMA CopyAdded ==
  ASSUME WrappersOK(obj), NEW X, Sound(heap, obj, moved, X),
         NEW w \in DOMAIN obj, Live(w),
         NEW root \in {CreateObject, CreateArray}, Focus(w) = NULL \/ Is(w, root.type),
         NEW x \in DOMAIN obj, Live(x), Focus(x) # NULL, Room(w, TreeSize(x)),
         NEW h, h = Copy(Opened(w, root), Focus(x), Rest(w)),
         NEW n, n = CopyCell(heap, Focus(x), Rest(w))[Focus(x)],
         NEW g, Joined(h, g, At(w), n), NEW gone, Droppable(gone), w \notin gone,
         NEW trav \in Pointers,
         NEW ob2, ob2 = Rewrapped(gone, w, Own(w), trav), NEW h2, h2 = Delete(g, Owned(gone))
  PROVE  WrappersOK(ob2) /\ Sound(h2, ob2, moved, X)
  <1>1. PICK ob : ob = Given(obj, w, Own(w), trav)
    OBVIOUS
  <1>2. PICK m : m = Focus(x)
    OBVIOUS
  <1>3. /\ m \in Cells /\ m # NULL /\ Alive(heap, m)
        /\ TreeSize(x) = Cardinality(Trees(heap, {m})) /\ TreeSize(x) \in Nat
    <2>1. m = IF obj[x].own # NULL THEN obj[x].own ELSE obj[x].ext
      BY <1>2 DEF Focus
    <2>2. Alive(heap, m)
      BY <1>2 DEF Live, Is, TypeOf, Alive
    <2>3. x[1] \notin moved
      BY DEF Live
    <2>4. m \in Cells
      BY <1>2, <2>1, <2>2, <2>3, FocusHeld
    <2>5. IsFiniteSet(Trees(heap, {m}))
      <3>1. Trees(heap, {m}) \subseteq Cells
        BY DEF Trees
      <3> QED  BY <3>1, CellsAssumption, FS_Subset
    <2> QED  BY <1>2, <2>2, <2>4, <2>5, FS_CardinalityType DEF TreeSize
  <1>4. /\ WrappersOK(ob) /\ DOMAIN ob = DOMAIN obj
        /\ \A p \in DOMAIN obj : ob[p].ext = obj[p].ext
        /\ \A p \in DOMAIN obj : ob[p].own = IF p = w THEN Own(w) ELSE obj[p].own
    BY <1>1, <1>3, OpenedOK, RoomLess
  <1>5. PICK f : f = Opened(w, root)
    OBVIOUS
  <1>6. w[1] \notin moved
    BY DEF Live
  <1>7. /\ Sound(f, ob, moved, X)
        /\ At(w) \in Cells /\ At(w) \in Trees(f, Roots(ob)) /\ f[At(w)].type = root.type
        /\ Rest(w) \subseteq {c \in Cells : ~Alive(f, c)} /\ Cardinality(Rest(w)) >= TreeSize(x)
        /\ \A p \in DOMAIN ob : ob[p].ext \notin Rest(w)
        /\ \A c \in Cells : Alive(heap, c) => f[c] = heap[c]
        /\ \A N : Trees(f, N) = Trees(heap, N)
    BY <1>4, <1>5, <1>6, <1>3, SoundOpened
  <1>8. /\ h = Copy(f, m, Rest(w)) /\ n = CopyCell(f, m, Rest(w))[m]
        /\ Alive(f, m) /\ Cardinality(Trees(f, {m})) <= Cardinality(Rest(w))
    <2>1. CopyCell(heap, m, Rest(w)) = CopyCell(f, m, Rest(w))
      BY <1>7 DEF CopyCell
    <2>2. Cardinality(Rest(w)) \in Nat
      <3>1. IsFiniteSet(Rest(w))
        BY <1>7, CellsAssumption, FS_Subset
      <3> QED  BY <3>1, FS_CardinalityType
    <2> QED  BY <1>2, <1>5, <1>7, <1>3, <2>1, <2>2 DEF Alive
  <1>9. /\ Sound(h, ob, moved, X \cup {n}) /\ h \in Memories /\ Grown(f, h, Rest(w)) /\ n \in Rest(w)
    BY <1>7, <1>8, <1>3, SoundCopied
  <1>10. At(w) \in Trees(h, Roots(ob)) /\ h[At(w)].type \in {"Array", "Object"} /\ n \notin X
    <2>1. Roots(ob) \subseteq Cells /\ n \notin X
      BY <1>7, <1>9 DEF Sound, Tidy
    <2>2. At(w) \notin Rest(w)
      BY <1>7, RootsMade DEF Alive
    <2> QED  BY <1>7, <1>9, <2>1, <2>2, RootsMade DEF Grown
  <1>11. \A p \in gone : ob[p].own = obj[p].own
    BY <1>4 DEF Droppable
  <1>12. ob2 = Left(ob, gone)
    BY <1>1, RewrappedIs
  <1> QED  BY <1>4, <1>7, <1>9, <1>10, <1>11, <1>12, JoinedSound

\* The document of another variable
LEMMA MoveAdded ==
  ASSUME WrappersOK(obj), NEW X, Sound(heap, obj, moved, X),
         NEW w \in DOMAIN obj, Live(w), Room(w, 0),
         NEW root \in {CreateObject, CreateArray}, Focus(w) = NULL \/ Is(w, root.type),
         NEW v \in Vars, v # w[1], NEW n, n = obj[<<v>>].own, n # NULL,
         NEW h, h = Opened(w, root),
         NEW g, Joined(h, g, At(w), n), NEW gone, Droppable(gone), w \notin gone,
         NEW trav \in Pointers,
         NEW ob2, ob2 = MovedOut(v, Rewrapped(gone, w, Own(w), trav)),
         NEW h2, h2 = Delete(g, Owned(gone))
  PROVE  WrappersOK(ob2) /\ Sound(h2, ob2, moved \cup {v}, X)
  <1>1. PICK ob : ob = Given(obj, w, Own(w), trav)
    OBVIOUS
  <1>2. /\ WrappersOK(ob) /\ DOMAIN ob = DOMAIN obj
        /\ \A p \in DOMAIN obj : ob[p].ext = obj[p].ext
        /\ \A p \in DOMAIN obj : ob[p].own = IF p = w THEN Own(w) ELSE obj[p].own
    BY <1>1, OpenedOK
  <1>3. <<v>> \in DOMAIN obj /\ <<v>> \notin gone /\ w # <<v>> /\ w[1] \notin moved \cup {v}
    <2>1. w # <<v>>
      <3>1. <<v>>[1] = v
        OBVIOUS
      <3> QED  BY <3>1
    <2> QED  BY <2>1 DEF WrappersOK, Droppable, Live
  <1>4. PICK ob0 : ob0 = MovedOut(v, obj)
    OBVIOUS
  <1>5. /\ DOMAIN ob0 = DOMAIN obj
        /\ \A p \in DOMAIN obj : ob0[p].ext = obj[p].ext
        /\ \A p \in DOMAIN obj : ob0[p].own = IF p = <<v>> THEN NULL ELSE obj[p].own
    BY <1>4, MovedOutOK
  <1>6. PICK mv : mv = moved \cup {v}
    OBVIOUS
  <1>7. Sound(heap, ob0, mv, X \cup {n}) /\ n \notin X
    <2>1. Sound(heap, ob0, mv, X \cup {n})
      BY <1>3, <1>5, <1>6, SoundGiven
    <2>2. n \in Roots(obj)
      BY <1>3 DEF Roots
    <2> QED  BY <2>1, <2>2 DEF Sound
  <1>8. PICK ob1 : ob1 = MovedOut(v, ob)
    OBVIOUS
  <1>9. /\ WrappersOK(ob1) /\ DOMAIN ob1 = DOMAIN obj
        /\ \A p \in DOMAIN obj : ob1[p].ext = obj[p].ext
        /\ \A p \in DOMAIN obj : ob1[p].own = IF p = <<v>> THEN NULL ELSE ob[p].own
    BY <1>2, <1>8, MovedOutOK
  <1>10. \A p \in DOMAIN ob0 : ob1[p].own = IF p = w THEN Own(w) ELSE ob0[p].own
    BY <1>2, <1>3, <1>5, <1>9
  <1>11. /\ Sound(h, ob1, mv, X \cup {n})
         /\ At(w) \in Cells /\ At(w) \in Trees(h, Roots(ob1)) /\ h[At(w)].type = root.type
    <2>1. ob0[w].own = obj[w].own /\ w[1] \notin mv /\ 0 \in Nat
      BY <1>3, <1>5, <1>6
    <2>2. \A p \in DOMAIN ob0 : ob1[p].ext = ob0[p].ext
      BY <1>5, <1>9
    <2>3. PICK Y : Y = X \cup {n}
      OBVIOUS
    <2> QED  BY <1>5, <1>7, <1>9, <1>10, <2>1, <2>2, <2>3, SoundOpened
  <1>12. \A p \in gone : ob1[p].own = obj[p].own
    BY <1>2, <1>3, <1>9 DEF Droppable
  <1>13. ob2 = Left(ob1, gone)
    <2>1. Rewrapped(gone, w, Own(w), trav) = Left(ob, gone)
      BY <1>1, RewrappedIs
    <2> QED  BY <1>2, <1>3, <1>8, <2>1, MovedOutIs
  <1>14. h[At(w)].type \in {"Array", "Object"}
    BY <1>11, RootsMade
  <1> QED  BY <1>6, <1>7, <1>9, <1>11, <1>12, <1>13, <1>14, JoinedSound

(***************************************************************************)
(* The calls                                                               *)
(***************************************************************************)
\* The wrappers are in order after a step, and the items under way are still those
\* of X: unless something that is not there may be replaced.
Keeping(X) ==
  /\ WrappersOK(obj') /\ moved' \subseteq moved \cup Vars
  /\ \E Y : Sound(heap', obj', moved', Y) /\ (Y = X \/ "replace_missing" \in Liberties)

Scalar(item) == item \in Item /\ item.type # "freed" /\ item.child = <<>>

\* The items the scalar overloads make
LEMMA ScalarsMade ==
  /\ \A s \in Strings : Scalar(CreateString(s))
  /\ \A n \in Integers32or64 : Scalar(IntegerItem(n)) /\ Scalar(FirstIntegerItem(n))
  /\ \A d \in Reals : Scalar(RealItem(d))
  /\ \A b \in Booleans : Scalar(CreateBool(b))
  /\ Scalar(CreateNull) /\ Scalar(CreateObject) /\ Scalar(CreateArray)
  <1>1. NewItem \in Item /\ NewItem.child = <<>> /\ 0 \in Int64
    BY ItemsMade DEF NewItem
  <1>2. \A s \in Strings : Scalar(CreateString(s))
    BY <1>1 DEF Scalar, CreateString, Item, Types
  <1>3. ASSUME NEW n \in Integers32or64, NEW sign \in {-1, 1}
        PROVE  Scalar([CreateInt(n.value, sign) EXCEPT !.number = 2 * n.value])
    <2>1. n.value \in Int
      BY CallersAssumption
    <2>2. PICK v \in Int64 : v = Cast("int64", n.value)
      BY <2>1, CastType
    <2>3. PICK u \in Int : u = 2 * Cast("uint64", n.value)
      <3>1. Cast("uint64", n.value) \in 0..(M64 - 1)
        BY <2>1, CastType
      <3>2. Cast("uint64", n.value) \in Int
        BY <3>1, WidthAssumption
      <3> QED  BY <3>2
    <2>4. PICK it : it = CreateInt(n.value, sign)
      OBVIOUS
    <2>5. it = [NewItem EXCEPT !.type = "Int", !.valueint = v, !.valuedouble = u, !.sign = sign]
      BY <2>2, <2>3, <2>4 DEF CreateInt
    <2>6. it \in Item /\ it.type = "Int" /\ it.child = <<>>
      BY <1>1, <2>5 DEF Item, Types
    <2>7. 2 * n.value \in Int
      BY <2>1
    <2>8. Scalar([it EXCEPT !.number = 2 * n.value])
      BY <2>6, <2>7 DEF Scalar, Item
    <2> QED  BY <2>4, <2>8
  <1>4. \A n \in Integers32or64 : Scalar(IntegerItem(n)) /\ Scalar(FirstIntegerItem(n))
    <2> SUFFICES ASSUME NEW n \in Integers32or64 PROVE Scalar(IntegerItem(n)) /\ Scalar(FirstIntegerItem(n))
      OBVIOUS
    <2>1. PICK sign \in {-1, 1} : IntegerItem(n) = [CreateInt(n.value, sign) EXCEPT !.number = 2 * n.value]
      BY DEF IntegerItem
    <2> QED  BY <1>3, <2>1 DEF FirstIntegerItem
  <1>5. \A d \in Reals : Scalar(RealItem(d))
    <2> SUFFICES ASSUME NEW d \in Reals PROVE Scalar(RealItem(d))
      OBVIOUS
    <2>1. d \in Int /\ Truncated(d) \in Int64
      BY ValuesAssumption
    <2>2. PICK it : it = CreateDouble(d, -1)
      OBVIOUS
    <2>3. it \in Item /\ it.type = "Double" /\ it.child = <<>>
      BY <1>1, <2>1, <2>2 DEF CreateDouble, Item, Types
    <2>4. Scalar([it EXCEPT !.number = d])
      BY <2>1, <2>3 DEF Scalar, Item
    <2> QED  BY <2>2, <2>4 DEF RealItem
  <1>6. \A b \in Booleans : Scalar(CreateBool(b))
    BY <1>1 DEF Scalar, CreateBool, Item, Types
  <1>7. Scalar(CreateNull) /\ Scalar(CreateObject) /\ Scalar(CreateArray)
    BY <1>1 DEF Scalar, CreateNull, CreateObject, CreateArray, Item, Types
  <1> QED  BY <1>2, <1>4, <1>5, <1>6, <1>7

\* The wrappers a call drops
LEMMA CachedDroppable ==
  ASSUME WrappersOK(obj), NEW w \in DOMAIN obj
  PROVE  /\ \A S : Droppable(Cached(w, S)) /\ w \notin Cached(w, S)
         /\ Droppable({}) /\ w \notin {}
  BY CachedBelow DEF Droppable

\* Add of a scalar
LEMMA AddScalarKeeps ==
  ASSUME WrappersOK(obj), NEW X, Sound(heap, obj, moved, X),
         NEW w \in DOMAIN obj, NEW k \in Keys, NEW item, Scalar(item), AddScalar(w, k, item)
  PROVE  Keeping(X)
  <1>1. PICK n : n = First(Rest(w))
    OBVIOUS
  <1>2. PICK h : h = WithItem(Opened(w, CreateObject), n, item)
    OBVIOUS
  <1>3. PICK g : g = AddItemToObject(h, At(w), k, n)
    OBVIOUS
  <1>4. /\ heap' = Delete(g, Owned({})) /\ obj' = Rewrapped({}, w, Own(w), At(w)) /\ moved' = moved
        /\ Live(w) /\ Room(w, 1) /\ (Focus(w) = NULL \/ Is(w, "Object"))
    BY <1>1, <1>2, <1>3 DEF AddScalar, CanAdd, Leaves, WithItem
  <1>5. At(w) \in Pointers
    BY <1>4, OpenedOK, RoomLess DEF Pointers
  <1>6. Joined(h, g, At(w), n) /\ CreateObject.type = "Object"
    BY <1>3 DEF Joined, CreateObject
  <1>7. WrappersOK(obj') /\ Sound(heap', obj', moved, X)
    BY <1>1, <1>2, <1>4, <1>5, <1>6, CachedDroppable, ScalarAdded DEF Scalar
  <1> QED  BY <1>4, <1>7 DEF Keeping

\* Add of a document that is none
LEMMA AddNothingKeeps ==
  ASSUME WrappersOK(obj), NEW X, Sound(heap, obj, moved, X),
         NEW w \in DOMAIN obj, NEW root \in {CreateObject, CreateArray}, AddNothing(w, root),
         moved' = moved
  PROVE  Keeping(X)
  <1>1. PICK trav : trav = IF root = CreateObject THEN At(w) ELSE obj[w].trav
    OBVIOUS
  <1>2. PICK h : h = Opened(w, root)
    OBVIOUS
  <1>3. /\ heap' = Delete(h, Owned({})) /\ obj' = Rewrapped({}, w, Own(w), trav)
        /\ Live(w) /\ Room(w, 0) /\ Focus(w) = NULL
    BY <1>1, <1>2 DEF AddNothing, Leaves, At, Own
  <1>4. At(w) \in Pointers /\ trav \in Pointers
    <2>1. obj[w].trav \in Pointers
      BY DEF WrappersOK, Wrapper
    <2>2. At(w) \in Pointers
      BY <1>3, <2>1, OpenedOK
    <2> QED  BY <1>1, <2>1, <2>2
  <1>5. PICK ob : ob = Given(obj, w, Own(w), trav)
    OBVIOUS
  <1>6. /\ WrappersOK(ob) /\ DOMAIN ob = DOMAIN obj
        /\ \A p \in DOMAIN obj : ob[p].ext = obj[p].ext
        /\ \A p \in DOMAIN obj : ob[p].own = IF p = w THEN Own(w) ELSE obj[p].own
    BY <1>3, <1>4, <1>5, OpenedOK
  <1>7. Sound(h, ob, moved, X)
    <2>1. w[1] \notin moved /\ 0 \in Nat
      BY <1>3 DEF Live
    <2> QED  BY <1>2, <1>3, <1>6, <2>1, SoundOpened
  <1>8. obj' = Left(ob, {})
    BY <1>3, <1>5, CachedDroppable, RewrappedIs
  <1>9. WrappersOK(obj') /\ Sound(heap', obj', moved, X)
    BY <1>3, <1>6, <1>7, <1>8, CachedDroppable, LeavesSound
  <1> QED  BY <1>9 DEF Keeping

\* Add of a copy
LEMMA AddCopyKeeps ==
  ASSUME WrappersOK(obj), NEW X, Sound(heap, obj, moved, X),
         NEW w \in DOMAIN obj, NEW k \in Keys, NEW x \in DOMAIN obj, AddCopy(w, k, x)
  PROVE  Keeping(X)
  <1>1. CASE Focus(x) = NULL
    BY <1>1, AddNothingKeeps DEF AddCopy
  <1>2. CASE Focus(x) # NULL
    <2>1. PICK h : h = Copy(Opened(w, CreateObject), Focus(x), Rest(w))
      OBVIOUS
    <2>2. PICK n : n = CopyCell(heap, Focus(x), Rest(w))[Focus(x)]
      OBVIOUS
    <2>3. PICK g : g = AddItemToObject(h, At(w), k, n)
      OBVIOUS
    <2>4. /\ heap' = Delete(g, Owned(Cached(w, {k}))) /\ obj' = Rewrapped(Cached(w, {k}), w, Own(w), At(w))
          /\ moved' = moved /\ Live(w) /\ Live(x) /\ Room(w, TreeSize(x))
          /\ (Focus(w) = NULL \/ Is(w, "Object"))
      BY <1>2, <2>1, <2>2, <2>3 DEF AddCopy, CanAdd, Leaves
    <2>5. At(w) \in Pointers
      <3>1. TreeSize(x) \in Nat
        <4>1. Trees(heap, {Focus(x)}) \subseteq Cells
          BY DEF Trees
        <4> QED  BY <4>1, CellsAssumption, FS_Subset, FS_CardinalityType DEF TreeSize
      <3>2. Room(w, 0)
        BY <2>4, <3>1, RoomLess
      <3>3. NULL \in Pointers
        BY DEF Pointers
      <3> QED  BY <3>2, <3>3, OpenedOK
    <2>6. Joined(h, g, At(w), n) /\ CreateObject.type = "Object"
      BY <2>3 DEF Joined, CreateObject
    <2>7. WrappersOK(obj') /\ Sound(heap', obj', moved, X)
      BY <1>2, <2>1, <2>2, <2>4, <2>5, <2>6, CachedDroppable, CopyAdded
    <2> QED  BY <2>4, <2>7 DEF Keeping
  <1> QED  BY <1>1, <1>2

\* Add of another variable's document
LEMMA AddMoveKeeps ==
  ASSUME WrappersOK(obj), NEW X, Sound(heap, obj, moved, X),
         NEW w \in DOMAIN obj, NEW k \in Keys, NEW v \in Vars, AddMove(w, k, v)
  PROVE  Keeping(X)
  <1>1. CASE obj[<<v>>].own = NULL
    BY <1>1, AddNothingKeeps DEF AddMove
  <1>2. CASE obj[<<v>>].own # NULL
    <2>1. PICK h : h = Opened(w, CreateObject)
      OBVIOUS
    <2>2. PICK n : n = obj[<<v>>].own
      OBVIOUS
    <2>3. PICK g : g = AddItemToObject(h, At(w), k, n)
      OBVIOUS
    <2>4. /\ heap' = Delete(g, Owned(Cached(w, {k})))
          /\ obj' = MovedOut(v, Rewrapped(Cached(w, {k}), w, Own(w), At(w)))
          /\ moved' = moved \cup {v} /\ Live(w) /\ Room(w, 0) /\ v # w[1]
          /\ (Focus(w) = NULL \/ Is(w, "Object"))
      BY <1>2, <2>1, <2>2, <2>3 DEF AddMove, CanAdd
    <2>5. At(w) \in Pointers
      <3>1. NULL \in Pointers
        BY DEF Pointers
      <3> QED  BY <2>4, <3>1, OpenedOK
    <2>6. Joined(h, g, At(w), n) /\ CreateObject.type = "Object"
      BY <2>3 DEF Joined, CreateObject
    <2>7. WrappersOK(obj') /\ Sound(heap', obj', moved \cup {v}, X)
      BY <1>2, <2>1, <2>2, <2>4, <2>5, <2>6, CachedDroppable, MoveAdded
    <2> QED  BY <2>4, <2>7 DEF Keeping
  <1> QED  BY <1>1, <1>2

\* Elements of an array
LEMMA PutScalarKeeps ==
  ASSUME WrappersOK(obj), NEW X, Sound(heap, obj, moved, X),
         NEW w \in DOMAIN obj, NEW item, Scalar(item), NEW first \in BOOLEAN, PutScalar(w, item, first)
  PROVE  Keeping(X)
  <1>1. PICK n : n = First(Rest(w))
    OBVIOUS
  <1>2. PICK h : h = WithItem(Opened(w, CreateArray), n, item)
    OBVIOUS
  <1>3. PICK g : g = Put(h, At(w), n, first)
    OBVIOUS
  <1>4. /\ heap' = Delete(g, Owned({})) /\ obj' = Rewrapped({}, w, Own(w), obj[w].trav)
        /\ moved' = moved
        /\ Live(w) /\ Room(w, 1) /\ (Focus(w) = NULL \/ Is(w, "Array"))
    BY <1>1, <1>2, <1>3 DEF PutScalar, CanPut, Leaves, WithItem
  <1>5. obj[w].trav \in Pointers
    BY DEF WrappersOK, Wrapper
  <1>6. Joined(h, g, At(w), n) /\ CreateArray.type = "Array"
    BY <1>3 DEF Joined, Put, CreateArray
  <1>7. WrappersOK(obj') /\ Sound(heap', obj', moved, X)
    BY <1>1, <1>2, <1>4, <1>5, <1>6, CachedDroppable, ScalarAdded DEF Scalar
  <1> QED  BY <1>4, <1>7 DEF Keeping

\* The wrappers an element put into the array drops may go.
LEMMA ShiftedDroppable ==
  ASSUME WrappersOK(obj), NEW w \in DOMAIN obj, NEW first
  PROVE  Droppable(Shifted(w, first)) /\ w \notin Shifted(w, first)
  BY CachedDroppable DEF Shifted

\* Add and AddAsFirst of a copy
LEMMA PutCopyKeeps ==
  ASSUME WrappersOK(obj), NEW X, Sound(heap, obj, moved, X),
         NEW w \in DOMAIN obj, NEW x \in DOMAIN obj, NEW first \in BOOLEAN, PutCopy(w, x, first)
  PROVE  Keeping(X)
  <1>1. CASE Focus(x) = NULL
    BY <1>1, AddNothingKeeps DEF PutCopy
  <1>2. CASE Focus(x) # NULL
    <2>1. PICK h : h = Copy(Opened(w, CreateArray), Focus(x), Rest(w))
      OBVIOUS
    <2>2. PICK n : n = CopyCell(heap, Focus(x), Rest(w))[Focus(x)]
      OBVIOUS
    <2>3. PICK g : g = Put(h, At(w), n, first)
      OBVIOUS
    <2>4. PICK gone : gone = Shifted(w, first)
      OBVIOUS
    <2>5. /\ heap' = Delete(g, Owned(gone)) /\ obj' = Rewrapped(gone, w, Own(w), obj[w].trav)
          /\ moved' = moved /\ Live(w) /\ Live(x) /\ Room(w, TreeSize(x))
          /\ (Focus(w) = NULL \/ Is(w, "Array"))
      BY <1>2, <2>1, <2>2, <2>3, <2>4 DEF PutCopy, CanPut, Leaves
    <2>6. obj[w].trav \in Pointers
      BY DEF WrappersOK, Wrapper
    <2>7. Joined(h, g, At(w), n) /\ CreateArray.type = "Array"
      BY <2>3 DEF Joined, Put, CreateArray
    <2>8. WrappersOK(obj') /\ Sound(heap', obj', moved, X)
      BY <1>2, <2>1, <2>2, <2>4, <2>5, <2>6, <2>7, ShiftedDroppable, CopyAdded
    <2> QED  BY <2>5, <2>8 DEF Keeping
  <1> QED  BY <1>1, <1>2

\* Add and AddAsFirst of a document that is moved
LEMMA PutMoveKeeps ==
  ASSUME WrappersOK(obj), NEW X, Sound(heap, obj, moved, X),
         NEW w \in DOMAIN obj, NEW v \in Vars, NEW first \in BOOLEAN, PutMove(w, v, first)
  PROVE  Keeping(X)
  <1>1. CASE obj[<<v>>].own = NULL
    BY <1>1, AddNothingKeeps DEF PutMove
  <1>2. CASE obj[<<v>>].own # NULL
    <2>1. PICK h : h = Opened(w, CreateArray)
      OBVIOUS
    <2>2. PICK n : n = obj[<<v>>].own
      OBVIOUS
    <2>3. PICK g : g = Put(h, At(w), n, first)
      OBVIOUS
    <2>4. PICK gone : gone = Shifted(w, first)
      OBVIOUS
    <2>5. /\ heap' = Delete(g, Owned(gone))
          /\ obj' = MovedOut(v, Rewrapped(gone, w, Own(w), obj[w].trav))
          /\ moved' = moved \cup {v} /\ Live(w) /\ Room(w, 0) /\ v # w[1]
          /\ (Focus(w) = NULL \/ Is(w, "Array"))
      BY <1>2, <2>1, <2>2, <2>3, <2>4 DEF PutMove, CanPut
    <2>6. obj[w].trav \in Pointers
      BY DEF WrappersOK, Wrapper
    <2>7. Joined(h, g, At(w), n) /\ CreateArray.type = "Array"
      BY <2>3 DEF Joined, Put, CreateArray
    <2>8. WrappersOK(obj') /\ Sound(heap', obj', moved \cup {v}, X)
      BY <1>2, <2>1, <2>2, <2>4, <2>5, <2>6, <2>7, ShiftedDroppable, MoveAdded
    <2> QED  BY <2>5, <2>8 DEF Keeping
  <1> QED  BY <1>1, <1>2

(***************************************************************************)
(* Delete and Replace                                                      *)
(***************************************************************************)
\* The cursor is no matter of the memory.
LEMMA SoundSame ==
  ASSUME NEW h, NEW ob, NEW mv, NEW X, Sound(h, ob, mv, X), NEW ob2, DOMAIN ob2 = DOMAIN ob,
         \A p \in DOMAIN ob : ob2[p].ext = ob[p].ext /\ ob2[p].own = ob[p].own
  PROVE  Sound(h, ob2, mv, X)
  <1>1. Roots(ob2) = Roots(ob) /\ \A v : OwnsOf(ob2, v) = OwnsOf(ob, v)
    BY DEF Roots, OwnsOf
  <1> QED  BY <1>1 DEF Sound

\* What a wrapper that can be used is about
LEMMA FocusIsItem ==
  ASSUME NEW X, Sound(heap, obj, moved, X), NEW w \in DOMAIN obj, Live(w), Focus(w) # NULL
  PROVE  Focus(w) \in Cells /\ Focus(w) \in Trees(heap, Roots(obj)) /\ Alive(heap, Focus(w))
  <1>1. PICK f : f = Focus(w)
    OBVIOUS
  <1>2. f = IF obj[w].own # NULL THEN obj[w].own ELSE obj[w].ext
    BY <1>1 DEF Focus
  <1>3. Alive(heap, f) /\ w[1] \notin moved
    BY <1>1 DEF Live, Is, TypeOf, Alive
  <1> QED  BY <1>1, <1>2, <1>3, FocusHeld

\* A live wrapper about an array or an object is about an item of some document.
LEMMA ContainerIsItem ==
  ASSUME NEW X, Sound(heap, obj, moved, X), NEW w \in DOMAIN obj, Live(w),
         NEW type \in {"Array", "Object"}, Is(w, type)
  PROVE  /\ Focus(w) \in Cells /\ Focus(w) \in Trees(heap, Roots(obj)) /\ Alive(heap, Focus(w))
         /\ heap[Focus(w)].type = type /\ Focus(w) # NULL
  BY FocusIsItem DEF Is, TypeOf

\* The calls keep the document of w.
LEMMA StaysSound ==
  ASSUME WrappersOK(obj), NEW g, NEW X, Sound(g, obj, moved, X), NEW w \in DOMAIN obj,
         NEW gone, Droppable(gone), w \notin gone, NEW trav \in Pointers,
         NEW ob2, ob2 = Rewrapped(gone, w, obj[w].own, trav), NEW h, h = Delete(g, Owned(gone))
  PROVE  WrappersOK(ob2) /\ Sound(h, ob2, moved, X)
  <1>1. PICK ob : ob = Given(obj, w, obj[w].own, trav)
    OBVIOUS
  <1>2. obj[w].own \in Pointers /\ (obj[w].own = NULL \/ obj[w].ext = NULL)
    BY DEF WrappersOK, Wrapper
  <1>3. /\ WrappersOK(ob) /\ DOMAIN ob = DOMAIN obj
        /\ \A p \in DOMAIN obj : ob[p].ext = obj[p].ext /\ ob[p].own = obj[p].own
    BY <1>1, <1>2, GivenOK
  <1>4. Sound(g, ob, moved, X)
    BY <1>3, SoundSame
  <1>5. ob2 = Left(ob, gone)
    BY <1>1, RewrappedIs
  <1>6. \A p \in gone : ob[p].own = obj[p].own
    BY <1>3 DEF Droppable
  <1> QED  BY <1>3, <1>4, <1>5, <1>6, LeavesSound

\* What a key or an index finds in a live document
LEMMA LookupIsKid ==
  ASSUME NEW X, Sound(heap, obj, moved, X), NEW w \in DOMAIN obj, Live(w), NEW k, Is(w, "Object")
  PROVE  Lookup(w, k) = NULL \/ Lookup(w, k) \in Kids(heap, Focus(w))
  <1>1. Focus(w) \in Cells /\ heap \in Memories
    BY ContainerIsItem DEF Sound
  <1> QED  BY <1>1, FoundIsKid DEF Lookup

\* And the element found under an index is one of its items.
LEMMA LookupAtIsKid ==
  ASSUME NEW X, Sound(heap, obj, moved, X), NEW w \in DOMAIN obj, Live(w), NEW i \in Indices, Is(w, "Array")
  PROVE  LookupAt(w, i) = NULL \/ LookupAt(w, i) \in Kids(heap, Focus(w))
  <1>1. Focus(w) \in Cells /\ heap \in Memories /\ i \in Int
    BY ContainerIsItem, CallersAssumption DEF Sound
  <1> QED  BY <1>1, FoundAtIsKid DEF LookupAt

\* Delete(key)
LEMMA DeleteMemberKeeps ==
  ASSUME WrappersOK(obj), NEW X, Sound(heap, obj, moved, X),
         NEW w \in DOMAIN obj, NEW k \in Keys, DeleteMember(w, k)
  PROVE  Keeping(X)
  <1>1. PICK g : g = DeleteItem(heap, Focus(w), Lookup(w, k))
    OBVIOUS
  <1>2. /\ heap' = Delete(g, Owned(Cached(w, {k}))) /\ moved' = moved
        /\ obj' = Rewrapped(Cached(w, {k}), w, obj[w].own, Focus(w))
        /\ Live(w) /\ Is(w, "Object")
    BY <1>1 DEF DeleteMember, Leaves
  <1>3. Focus(w) \in Cells /\ heap[Focus(w)].type = "Object" /\ Focus(w) \in Pointers
    BY <1>2, ContainerIsItem DEF Pointers
  <1>4. Lookup(w, k) = NULL \/ Lookup(w, k) \in Kids(heap, Focus(w))
    BY <1>2, LookupIsKid
  <1>5. Sound(g, obj, moved, X)
    BY <1>1, <1>3, <1>4, SoundDeleted
  <1>6. WrappersOK(obj') /\ Sound(heap', obj', moved, X)
    BY <1>2, <1>3, <1>5, CachedDroppable, StaysSound
  <1> QED  BY <1>2, <1>6 DEF Keeping

\* Delete(index)
LEMMA DeleteElementKeeps ==
  ASSUME WrappersOK(obj), NEW X, Sound(heap, obj, moved, X),
         NEW w \in DOMAIN obj, NEW i \in Indices, DeleteElement(w, i)
  PROVE  Keeping(X)
  <1>1. PICK g : g = DeleteItem(heap, Focus(w), LookupAt(w, i))
    OBVIOUS
  <1>2. /\ heap' = Delete(g, Owned(Cached(w, From(i)))) /\ moved' = moved
        /\ obj' = Rewrapped(Cached(w, From(i)), w, obj[w].own, obj[w].trav)
        /\ Live(w) /\ Is(w, "Array")
    BY <1>1 DEF DeleteElement, Leaves
  <1>3. Focus(w) \in Cells /\ heap[Focus(w)].type = "Array" /\ obj[w].trav \in Pointers
    BY <1>2, ContainerIsItem DEF WrappersOK, Wrapper
  <1>4. LookupAt(w, i) = NULL \/ LookupAt(w, i) \in Kids(heap, Focus(w))
    BY <1>2, LookupAtIsKid
  <1>5. Sound(g, obj, moved, X)
    BY <1>1, <1>3, <1>4, SoundDeleted
  <1>6. WrappersOK(obj') /\ Sound(heap', obj', moved, X)
    BY <1>2, <1>3, <1>5, CachedDroppable, StaysSound
  <1> QED  BY <1>2, <1>6 DEF Keeping

\* The memory g is h when m took the place of n in a, or when there is no n.
Replaced(h, g, a, n, m) ==
  \/ n = NULL /\ g = h
  \/ /\ n \in Kids(h, a)
     /\ \/ g = ReplaceItem(h, a, n, m)
        \/ \E k \in Keys : g = ReplaceItem([h EXCEPT ![m].string = k], a, n, m)

\* The item m under way is in the document now; or there was nothing to replace.
LEMMA ReplacedSound ==
  ASSUME NEW h, NEW ob, NEW mv, NEW X, NEW m, m \notin X, Sound(h, ob, mv, X \cup {m}),
         NEW a \in Cells, a \in Trees(h, Roots(ob)), h[a].type \in {"Array", "Object"},
         NEW n, NEW g, Replaced(h, g, a, n, m), n # NULL \/ "replace_missing" \in Liberties
  PROVE  \E Y : Sound(g, ob, mv, Y) /\ (Y = X \/ "replace_missing" \in Liberties)
  <1>1. CASE n = NULL /\ g = h
    BY <1>1
  <1>2. CASE /\ n \in Kids(h, a)
             /\ \/ g = ReplaceItem(h, a, n, m)
                \/ \E k \in Keys : g = ReplaceItem([h EXCEPT ![m].string = k], a, n, m)
    <2>1. PICK Y : Y = X \cup {m}
      OBVIOUS
    <2>2. m \in Y /\ Y \ {m} = X /\ Sound(h, ob, mv, Y)
      BY <2>1
    <2>3. Sound(g, ob, mv, Y \ {m})
      BY <1>2, <2>2, SoundReplaced
    <2> QED  BY <2>2, <2>3
  <1> QED  BY <1>1, <1>2 DEF Replaced

\* The item found by its key is found as well when the new one has been made.
LEMMA ReplacedByKey ==
  ASSUME NEW X, Sound(heap, obj, moved, X), NEW w \in DOMAIN obj, Live(w), NEW k \in Keys, Is(w, "Object"),
         NEW F, \A c \in F : ~Alive(heap, c), NEW h \in Memories, \A c \in Cells \ F : h[c] = heap[c],
         NEW m, NEW g, g = ReplaceItemInObject(h, Focus(w), k, m)
  PROVE  Replaced(h, g, Focus(w), Lookup(w, k), m) /\ h[Focus(w)] = heap[Focus(w)]
  <1>1. Focus(w) \in Cells /\ Alive(heap, Focus(w)) /\ heap \in Memories /\ Tidy(heap, Roots(obj) \cup X)
    BY ContainerIsItem DEF Sound
  <1>2. PICK n : n = Lookup(w, k)
    OBVIOUS
  <1>3. n = GetObjectItem(h, Focus(w), k)
    BY <1>1, <1>2, FoundAsWell DEF Lookup
  <1>4. n = NULL \/ n \in Kids(h, Focus(w))
    BY <1>1, <1>3, FoundIsKid
  <1>5. n = NULL => g = h
    BY <1>3 DEF ReplaceItemInObject
  <1>6. n # NULL => g = ReplaceItem([h EXCEPT ![m].string = k], Focus(w), n, m)
    BY <1>3 DEF ReplaceItemInObject
  <1> QED  BY <1>1, <1>2, <1>4, <1>5, <1>6 DEF Replaced

\* Replace by index, likewise
LEMMA ReplacedByIndex ==
  ASSUME NEW X, Sound(heap, obj, moved, X), NEW w \in DOMAIN obj, Live(w), NEW i \in Indices, Is(w, "Array"),
         NEW F, \A c \in F : ~Alive(heap, c), NEW h \in Memories, \A c \in Cells \ F : h[c] = heap[c],
         NEW m, NEW g, g = ReplaceItem(h, Focus(w), LookupAt(w, i), m)
  PROVE  Replaced(h, g, Focus(w), LookupAt(w, i), m) /\ h[Focus(w)] = heap[Focus(w)]
  <1>1. Focus(w) \in Cells /\ Alive(heap, Focus(w))
    BY ContainerIsItem
  <1>2. h[Focus(w)] = heap[Focus(w)]
    BY <1>1
  <1>3. LookupAt(w, i) = NULL \/ LookupAt(w, i) \in Kids(h, Focus(w))
    BY <1>2, LookupAtIsKid DEF Kids
  <1>4. LookupAt(w, i) = NULL => g = h
    BY DEF ReplaceItem
  <1> QED  BY <1>2, <1>3, <1>4 DEF Replaced

\* The end of the calls that replace something by a new item or a copy, in the cells F
LEMMA PlacedKeeps ==
  ASSUME WrappersOK(obj), NEW X, Sound(heap, obj, moved, X), NEW w \in DOMAIN obj, Live(w),
         NEW type \in {"Array", "Object"}, Is(w, type),
         NEW F, F \subseteq {c \in Cells : ~Alive(heap, c)}, NEW m \in F,
         NEW h, Sound(h, obj, moved, X \cup {m}), Grown(heap, h, F),
         NEW n, NEW g, Replaced(h, g, Focus(w), n, m), CanReplace(w, n),
         NEW gone, Droppable(gone), w \notin gone, Stays(g, gone, w), moved' = moved
  PROVE  Keeping(X)
  <1>1. /\ Focus(w) \in Cells /\ Focus(w) \in Trees(heap, Roots(obj)) /\ Alive(heap, Focus(w))
        /\ heap[Focus(w)].type = type
    BY ContainerIsItem
  <1>2. Roots(obj) \subseteq Cells /\ m \notin X
    BY DEF Sound, Tidy
  <1>3. Focus(w) \in Trees(h, Roots(obj)) /\ h[Focus(w)].type \in {"Array", "Object"}
    BY <1>1, <1>2 DEF Grown
  <1>4. n # NULL \/ "replace_missing" \in Liberties
    BY DEF CanReplace, Unless
  <1>5. PICK Y : Sound(g, obj, moved, Y) /\ (Y = X \/ "replace_missing" \in Liberties)
    BY <1>1, <1>2, <1>3, <1>4, ReplacedSound
  <1>6. /\ heap' = Delete(g, Owned(gone)) /\ obj' = Rewrapped(gone, w, obj[w].own, obj[w].trav)
        /\ obj[w].trav \in Pointers
    BY DEF Stays, Leaves, WrappersOK, Wrapper
  <1>7. WrappersOK(obj') /\ Sound(heap', obj', moved, Y)
    BY <1>5, <1>6, StaysSound
  <1> QED  BY <1>5, <1>7 DEF Keeping

\* The end of those that replace something by another variable's document
LEMMA MovedInKeeps ==
  ASSUME WrappersOK(obj), NEW X, Sound(heap, obj, moved, X), NEW w \in DOMAIN obj, Live(w),
         NEW type \in {"Array", "Object"}, Is(w, type),
         NEW v \in Vars, v # w[1], NEW m, m = obj[<<v>>].own, m # NULL,
         NEW n, NEW g, Replaced(heap, g, Focus(w), n, m), CanReplace(w, n),
         NEW gone, Droppable(gone), heap' = Delete(g, Owned(gone)),
         obj' = MovedOut(v, Without(gone)), moved' = moved \cup {v}
  PROVE  Keeping(X)
  <1>1. PICK ob : ob = MovedOut(v, obj)
    OBVIOUS
  <1>2. /\ WrappersOK(ob) /\ DOMAIN ob = DOMAIN obj
        /\ \A p \in DOMAIN obj : ob[p].ext = obj[p].ext
        /\ \A p \in DOMAIN obj : ob[p].own = IF p = <<v>> THEN NULL ELSE obj[p].own
    BY <1>1, MovedOutOK
  <1>3. <<v>> \in DOMAIN obj /\ <<v>> \notin gone /\ w # <<v>> /\ w[1] \notin moved \cup {v}
    <2>1. w # <<v>>
      <3>1. <<v>>[1] = v
        OBVIOUS
      <3> QED  BY <3>1
    <2> QED  BY <2>1 DEF WrappersOK, Droppable, Live
  <1>4. PICK mv : mv = moved \cup {v}
    OBVIOUS
  <1>5. Sound(heap, ob, mv, X \cup {m}) /\ m \notin X
    <2>1. Sound(heap, ob, mv, X \cup {m})
      BY <1>2, <1>3, <1>4, SoundGiven
    <2>2. m \in Roots(obj)
      BY <1>3 DEF Roots
    <2> QED  BY <2>1, <2>2 DEF Sound
  <1>6. Focus(w) \in Cells /\ Focus(w) \in Trees(heap, Roots(ob)) /\ heap[Focus(w)].type = type
    <2>1. /\ Focus(w) \in Cells /\ Alive(heap, Focus(w))
          /\ heap[Focus(w)].type = type /\ Focus(w) # NULL
      BY ContainerIsItem
    <2>2. PICK f : f = Focus(w)
      OBVIOUS
    <2>3. f = IF ob[w].own # NULL THEN ob[w].own ELSE ob[w].ext
      BY <1>2, <1>3, <2>2 DEF Focus
    <2>4. f \in Trees(heap, Roots(ob))
      <3>1. w \in DOMAIN ob /\ w[1] \notin mv
        BY <1>2, <1>3, <1>4
      <3>2. PICK Y : Y = X \cup {m}
        OBVIOUS
      <3> QED  BY <1>5, <2>1, <2>2, <2>3, <3>1, <3>2, FocusHeld
    <2> QED  BY <2>1, <2>2, <2>4
  <1>7. n # NULL \/ "replace_missing" \in Liberties
    BY DEF CanReplace, Unless
  <1>8. PICK Y : Sound(g, ob, mv, Y) /\ (Y = X \/ "replace_missing" \in Liberties)
    BY <1>5, <1>6, <1>7, ReplacedSound
  <1>9. obj' = Left(ob, gone)
    <2>1. Without(gone) = Left(obj, gone)
      <3>1. DOMAIN obj \ gone \subseteq DOMAIN obj
        OBVIOUS
      <3> QED  BY <3>1 DEF Without, Restrict, Left
    <2> QED  BY <1>1, <1>3, <2>1, MovedOutIs
  <1>10. \A p \in gone : ob[p].own = obj[p].own
    BY <1>2, <1>3 DEF Droppable
  <1>11. WrappersOK(obj') /\ Sound(heap', obj', mv, Y)
    BY <1>2, <1>8, <1>9, <1>10, LeavesSound
  <1> QED  BY <1>4, <1>8, <1>11 DEF Keeping

\* The wrappers a Replace drops may go.
LEMMA DroppedWithDroppable ==
  ASSUME WrappersOK(obj), NEW w \in DOMAIN obj, NEW item, NEW s
  PROVE  Droppable(DroppedWith(w, item, s)) /\ w \notin DroppedWith(w, item, s)
  BY CachedDroppable DEF DroppedWith

\* A new item, where there is room for one
LEMMA MadeInFree ==
  ASSUME WrappersOK(obj), NEW X, Sound(heap, obj, moved, X), NEW w \in DOMAIN obj,
         Focus(w) # NULL, Room(w, 1), NEW item, Scalar(item),
         NEW n, n = First(Free), NEW h, h = WithItem(heap, n, item)
  PROVE  /\ {n} \subseteq {c \in Cells : ~Alive(heap, c)}
         /\ Sound(h, obj, moved, X \cup {n}) /\ h \in Memories /\ Grown(heap, h, {n})
  <1>1. n \in Free
    <2>1. Free \subseteq Cells /\ Cardinality(Free) >= 1
      BY FreeCells DEF Room
    <2> QED  BY <2>1, FirstFree
  <1>2. n \in Cells /\ ~Alive(heap, n) /\ \A p \in DOMAIN obj : obj[p].ext # n
    BY <1>1, FreeCells
  <1>3. Sound(h, obj, moved, X \cup {n}) /\ h \in Memories /\ Grown(heap, h, {n})
    BY <1>2, SoundNew DEF Scalar
  <1> QED  BY <1>2, <1>3

\* Replace(key, ...) of a scalar
LEMMA ReplaceScalarKeeps ==
  ASSUME WrappersOK(obj), NEW X, Sound(heap, obj, moved, X),
         NEW w \in DOMAIN obj, NEW k \in Keys, NEW item, Scalar(item),
         ReplaceScalar(w, k, item)
  PROVE  Keeping(X)
  <1>1. PICK n : n = First(Free)
    OBVIOUS
  <1>2. PICK h : h = WithItem(heap, n, item)
    OBVIOUS
  <1>3. PICK g : g = ReplaceItemInObject(h, Focus(w), k, n)
    OBVIOUS
  <1>4. /\ Live(w) /\ Is(w, "Object") /\ Room(w, 1) /\ CanReplace(w, Lookup(w, k)) /\ moved' = moved
        /\ Stays(g, Cached(w, {k}), w)
    BY <1>1, <1>2, <1>3 DEF ReplaceScalar, WithItem
  <1>5. PICK F : F = {n}
    OBVIOUS
  <1>6. /\ F \subseteq {c \in Cells : ~Alive(heap, c)} /\ n \in F
        /\ Sound(h, obj, moved, X \cup {n}) /\ h \in Memories /\ Grown(heap, h, F)
    <2>1. Focus(w) # NULL
      BY <1>4, ContainerIsItem
    <2> QED  BY <1>1, <1>2, <1>4, <1>5, <2>1, MadeInFree
  <1>7. Replaced(h, g, Focus(w), Lookup(w, k), n)
    BY <1>3, <1>4, <1>6, ReplacedByKey DEF Grown
  <1> QED  BY <1>4, <1>6, <1>7, CachedDroppable, PlacedKeeps

\* Replace(index, ...) of a scalar
LEMMA ReplaceScalarAtKeeps ==
  ASSUME WrappersOK(obj), NEW X, Sound(heap, obj, moved, X),
         NEW w \in DOMAIN obj, NEW i \in Indices, NEW item, Scalar(item),
         ReplaceScalarAt(w, i, item)
  PROVE  Keeping(X)
  <1>1. PICK n : n = First(Free)
    OBVIOUS
  <1>2. PICK h : h = WithItem(heap, n, item)
    OBVIOUS
  <1>3. PICK g : g = ReplaceItem(h, Focus(w), LookupAt(w, i), n)
    OBVIOUS
  <1>4. /\ Live(w) /\ Is(w, "Array") /\ Room(w, 1) /\ CanReplace(w, LookupAt(w, i)) /\ moved' = moved
        /\ Stays(g, Cached(w, {i}), w)
    BY <1>1, <1>2, <1>3 DEF ReplaceScalarAt, WithItem
  <1>5. PICK F : F = {n}
    OBVIOUS
  <1>6. /\ F \subseteq {c \in Cells : ~Alive(heap, c)} /\ n \in F
        /\ Sound(h, obj, moved, X \cup {n}) /\ h \in Memories /\ Grown(heap, h, F)
    <2>1. Focus(w) # NULL
      BY <1>4, ContainerIsItem
    <2> QED  BY <1>1, <1>2, <1>4, <1>5, <2>1, MadeInFree
  <1>7. Replaced(h, g, Focus(w), LookupAt(w, i), n)
    BY <1>3, <1>4, <1>6, ReplacedByIndex DEF Grown
  <1> QED  BY <1>4, <1>6, <1>7, CachedDroppable, PlacedKeeps

\* A copy, where there is room for one
LEMMA CopiedInFree ==
  ASSUME WrappersOK(obj), NEW X, Sound(heap, obj, moved, X),
         NEW m \in Cells, Alive(heap, m), Cardinality(Free) >= Cardinality(Trees(heap, {m})),
         NEW h, h = Copy(heap, m, Free), NEW n, n = CopyCell(heap, m, Free)[m]
  PROVE  /\ Free \subseteq {c \in Cells : ~Alive(heap, c)} /\ n \in Free
         /\ Sound(h, obj, moved, X \cup {n}) /\ h \in Memories /\ Grown(heap, h, Free)
  <1>1. Cardinality(Trees(heap, {m})) <= Cardinality(Free)
    <2>1. Trees(heap, {m}) \subseteq Cells
      BY DEF Trees
    <2>2. Cardinality(Trees(heap, {m})) \in Nat
      BY <2>1, CellsAssumption, FS_Subset, FS_CardinalityType
    <2> QED  BY <2>2, FreeCells
  <1> QED  BY <1>1, FreeCells, SoundCopied

\* Where there is room for a copy, the free cells suffice for it.
LEMMA RoomForCopy ==
  ASSUME NEW w, Focus(w) # NULL, NEW x, Room(w, TreeSize(x))
  PROVE  Cardinality(Free) >= Cardinality(Trees(heap, {Focus(x)}))
  <1>1. Trees(heap, {Focus(x)}) \subseteq Cells
    BY DEF Trees
  <1>2. Cardinality(Trees(heap, {Focus(x)})) \in Nat
    BY <1>1, CellsAssumption, FS_Subset, FS_CardinalityType
  <1> QED  BY <1>2, FreeCells DEF Room, TreeSize

\* Replace(key, const CJsonObject&)
LEMMA ReplaceCopyKeeps ==
  ASSUME WrappersOK(obj), NEW X, Sound(heap, obj, moved, X),
         NEW w \in DOMAIN obj, NEW k \in Keys, NEW x \in DOMAIN obj, ReplaceCopy(w, k, x)
  PROVE  Keeping(X)
  <1>1. PICK m : m = Focus(x)
    OBVIOUS
  <1>2. PICK h : h = Copy(heap, m, Free)
    OBVIOUS
  <1>3. PICK n : n = CopyCell(heap, m, Free)[m]
    OBVIOUS
  <1>4. PICK g : g = ReplaceItemInObject(h, Focus(w), k, n)
    OBVIOUS
  <1>5. /\ Live(w) /\ Is(w, "Object") /\ CanReplace(w, Lookup(w, k)) /\ moved' = moved
        /\ Live(x) /\ m # NULL /\ Room(w, TreeSize(x))
        /\ Stays(g, DroppedWith(w, Lookup(w, k), k), w)
    BY <1>1, <1>2, <1>3, <1>4 DEF ReplaceCopy
  <1>6. /\ Free \subseteq {c \in Cells : ~Alive(heap, c)} /\ n \in Free
        /\ Sound(h, obj, moved, X \cup {n}) /\ h \in Memories /\ Grown(heap, h, Free)
    <2>1. m \in Cells /\ Alive(heap, m)
      BY <1>1, <1>5, FocusIsItem
    <2>2. Cardinality(Free) >= Cardinality(Trees(heap, {m}))
      BY <1>1, <1>5, ContainerIsItem, RoomForCopy
    <2> QED  BY <1>2, <1>3, <2>1, <2>2, CopiedInFree
  <1>7. Replaced(h, g, Focus(w), Lookup(w, k), n)
    BY <1>4, <1>5, <1>6, ReplacedByKey DEF Grown
  <1> QED  BY <1>5, <1>6, <1>7, DroppedWithDroppable, PlacedKeeps

\* Replace(index, const CJsonObject&)
LEMMA ReplaceCopyAtKeeps ==
  ASSUME WrappersOK(obj), NEW X, Sound(heap, obj, moved, X),
         NEW w \in DOMAIN obj, NEW i \in Indices, NEW x \in DOMAIN obj, ReplaceCopyAt(w, i, x)
  PROVE  Keeping(X)
  <1>1. PICK m : m = Focus(x)
    OBVIOUS
  <1>2. PICK h : h = Copy(heap, m, Free)
    OBVIOUS
  <1>3. PICK n : n = CopyCell(heap, m, Free)[m]
    OBVIOUS
  <1>4. PICK g : g = ReplaceItem(h, Focus(w), LookupAt(w, i), n)
    OBVIOUS
  <1>5. /\ Live(w) /\ Is(w, "Array") /\ CanReplace(w, LookupAt(w, i)) /\ moved' = moved
        /\ Live(x) /\ m # NULL /\ Room(w, TreeSize(x))
        /\ Stays(g, DroppedWith(w, LookupAt(w, i), i), w)
    BY <1>1, <1>2, <1>3, <1>4 DEF ReplaceCopyAt
  <1>6. /\ Free \subseteq {c \in Cells : ~Alive(heap, c)} /\ n \in Free
        /\ Sound(h, obj, moved, X \cup {n}) /\ h \in Memories /\ Grown(heap, h, Free)
    <2>1. m \in Cells /\ Alive(heap, m)
      BY <1>1, <1>5, FocusIsItem
    <2>2. Cardinality(Free) >= Cardinality(Trees(heap, {m}))
      BY <1>1, <1>5, ContainerIsItem, RoomForCopy
    <2> QED  BY <1>2, <1>3, <2>1, <2>2, CopiedInFree
  <1>7. Replaced(h, g, Focus(w), LookupAt(w, i), n)
    BY <1>4, <1>5, <1>6, ReplacedByIndex DEF Grown
  <1> QED  BY <1>5, <1>6, <1>7, DroppedWithDroppable, PlacedKeeps

\* Replace(key, CJsonObject&&)
LEMMA ReplaceMoveKeeps ==
  ASSUME WrappersOK(obj), NEW X, Sound(heap, obj, moved, X),
         NEW w \in DOMAIN obj, NEW k \in Keys, NEW v \in Vars, ReplaceMove(w, k, v)
  PROVE  Keeping(X)
  <1>1. PICK m : m = obj[<<v>>].own
    OBVIOUS
  <1>2. PICK g : g = ReplaceItemInObject(heap, Focus(w), k, m)
    OBVIOUS
  <1>3. PICK gone : gone = DroppedWith(w, Lookup(w, k), k)
    OBVIOUS
  <1>4. /\ Live(w) /\ Is(w, "Object") /\ CanReplace(w, Lookup(w, k))
        /\ v # w[1] /\ m # NULL /\ heap' = Delete(g, Owned(gone))
        /\ obj' = MovedOut(v, Without(gone)) /\ moved' = moved \cup {v}
    BY <1>1, <1>2, <1>3 DEF ReplaceMove
  <1>5. Replaced(heap, g, Focus(w), Lookup(w, k), m)
    <2>1. heap \in Memories
      BY DEF Sound
    <2>2. PICK F : F = {}
      OBVIOUS
    <2>3. (\A c \in F : ~Alive(heap, c)) /\ \A c \in Cells \ F : heap[c] = heap[c]
      BY <2>2
    <2> QED  BY <1>2, <1>4, <2>1, <2>3, ReplacedByKey
  <1> QED  BY <1>1, <1>3, <1>4, <1>5, DroppedWithDroppable, MovedInKeeps

\* Replace(index, CJsonObject&&)
LEMMA ReplaceMoveAtKeeps ==
  ASSUME WrappersOK(obj), NEW X, Sound(heap, obj, moved, X),
         NEW w \in DOMAIN obj, NEW i \in Indices, NEW v \in Vars, ReplaceMoveAt(w, i, v)
  PROVE  Keeping(X)
  <1>1. PICK m : m = obj[<<v>>].own
    OBVIOUS
  <1>2. PICK g : g = ReplaceItem(heap, Focus(w), LookupAt(w, i), m)
    OBVIOUS
  <1>3. PICK gone : gone = DroppedWith(w, LookupAt(w, i), i)
    OBVIOUS
  <1>4. /\ Live(w) /\ Is(w, "Array") /\ CanReplace(w, LookupAt(w, i))
        /\ v # w[1] /\ m # NULL /\ heap' = Delete(g, Owned(gone))
        /\ obj' = MovedOut(v, Without(gone)) /\ moved' = moved \cup {v}
    BY <1>1, <1>2, <1>3 DEF ReplaceMoveAt
  <1>5. Replaced(heap, g, Focus(w), LookupAt(w, i), m)
    <2>1. heap \in Memories
      BY DEF Sound
    <2>2. PICK F : F = {}
      OBVIOUS
    <2>3. (\A c \in F : ~Alive(heap, c)) /\ \A c \in Cells \ F : heap[c] = heap[c]
      BY <2>2
    <2> QED  BY <1>2, <1>4, <2>1, <2>3, ReplacedByIndex
  <1> QED  BY <1>1, <1>3, <1>4, <1>5, DroppedWithDroppable, MovedInKeeps

(***************************************************************************)
(* operator[] and the cursor                                               *)
(***************************************************************************)
\* What a wrapper is about is in a document of its variable.
LEMMA FocusOwned ==
  ASSUME NEW X, Sound(heap, obj, moved, X), NEW w \in DOMAIN obj, Live(w), Focus(w) # NULL
  PROVE  Focus(w) \in Trees(heap, OwnsOf(obj, w[1]))
  <1>1. Focus(w) \in Cells /\ Alive(heap, Focus(w))
    BY FocusIsItem
  <1>2. /\ heap \in Memories /\ OwnsOf(obj, w[1]) \subseteq Cells /\ w[1] \notin moved
    BY OwnsAreRoots DEF Sound, Tidy, Live
  <1>3. CASE obj[w].own # NULL
    <2>1. Focus(w) \in OwnsOf(obj, w[1])
      BY <1>3 DEF Focus, OwnsOf
    <2> QED  BY <1>2, <2>1, TreesHold
  <1>4. CASE obj[w].own = NULL
    <2>1. Focus(w) = obj[w].ext
      BY <1>4 DEF Focus
    <2> QED  BY <1>1, <1>2, <2>1 DEF Sound
  <1> QED  BY <1>3, <1>4

\* A wrapper is made, about an item of its parent or about nothing.
LEMMA WrapKeeps ==
  ASSUME WrappersOK(obj), moved \subseteq Vars, NEW X, Sound(heap, obj, moved, X), NEW w \in DOMAIN obj,
         NEW s \in Keys \cup Indices, NEW item, Wrap(w, s, item),
         item = NULL \/ (Focus(w) # NULL /\ item \in Kids(heap, Focus(w)))
  PROVE  Keeping(X)
  <1>1. PICK u : u = Append(w, s)
    OBVIOUS
  <1>2. /\ Live(w) /\ u \notin DOMAIN obj /\ heap' = heap /\ moved' = moved
        /\ obj' = [p \in DOMAIN obj \cup {u} |->
                     IF p = u THEN [own |-> NULL, ext |-> item, trav |-> item] ELSE obj[p]]
    BY <1>1 DEF Wrap
  <1>3. PICK ob : ob = obj'
    OBVIOUS
  <1>4. /\ Way(u) /\ Len(u) > 1 /\ Parent(u) = w /\ u[1] = w[1]
    <2>1. Way(w) /\ Len(w) \in Nat /\ Len(w) >= 1
      BY DEF WrappersOK, Way
    <2>2. Way(u) /\ Parent(u) = w /\ Len(u) = Len(w) + 1
      BY <1>1, <2>1, ChildWay
    <2>3. Len(u) > 1
      BY <2>1, <2>2
    <2> QED  BY <2>2, <2>3, ParentWay
  <1>5. item \in Pointers /\ (item # NULL => item \in Trees(heap, OwnsOf(obj, w[1])))
    <2>1. CASE item = NULL
      BY <2>1 DEF Pointers
    <2>2. CASE Focus(w) # NULL /\ item \in Kids(heap, Focus(w))
      <3>1. Focus(w) \in Trees(heap, OwnsOf(obj, w[1])) /\ Focus(w) \in Cells
        BY <1>2, <2>2, FocusOwned, FocusIsItem
      <3>2. heap \in Memories /\ OwnsOf(obj, w[1]) \subseteq Cells
        BY OwnsAreRoots DEF Sound, Tidy
      <3>3. item \in Trees(heap, OwnsOf(obj, w[1])) /\ item \in Cells
        BY <2>2, <3>1, <3>2, TreesHold
      <3> QED  BY <3>3 DEF Pointers
    <2> QED  BY <2>1, <2>2
  <1>6. /\ DOMAIN ob = DOMAIN obj \cup {u}
        /\ \A p \in DOMAIN obj : ob[p] = obj[p]
        /\ ob[u].own = NULL /\ ob[u].ext = item /\ ob[u] \in Wrapper
        /\ ob = [p \in DOMAIN ob |-> ob[p]]
    <2>1. [own |-> NULL, ext |-> item, trav |-> item] \in Wrapper
      BY <1>5 DEF Wrapper, Pointers
    <2> QED  BY <1>2, <1>3, <2>1
  <1>7. WrappersOK(ob)
    <2>1. ob \in [DOMAIN ob -> Wrapper]
      <3>1. \A p \in DOMAIN obj : obj[p] \in Wrapper
        BY DEF WrappersOK
      <3>2. \A p \in DOMAIN ob : ob[p] \in Wrapper
        BY <1>6, <3>1
      <3> QED  BY <1>6, <3>2
    <2>2. ASSUME NEW p \in DOMAIN ob
          PROVE  Way(p) /\ (Len(p) > 1 => Parent(p) \in DOMAIN ob) /\ (ob[p].own = NULL \/ ob[p].ext = NULL)
      <3>1. CASE p = u
        BY <3>1, <1>4, <1>6
      <3>2. CASE p \in DOMAIN obj
        BY <3>2, <1>6 DEF WrappersOK
      <3> QED  BY <3>1, <3>2, <1>6
    <2>3. \A v \in Vars : <<v>> \in DOMAIN ob
      BY <1>6 DEF WrappersOK
    <2> QED  BY <2>1, <2>2, <2>3 DEF WrappersOK
  <1>8. Roots(ob) = Roots(obj) /\ \A v : OwnsOf(ob, v) = OwnsOf(obj, v)
    BY <1>6 DEF Roots, OwnsOf
  <1>9. Sound(heap, ob, moved, X)
    <2>1. /\ heap \in Memories /\ Tidy(heap, Roots(ob) \cup X) /\ X \cap Roots(ob) = {}
      BY <1>8 DEF Sound
    <2>2. \A p \in DOMAIN ob : ob[p].own \in Pointers /\ ob[p].ext \in Pointers
      BY <1>5, <1>6 DEF Sound, Pointers
    <2>3. \A p, q \in DOMAIN ob : ob[p].own = ob[q].own /\ ob[p].own # NULL => p = q
      BY <1>6 DEF Sound
    <2>4. \A p \in DOMAIN ob : p[1] \notin moved /\ ob[p].ext # NULL /\ Alive(heap, ob[p].ext)
            => ob[p].ext \in Trees(heap, OwnsOf(ob, p[1]))
      BY <1>4, <1>5, <1>6, <1>8 DEF Sound
    <2> QED  BY <2>1, <2>2, <2>3, <2>4 DEF Sound
  <1> QED  BY <1>2, <1>3, <1>7, <1>9 DEF Keeping

\* operator[](key)
LEMMA MemberKeeps ==
  ASSUME WrappersOK(obj), moved \subseteq Vars, NEW X, Sound(heap, obj, moved, X), NEW w \in DOMAIN obj,
         NEW k \in Keys, Member(w, k)
  PROVE  Keeping(X)
  <1>1. Live(w) /\ Wrap(w, k, Lookup(w, k))
    BY DEF Member, Wrap
  <1>2. Lookup(w, k) = NULL \/ (Focus(w) # NULL /\ Lookup(w, k) \in Kids(heap, Focus(w)))
    <2>1. CASE Is(w, "Object")
      BY <1>1, <2>1, LookupIsKid, ContainerIsItem
    <2>2. CASE ~Is(w, "Object")
      BY <2>2 DEF Lookup
    <2> QED  BY <2>1, <2>2
  <1> QED  BY <1>1, <1>2, WrapKeeps

\* operator[](index)
LEMMA ElementKeeps ==
  ASSUME WrappersOK(obj), moved \subseteq Vars, NEW X, Sound(heap, obj, moved, X), NEW w \in DOMAIN obj,
         NEW i \in Indices, Element(w, i)
  PROVE  Keeping(X)
  <1>1. Live(w) /\ Wrap(w, i, LookupAt(w, i))
    BY DEF Element, Wrap
  <1>2. LookupAt(w, i) = NULL \/ (Focus(w) # NULL /\ LookupAt(w, i) \in Kids(heap, Focus(w)))
    <2>1. CASE Is(w, "Array")
      BY <1>1, <2>1, LookupAtIsKid, ContainerIsItem
    <2>2. CASE ~Is(w, "Array")
      BY <2>2 DEF LookupAt
    <2> QED  BY <2>1, <2>2
  <1> QED  BY <1>1, <1>2, WrapKeeps

\* The cursor goes anywhere.
LEMMA CursorKeeps ==
  ASSUME WrappersOK(obj), moved \subseteq Vars, NEW X, Sound(heap, obj, moved, X), NEW w \in DOMAIN obj,
         NEW c \in Pointers, Cursor(w, c)
  PROVE  Keeping(X)
  <1>1. heap' = heap /\ moved' = moved /\ obj' = [obj EXCEPT ![w].trav = c]
    BY DEF Cursor
  <1>2. obj \in [DOMAIN obj -> Wrapper] /\ obj[w] \in Wrapper
    BY DEF WrappersOK
  <1>3. PICK ob : ob = obj'
    OBVIOUS
  <1>4. /\ DOMAIN ob = DOMAIN obj /\ ob \in [DOMAIN obj -> Wrapper]
        /\ \A p \in DOMAIN obj : ob[p].own = obj[p].own /\ ob[p].ext = obj[p].ext
    BY <1>1, <1>2, <1>3 DEF Wrapper
  <1>5. WrappersOK(ob)
    BY <1>4 DEF WrappersOK
  <1>6. Sound(heap, ob, moved, X)
    BY <1>4, SoundSame
  <1> QED  BY <1>1, <1>3, <1>5, <1>6 DEF Keeping

\* item->next is an item or nothing,
LEMMA NextIsPointer ==
  ASSUME NEW c
  PROVE  NextOf(c) \in Pointers
  BY DEF NextOf, First, Pointers

\* and so is what a wrapper is about:
LEMMA FocusIsPointer ==
  ASSUME WrappersOK(obj), NEW w \in DOMAIN obj
  PROVE  Focus(w) \in Pointers
  BY DEF Focus, WrappersOK, Wrapper

\* GetKey and ResetTraversing
LEMMA TraversalKeeps ==
  ASSUME WrappersOK(obj), moved \subseteq Vars, NEW X, Sound(heap, obj, moved, X), NEW w \in DOMAIN obj,
         GetKey(w) \/ ResetTraversing(w)
  PROVE  Keeping(X)
  <1>1. \E c \in Pointers : Cursor(w, c)
    BY NextIsPointer, FocusIsPointer DEF GetKey, ResetTraversing
  <1> QED  BY <1>1, CursorKeeps

(***************************************************************************)
(* Clear, Parse, and copies of documents                                   *)
(***************************************************************************)
\* The wrappers when w was cleared
Emptied(w) == [p \in DOMAIN obj \ Below(w) |-> IF p = w THEN Empty ELSE obj[p]]

MovedLeft(w) == IF Len(w) = 1 THEN moved \ {w[1]} ELSE moved

\* All the wrappers of a variable are below it.
LEMMA BelowVariable ==
  ASSUME WrappersOK(obj), NEW w \in DOMAIN obj, Len(w) = 1, NEW p \in DOMAIN obj, p[1] = w[1], p # w
  PROVE  p \in Below(w)
  <1>1. Way(p) /\ p \in Seq(Steps) /\ Len(p) \in Nat /\ Len(p) >= 1
    BY DEF WrappersOK, Way
  <1>2. w \in Seq(Steps)
    BY DEF WrappersOK, Way
  <1>3. Len(p) # 1
    BY <1>1, <1>2
  <1>4. Len(p) > 1 /\ p[2] \in Keys \cup Indices
    <2>1. \A i \in 2..Len(p) : p[i] \in Keys \cup Indices
      BY <1>1 DEF Way
    <2>2. Len(p) > 1
      <3>1. PICK n \in Nat : n = Len(p)
        BY <1>1
      <3>2. n >= 1 /\ n # 1
        BY <1>1, <1>3, <3>1
      <3> QED  BY <3>1, <3>2
    <2>3. 2 \in 2..Len(p)
      BY <1>1, <2>2
    <2> QED  BY <2>1, <2>2, <2>3
  <1>5. SubSeq(p, 1, 1) = w
    <2>1. PICK t : t = SubSeq(p, 1, 1)
      OBVIOUS
    <2>2. t \in Seq(Steps) /\ Len(t) = 1 /\ t[1] = p[1]
      BY <1>1, <1>4, <2>1
    <2> QED  BY <1>2, <2>1, <2>2
  <1> QED  BY <1>4, <1>5 DEF Below, Cached

\* The wrapper about nothing
LEMMA EmptyWrapper ==
  Empty \in Wrapper /\ Empty.own = NULL /\ Empty.ext = NULL
  BY DEF Empty, Wrapper, Pointers

\* Clear frees what w and the wrappers below it own.
LEMMA ClearedSound ==
  ASSUME WrappersOK(obj), NEW h, NEW X, Sound(h, obj, moved, X), NEW w \in DOMAIN obj,
         NEW g, g = Delete(h, Owned(Below(w) \cup {w}))
  PROVE  Sound(g, Emptied(w), MovedLeft(w), X) /\ Retyped(h, g)
  <1>1. Below(w) \subseteq DOMAIN obj /\ w \notin Below(w)
    BY CachedBelow DEF Below
  <1>2. PICK ob : ob = Emptied(w)
    OBVIOUS
  <1>3. PICK P : P = Below(w) \cup {w}
    OBVIOUS
  <1>4. /\ P \subseteq DOMAIN obj /\ DOMAIN ob \subseteq DOMAIN obj /\ DOMAIN obj \ P \subseteq DOMAIN ob
        /\ DOMAIN ob = DOMAIN obj \ Below(w)
        /\ \A p \in DOMAIN ob : /\ ob[p].own = IF p \in P THEN NULL ELSE obj[p].own
                                /\ ob[p].ext = IF p = w THEN NULL ELSE obj[p].ext
    <2>1. \A p \in DOMAIN ob : p \in P <=> p = w
      BY <1>2, <1>3 DEF Emptied
    <2>2. \A p \in DOMAIN ob : ob[p] = IF p = w THEN Empty ELSE obj[p]
      BY <1>2 DEF Emptied
    <2>3. DOMAIN ob = DOMAIN obj \ Below(w)
      BY <1>2 DEF Emptied
    <2> QED  BY <1>1, <1>3, <2>1, <2>2, <2>3, EmptyWrapper
  <1>5. g = Delete(h, OwnedBy(obj, P))
    BY <1>3 DEF Owned, OwnedBy
  <1>6. \A p \in DOMAIN ob : p[1] \in moved \ MovedLeft(w) => ob[p].ext = NULL
    <2> SUFFICES ASSUME NEW p \in DOMAIN ob, p[1] \in moved \ MovedLeft(w) PROVE ob[p].ext = NULL
      OBVIOUS
    <2>1. Len(w) = 1 /\ p[1] = w[1]
      BY DEF MovedLeft
    <2>2. p = w
      BY <1>4, <2>1, BelowVariable
    <2> QED  BY <1>4, <2>2
  <1>7. \A p \in DOMAIN ob : ob[p].ext \in {obj[p].ext, NULL}
    BY <1>4
  <1>8. PICK mv : mv = MovedLeft(w)
    OBVIOUS
  <1>9. Sound(g, ob, mv, X) /\ Retyped(h, g)
    <2>1. \A p \in DOMAIN ob : p[1] \in moved \ mv => ob[p].ext = NULL
      BY <1>6, <1>8
    <2>2. \A p \in DOMAIN ob : /\ ob[p].own = IF p \in P THEN NULL ELSE obj[p].own
                               /\ ob[p].ext \in {obj[p].ext, NULL}
      BY <1>4, <1>7
    <2>3. P \subseteq DOMAIN obj /\ DOMAIN ob \subseteq DOMAIN obj /\ DOMAIN obj \ P \subseteq DOMAIN ob
      BY <1>4
    <2>8. Sound(g, ob, mv, X)
      BY <1>5, <2>1, <2>2, <2>3, SoundDropped
    <2>9. Retyped(h, g)
      BY <1>5, ItemsMade DEF Retyped, Delete
    <2> QED  BY <2>8, <2>9
  <1> QED  BY <1>2, <1>8, <1>9

\* The end of Clear and Parse: w gets the item under way, or nothing.
LEMMA BecomesKeeps ==
  ASSUME WrappersOK(obj), moved \subseteq Vars, NEW w \in DOMAIN obj, NEW X, NEW h, NEW own,
         \/ own = NULL /\ Sound(h, Emptied(w), MovedLeft(w), X)
         \/ own # NULL /\ own \notin X /\ Sound(h, Emptied(w), MovedLeft(w), X \cup {own}),
         Becomes(w, h, own)
  PROVE  Keeping(X)
  <1>1. PICK ob : ob = Emptied(w)
    OBVIOUS
  <1>2. PICK ob2 : ob2 = obj'
    OBVIOUS
  <1>3. Below(w) \subseteq DOMAIN obj /\ w \notin Below(w)
    BY CachedBelow DEF Below
  <1>4. /\ DOMAIN ob2 = DOMAIN obj \ Below(w) /\ w \in DOMAIN ob2
        /\ ob2[w] = [own |-> own, ext |-> NULL, trav |-> own]
        /\ \A p \in DOMAIN ob2 : p # w => ob2[p] = obj[p]
        /\ ob2 = [p \in DOMAIN obj \ Below(w) |-> ob2[p]]
    <2>1. PICK ob3 : ob3 = Without(Below(w))
      OBVIOUS
    <2>2. ob3 = [p \in DOMAIN obj \ Below(w) |-> obj[p]]
      BY <2>1 DEF Without, Restrict
    <2>3. ob2 = [ob3 EXCEPT ![w] = [own |-> own, ext |-> NULL, trav |-> own]]
      BY <1>2, <2>1 DEF Becomes
    <2> QED  BY <1>3, <2>2, <2>3
  <1>5. /\ DOMAIN ob = DOMAIN ob2
        /\ \A p \in DOMAIN ob : ob[p] = IF p = w THEN Empty ELSE obj[p]
    BY <1>1, <1>4 DEF Emptied
  <1>6. /\ \A p \in DOMAIN ob : ob2[p].ext = ob[p].ext
        /\ \A p \in DOMAIN ob : ob2[p].own = IF p = w THEN own ELSE ob[p].own
        /\ ob[w].own = NULL
    BY <1>4, <1>5, EmptyWrapper
  <1>7. own \in Pointers
    <2>1. CASE own = NULL
      BY <2>1 DEF Pointers
    <2>2. CASE Sound(h, Emptied(w), MovedLeft(w), X \cup {own})
      <3>1. own \in Cells
        BY <2>2 DEF Sound, Tidy
      <3> QED  BY <3>1 DEF Pointers
    <2> QED  BY <2>1, <2>2
  <1>8. WrappersOK(ob2)
    <2>1. [own |-> own, ext |-> NULL, trav |-> own] \in Wrapper
      BY <1>7 DEF Wrapper, Pointers
    <2>2. \A p \in DOMAIN obj \ Below(w) : ob2[p] \in Wrapper
      <3>1. \A p \in DOMAIN obj : obj[p] \in Wrapper
        BY DEF WrappersOK
      <3> QED  BY <1>4, <2>1, <3>1
    <2>3. ob2 \in [DOMAIN obj \ Below(w) -> Wrapper]
      BY <1>4, <2>2
    <2>4. \A p \in DOMAIN ob2 : ob2[p].own = NULL \/ ob2[p].ext = NULL
      BY <1>4 DEF WrappersOK
    <2>5. /\ \A v \in Vars : <<v>> \notin Below(w)
          /\ \A p \in DOMAIN obj : Len(p) > 1 /\ Parent(p) \in Below(w) => p \in Below(w)
      BY CachedBelow DEF Below
    <2>6. PICK P : P = Below(w)
      OBVIOUS
    <2> QED  BY <2>3, <2>4, <2>5, <2>6, WrappersLeft
  <1>9. PICK mv : mv = MovedLeft(w)
    OBVIOUS
  <1>10. Sound(h, ob2, mv, X)
    <2>1. CASE own = NULL /\ Sound(h, Emptied(w), MovedLeft(w), X)
      <3>1. \A p \in DOMAIN ob : ob2[p].own = ob[p].own
        BY <1>6, <2>1
      <3> QED  BY <1>1, <1>5, <1>6, <1>9, <2>1, <3>1, SoundSame
    <2>2. CASE own # NULL /\ own \notin X /\ Sound(h, Emptied(w), MovedLeft(w), X \cup {own})
      <3>1. PICK Y : Y = X \cup {own}
        OBVIOUS
      <3>2. own \in Y /\ Y \ {own} = X /\ Sound(h, ob, mv, Y)
        BY <1>1, <1>9, <2>2, <3>1
      <3>3. w \in DOMAIN ob /\ DOMAIN ob2 = DOMAIN ob
        BY <1>4, <1>5
      <3>4. Sound(h, ob2, mv, Y \ {own})
        BY <1>6, <3>2, <3>3, SoundTaken
      <3> QED  BY <3>2, <3>4
    <2> QED  BY <2>1, <2>2
  <1>11. heap' = h /\ moved' = mv /\ moved' \subseteq moved \cup Vars
    BY <1>9 DEF Becomes, MovedLeft
  <1> QED  BY <1>2, <1>8, <1>10, <1>11 DEF Keeping

\* Clear
LEMMA ClearKeeps ==
  ASSUME WrappersOK(obj), moved \subseteq Vars, NEW X, Sound(heap, obj, moved, X), NEW w \in DOMAIN obj,
         NEW own, own = NULL, Becomes(w, Cleared(w), own)
  PROVE  Keeping(X)
  <1>1. PICK g : g = Cleared(w)
    OBVIOUS
  <1>2. Sound(g, Emptied(w), MovedLeft(w), X)
    BY <1>1, ClearedSound DEF Cleared
  <1> QED  BY <1>1, <1>2, BecomesKeeps

\* Parse of a text the caller has
LEMMA ParseKeeps ==
  ASSUME WrappersOK(obj), moved \subseteq Vars, NEW X, Sound(heap, obj, moved, X), NEW w \in DOMAIN obj,
         NEW doc \in Documents, Parse(w, doc)
  PROVE  Keeping(X)
  <1>1. PICK g : g = Cleared(w)
    OBVIOUS
  <1>2. PICK root : root = First(Free)
    OBVIOUS
  <1>3. PICK cell : cell = Allocate(DOMAIN doc, Free \ {root})
    OBVIOUS
  <1>4. PICK h : h = ParsedMemory(g, doc, root, cell)
    OBVIOUS
  <1>5. Cardinality(Free) > Len(doc) /\ Becomes(w, h, root)
    BY <1>1, <1>2, <1>3, <1>4 DEF Parse, ParsedMemory
  <1>6. PICK ob : ob = Emptied(w)
    OBVIOUS
  <1>7. PICK mv : mv = MovedLeft(w)
    OBVIOUS
  <1>8. Sound(g, ob, mv, X) /\ Retyped(heap, g)
    BY <1>1, <1>6, <1>7, ClearedSound DEF Cleared
  <1>9. Len(doc) \in Nat
    <2>1. PICK M : M = [key : Keys, item : Item]
      OBVIOUS
    <2>2. doc \in Seq(M)
      BY <2>1, ValuesAssumption
    <2> QED  BY <2>2
  <1>10. root \in Free
    <2>1. Free \subseteq Cells /\ Cardinality(Free) >= 1
      BY <1>5, <1>9, FreeCells
    <2> QED  BY <1>2, <2>1, FirstFree
  <1>11. Free \subseteq {c \in Cells : ~Alive(g, c)}
    BY <1>8, FreeCells DEF Retyped, Alive
  <1>12. \A p \in DOMAIN ob : ob[p].ext \notin Free
    <2>1. NULL \notin Free
      BY <1>11, CellsAssumption
    <2>2. \A p \in DOMAIN ob : p \in DOMAIN obj /\ ob[p] = IF p = w THEN Empty ELSE obj[p]
      BY <1>6 DEF Emptied
    <2> QED  BY <2>1, <2>2, FreeCells, EmptyWrapper
  <1>13. g \in Memories /\ Tidy(g, Roots(ob) \cup X) /\ Len(doc) < Cardinality(Free)
    BY <1>5, <1>8, <1>9, FreeCells DEF Sound
  <1>14. h \in Memories /\ Grown(g, h, Free) /\ Tidy(h, (Roots(ob) \cup X) \cup {root})
    BY <1>3, <1>4, <1>10, <1>11, <1>13, ParsedTidy
  <1>15. Sound(h, ob, mv, X \cup {root})
    BY <1>8, <1>10, <1>11, <1>12, <1>14, SoundGrown
  <1>16. root # NULL /\ root \notin X
    BY <1>10, <1>11, <1>13, CellsAssumption DEF Tidy
  <1> QED  BY <1>5, <1>6, <1>7, <1>15, <1>16, BecomesKeeps

\* The text of an item is made and parsed: w gets a copy.
LEMMA ParseTextKeeps ==
  ASSUME WrappersOK(obj), moved \subseteq Vars, NEW X, Sound(heap, obj, moved, X), NEW x \in DOMAIN obj,
         NEW n, n = NULL \/ (n \in Cells /\ Alive(heap, n)), ParseTextOf(x, n)
  PROVE  Keeping(X)
  <1>1. CASE n = NULL
    <2>1. PICK own : own = NULL
      OBVIOUS
    <2>2. Becomes(x, Cleared(x), own)
      BY <1>1, <2>1 DEF ParseTextOf
    <2> QED  BY <2>1, <2>2, ClearKeeps
  <1>2. CASE n \in Cells /\ Alive(heap, n) /\ n # NULL
    <2>1. PICK copy : copy = Copy(heap, n, Free)
      OBVIOUS
    <2>2. PICK r : r = CopyCell(heap, n, Free)[n]
      OBVIOUS
    <2>3. PICK h : h = Delete(copy, Owned(Below(x) \cup {x}))
      OBVIOUS
    <2>4. Cardinality(Free) >= Cardinality(Trees(heap, {n})) /\ Becomes(x, h, r)
      BY <1>2, <2>1, <2>2, <2>3 DEF ParseTextOf
    <2>5. /\ Free \subseteq {c \in Cells : ~Alive(heap, c)} /\ r \in Free
          /\ Sound(copy, obj, moved, X \cup {r})
      BY <1>2, <2>1, <2>2, <2>4, CopiedInFree
    <2>6. PICK Y : Y = X \cup {r}
      OBVIOUS
    <2>7. Sound(h, Emptied(x), MovedLeft(x), Y)
      BY <2>3, <2>5, <2>6, ClearedSound
    <2>8. r # NULL /\ r \notin X
      BY <2>5, CellsAssumption DEF Sound, Tidy
    <2>9. Sound(h, Emptied(x), MovedLeft(x), X \cup {r})
      BY <2>6, <2>7
    <2> QED  BY <2>4, <2>8, <2>9, BecomesKeeps
  <1> QED  BY <1>1, <1>2, CellsAssumption

\* operator=(const CJsonObject&)
LEMMA AssignKeeps ==
  ASSUME WrappersOK(obj), moved \subseteq Vars, NEW X, Sound(heap, obj, moved, X), NEW x \in DOMAIN obj,
         NEW w \in DOMAIN obj, Assign(x, w)
  PROVE  Keeping(X)
  <1>1. Live(w) /\ ParseTextOf(x, Focus(w))
    BY DEF Assign
  <1>2. Focus(w) = NULL \/ (Focus(w) \in Cells /\ Alive(heap, Focus(w)))
    BY <1>1, FocusIsItem
  <1> QED  BY <1>1, <1>2, ParseTextKeeps

\* The children of an item are not freed.
LEMMA KidsAlive ==
  ASSUME NEW X, Sound(heap, obj, moved, X), NEW c \in Cells, NEW n \in Kids(heap, c)
  PROVE  n \in Cells /\ Alive(heap, n)
  BY KidsAreCells DEF Sound, Tidy

\* Get(key, CJsonObject&)
LEMMA GetObjectKeeps ==
  ASSUME WrappersOK(obj), moved \subseteq Vars, NEW X, Sound(heap, obj, moved, X), NEW x \in DOMAIN obj,
         NEW w \in DOMAIN obj, NEW k, GetObject(w, k, x)
  PROVE  Keeping(X)
  <1>1. Live(w) /\ Lookup(w, k) # NULL /\ ParseTextOf(x, Lookup(w, k))
    BY DEF GetObject
  <1>2. Is(w, "Object")
    BY <1>1 DEF Lookup
  <1>3. Lookup(w, k) \in Cells /\ Alive(heap, Lookup(w, k))
    BY <1>1, <1>2, LookupIsKid, ContainerIsItem, KidsAlive
  <1> QED  BY <1>1, <1>3, ParseTextKeeps

\* Get(index, CJsonObject&)
LEMMA GetObjectAtKeeps ==
  ASSUME WrappersOK(obj), moved \subseteq Vars, NEW X, Sound(heap, obj, moved, X), NEW x \in DOMAIN obj,
         NEW w \in DOMAIN obj, NEW i \in Indices, GetObjectAt(w, i, x)
  PROVE  Keeping(X)
  <1>1. Live(w) /\ LookupAt(w, i) # NULL /\ ParseTextOf(x, LookupAt(w, i))
    BY DEF GetObjectAt
  <1>2. Is(w, "Array")
    BY <1>1 DEF LookupAt
  <1>3. LookupAt(w, i) \in Cells /\ Alive(heap, LookupAt(w, i))
    BY <1>1, <1>2, LookupAtIsKid, ContainerIsItem, KidsAlive
  <1> QED  BY <1>1, <1>3, ParseTextKeeps

(***************************************************************************)
(* Moving a whole document                                                 *)
(***************************************************************************)
\* The way p, from another variable
Rebase(v, p) == <<v>> \o Tail(p)

\* It is a way as long as p, with the same steps after the variable.
LEMMA RebaseWay ==
  ASSUME NEW p, Way(p), NEW v \in Vars
  PROVE  /\ Way(Rebase(v, p)) /\ Rebase(v, p) \in Seq(Steps) /\ Len(Rebase(v, p)) = Len(p)
         /\ Rebase(v, p)[1] = v
         /\ \A i \in 2..Len(p) : Rebase(v, p)[i] = p[i]
  <1>1. PICK t : t = Tail(p)
    OBVIOUS
  <1>2. PICK q : q = <<v>> \o t
    OBVIOUS
  <1>3. p \in Seq(Steps) /\ p # <<>> /\ Len(p) \in Nat /\ Len(p) >= 1 /\ v \in Steps
    BY DEF Way, Steps
  <1>4. t \in Seq(Steps) /\ Len(t) = Len(p) - 1 /\ \A i \in 1..(Len(p) - 1) : t[i] = p[i + 1]
    BY <1>1, <1>3
  <1>5. <<v>> \in Seq(Steps) /\ Len(<<v>>) = 1 /\ <<v>>[1] = v
    BY <1>3
  <1>6. q \in Seq(Steps) /\ Len(q) = Len(p) /\ q[1] = v
    BY <1>2, <1>3, <1>4, <1>5
  <1>7. ASSUME NEW i \in 2..Len(p) PROVE q[i] = p[i]
    <2>1. i \in 1..Len(q) /\ i > Len(<<v>>) /\ i - 1 \in 1..(Len(p) - 1) /\ (i - 1) + 1 = i
      BY <1>3, <1>5, <1>6, <1>7
    <2>2. q[i] = t[i - 1]
      BY <1>2, <1>4, <1>5, <2>1
    <2> QED  BY <1>4, <2>1, <2>2
  <1>8. \A i \in 2..Len(q) : q[i] \in Keys \cup Indices
    BY <1>6, <1>7 DEF Way
  <1>9. q # <<>>
    BY <1>3, <1>6
  <1> QED  BY <1>1, <1>2, <1>6, <1>7, <1>8, <1>9 DEF Rebase, Way

\* And back
LEMMA RebaseBack ==
  ASSUME NEW p, Way(p), NEW u \in Vars, p[1] = u, NEW v \in Vars
  PROVE  Rebase(u, Rebase(v, p)) = p
  <1>1. PICK q : q = Rebase(v, p)
    OBVIOUS
  <1>2. /\ Way(q) /\ q \in Seq(Steps) /\ Len(q) = Len(p) /\ \A i \in 2..Len(p) : q[i] = p[i]
    BY <1>1, RebaseWay
  <1>3. PICK r : r = Rebase(u, q)
    OBVIOUS
  <1>4. /\ r \in Seq(Steps) /\ Len(r) = Len(p) /\ r[1] = u /\ \A i \in 2..Len(p) : r[i] = q[i]
    BY <1>2, <1>3, RebaseWay
  <1>5. p \in Seq(Steps) /\ Len(p) \in Nat
    BY DEF Way
  <1>6. \A i \in 1..Len(p) : r[i] = p[i]
    <2> SUFFICES ASSUME NEW i \in 1..Len(p) PROVE r[i] = p[i]
      OBVIOUS
    <2>1. CASE i = 1
      BY <1>4, <2>1
    <2>2. CASE i # 1
      <3>1. i \in 2..Len(p)
        BY <1>5, <2>2
      <3> QED  BY <1>2, <1>4, <3>1
    <2> QED  BY <2>1, <2>2
  <1>7. r = p
    BY <1>4, <1>5, <1>6
  <1> QED  BY <1>1, <1>3, <1>7

\* A variable becomes the other one.
LEMMA RebaseVariable ==
  ASSUME NEW p, Way(p), Len(p) = 1, NEW v \in Vars
  PROVE  p = <<p[1]>> /\ Rebase(v, p) = <<v>>
  <1>1. PICK q : q = Rebase(v, p)
    OBVIOUS
  <1>2. q \in Seq(Steps) /\ Len(q) = 1 /\ q[1] = v
    BY <1>1, RebaseWay
  <1>3. q = <<v>>
    BY <1>2
  <1>4. p \in Seq(Steps)
    BY DEF Way
  <1>5. p = <<p[1]>>
    BY <1>4
  <1> QED  BY <1>1, <1>3, <1>5

\* The parent goes with it.
LEMMA RebaseParent ==
  ASSUME NEW p, Way(p), Len(p) > 1, NEW v \in Vars
  PROVE  Parent(Rebase(v, p)) = Rebase(v, Parent(p))
  <1>1. PICK q : q = Rebase(v, p)
    OBVIOUS
  <1>2. /\ Way(q) /\ q \in Seq(Steps) /\ Len(q) = Len(p) /\ q[1] = v
        /\ \A i \in 2..Len(p) : q[i] = p[i]
    BY <1>1, RebaseWay
  <1>3. PICK u : u = Parent(p)
    OBVIOUS
  <1>4. /\ Way(u) /\ Len(u) = Len(p) - 1 /\ \A i \in 1..(Len(p) - 1) : u[i] = p[i]
    BY <1>3, ParentWay
  <1>5. PICK s : s = Parent(q)
    OBVIOUS
  <1>6. /\ Way(s) /\ Len(s) = Len(p) - 1 /\ s[1] = v /\ \A i \in 1..(Len(p) - 1) : s[i] = q[i]
    BY <1>2, <1>5, ParentWay
  <1>7. PICK t : t = Rebase(v, u)
    OBVIOUS
  <1>8. /\ t \in Seq(Steps) /\ Len(t) = Len(p) - 1 /\ t[1] = v /\ \A i \in 2..(Len(p) - 1) : t[i] = u[i]
    BY <1>4, <1>7, RebaseWay
  <1>9. Len(p) \in Nat /\ s \in Seq(Steps)
    BY <1>6 DEF Way
  <1>10. \A i \in 1..(Len(p) - 1) : s[i] = t[i]
    <2> SUFFICES ASSUME NEW i \in 1..(Len(p) - 1) PROVE s[i] = t[i]
      OBVIOUS
    <2>1. CASE i = 1
      BY <1>6, <1>8, <2>1
    <2>2. CASE i # 1
      <3>1. i \in 2..(Len(p) - 1) /\ i \in 2..Len(p)
        BY <1>9, <2>2
      <3> QED  BY <1>2, <1>4, <1>6, <1>8, <3>1
    <2> QED  BY <2>1, <2>2
  <1>11. s = t
    BY <1>6, <1>8, <1>9, <1>10
  <1> QED  BY <1>1, <1>3, <1>5, <1>7, <1>11

\* The wrappers of the variable u
OfVariable(u) == {p \in DOMAIN obj : p[1] = u}

\* They are u itself and those below it.
LEMMA VariableAndBelow ==
  ASSUME WrappersOK(obj), NEW u \in Vars
  PROVE  /\ <<u>> \in DOMAIN obj /\ <<u>> \notin Below(<<u>>)
         /\ OfVariable(u) = Below(<<u>>) \cup {<<u>>}
         /\ \A p \in Below(<<u>>) : Len(p) > 1
  <1>1. PICK w : w = <<u>>
    OBVIOUS
  <1>2. w \in DOMAIN obj /\ Len(w) = 1 /\ w[1] = u
    BY <1>1 DEF WrappersOK
  <1>3. Below(w) \subseteq DOMAIN obj /\ w \notin Below(w) /\ \A p \in Below(w) : p[1] = u
    BY <1>2, CachedBelow DEF Below
  <1>4. \A p \in DOMAIN obj : p[1] = u /\ p # w => p \in Below(w)
    BY <1>2, BelowVariable
  <1>5. \A p \in Below(w) : Len(p) > 1
    BY <1>2 DEF Below, Cached
  <1> QED  BY <1>1, <1>2, <1>3, <1>4, <1>5 DEF OfVariable

\* Where the wrapper at p was before v got the document of u
Source(u, v, p) == IF p[1] = v THEN Rebase(u, p) ELSE p

\* What MoveAssign leaves of the wrappers: those of u are v's now.
LEMMA MovedWrappers ==
  ASSUME WrappersOK(obj), NEW v \in Vars, NEW u \in Vars, MoveAssign(v, u),
         NEW ob2, ob2 = obj'
  PROVE  /\ \A p \in DOMAIN ob2 : \/ p = <<u>>
                                  \/ p[1] \notin {u, v} /\ p \in DOMAIN obj
                                  \/ p[1] = v /\ \E q \in OfVariable(u) : p = Rebase(v, q)
         /\ <<u>> \in DOMAIN ob2 /\ ob2[<<u>>] = Empty
         /\ \A q \in OfVariable(u) : Rebase(v, q) \in DOMAIN ob2 /\ ob2[Rebase(v, q)] = obj[q]
         /\ \A p \in DOMAIN obj : p[1] \notin {u, v} => p \in DOMAIN ob2 /\ ob2[p] = obj[p]
         /\ ob2 = [p \in DOMAIN ob2 |-> ob2[p]]
  <1>1. PICK kept : kept = DOMAIN obj \ (Below(<<v>>) \cup Below(<<u>>))
    OBVIOUS
  <1>2. PICK B : B = {Rebase(v, p) : p \in Below(<<u>>)}
    OBVIOUS
  <1>3. /\ u # v /\ DOMAIN ob2 = kept \cup B /\ ob2 = [p \in DOMAIN ob2 |-> ob2[p]]
        /\ \A p \in kept \cup B :
             ob2[p] = CASE p = <<v>> -> obj[<<u>>]
                        [] p = <<u>> -> Empty
                        [] p \in B -> obj[<<u>> \o Tail(p)]
                        [] OTHER -> obj[p]
    <2>1. PICK D : D = kept \cup B
      OBVIOUS
    <2>2. B = {<<v>> \o Tail(p) : p \in Below(<<u>>)}
      BY <1>2 DEF Rebase
    <2>3. u # v /\ ob2 = [p \in D |-> CASE p = <<v>> -> obj[<<u>>]
                                       [] p = <<u>> -> Empty
                                       [] p \in B -> obj[<<u>> \o Tail(p)]
                                       [] OTHER -> obj[p]]
      BY <1>1, <2>1, <2>2 DEF MoveAssign
    <2>4. DOMAIN ob2 = D /\ ob2 = [p \in DOMAIN ob2 |-> ob2[p]]
      BY <2>3
    <2>5. \A p \in D : ob2[p] = CASE p = <<v>> -> obj[<<u>>]
                                   [] p = <<u>> -> Empty
                                   [] p \in B -> obj[<<u>> \o Tail(p)]
                                   [] OTHER -> obj[p]
      BY <2>3
    <2> QED  BY <2>1, <2>3, <2>4, <2>5
  <1>4. \A p \in DOMAIN obj : Way(p)
    BY DEF WrappersOK
  <1>5. /\ <<v>> \in DOMAIN obj /\ <<v>> \notin Below(<<v>>)
        /\ OfVariable(v) = Below(<<v>>) \cup {<<v>>}
    BY VariableAndBelow
  <1>6. /\ <<u>> \in DOMAIN obj /\ <<u>> \notin Below(<<u>>)
        /\ OfVariable(u) = Below(<<u>>) \cup {<<u>>}
        /\ \A p \in Below(<<u>>) : Len(p) > 1
    BY VariableAndBelow
  <1>7. <<u>>[1] = u /\ <<v>>[1] = v
    OBVIOUS
  <1>8. Rebase(v, <<u>>) = <<v>>
    <2>1. PICK w : w = <<u>>
      OBVIOUS
    <2>2. Way(w) /\ Len(w) = 1
      BY <1>4, <1>6, <2>1
    <2> QED  BY <2>1, <2>2, RebaseVariable
  <1>9. \A p \in B : p[1] = v /\ Len(p) # 1
    <2>1. \A q \in Below(<<u>>) : Way(q)
      BY <1>4, <1>6 DEF OfVariable
    <2>2. \A q \in Below(<<u>>) : Rebase(v, q)[1] = v /\ Len(Rebase(v, q)) = Len(q) /\ Len(q) \in Nat
      BY <2>1, RebaseWay DEF Way
    <2> SUFFICES ASSUME NEW p \in B PROVE p[1] = v /\ Len(p) # 1
      OBVIOUS
    <2>3. PICK q \in Below(<<u>>) : p = Rebase(v, q)
      BY <1>2
    <2>4. Len(q) > 1 /\ Len(q) \in Nat /\ Len(p) = Len(q) /\ p[1] = v
      BY <1>6, <2>2, <2>3
    <2> QED  BY <2>4
  <1>10. \A p \in kept : p[1] \in {u, v} => p = <<u>> \/ p = <<v>>
    BY <1>5, <1>6, <1>1 DEF OfVariable
  <1>11. <<u>> \in kept /\ <<v>> \in kept
    <2>1. <<u>> \notin OfVariable(v) /\ <<v>> \notin OfVariable(u)
      BY <1>3, <1>7 DEF OfVariable
    <2> QED  BY <1>5, <1>6, <1>1, <2>1
  <1>12. <<u>> \notin B /\ <<v>> \notin B
    <2>1. \A x : Len(<<x>>) = 1
      OBVIOUS
    <2> QED  BY <1>9, <2>1
  <1>13. <<u>> # <<v>>
    BY <1>3, <1>7
  <1>14. \A q \in Below(<<u>>) : <<u>> \o Tail(Rebase(v, q)) = q
    <2> SUFFICES ASSUME NEW q \in Below(<<u>>) PROVE Rebase(u, Rebase(v, q)) = q
      BY DEF Rebase
    <2>1. Way(q) /\ q[1] = u
      BY <1>4, <1>6 DEF OfVariable
    <2> QED  BY <2>1, RebaseBack
  <1>15. ASSUME NEW p \in DOMAIN ob2
         PROVE  \/ p = <<u>>
                \/ p[1] \notin {u, v} /\ p \in DOMAIN obj
                \/ p[1] = v /\ \E q \in OfVariable(u) : p = Rebase(v, q)
    <2>1. CASE p \in B
      <3>1. PICK q \in Below(<<u>>) : p = Rebase(v, q)
        BY <1>2, <2>1
      <3> QED  BY <1>6, <1>9, <2>1, <3>1
    <2>2. CASE p \in kept
      <3>1. CASE p = <<v>>
        <4>1. <<u>> \in OfVariable(u) /\ p[1] = v /\ p = Rebase(v, <<u>>)
          BY <1>6, <1>7, <1>8, <3>1
        <4> QED  BY <4>1
      <3> QED  BY <1>1, <1>10, <2>2, <3>1
    <2> QED  BY <1>3, <2>1, <2>2
  <1>16. /\ DOMAIN ob2 = kept \cup B
         /\ ob2[<<v>>] = obj[<<u>>] /\ ob2[<<u>>] = Empty
         /\ \A p \in B : ob2[p] = obj[<<u>> \o Tail(p)]
         /\ \A p \in kept \ B : p # <<u>> /\ p # <<v>> => ob2[p] = obj[p]
    <2>1. PICK D : D = kept \cup B
      OBVIOUS
    <2>2. PICK x : x = <<u>>
      OBVIOUS
    <2>3. PICK y : y = <<v>>
      OBVIOUS
    <2>4. \A p \in D : ob2[p] = CASE p = y -> obj[x]
                                   [] p = x -> Empty
                                   [] p \in B -> obj[x \o Tail(p)]
                                   [] OTHER -> obj[p]
      BY <1>3, <2>1, <2>2, <2>3
    <2>5. x \in D /\ y \in D /\ x # y /\ x \notin B /\ y \notin B
      BY <1>11, <1>12, <1>13, <2>1, <2>2, <2>3
    <2>6. ob2[y] = obj[x] /\ ob2[x] = Empty
      BY <2>4, <2>5
    <2>7. \A p \in B : p \in D /\ p # x /\ p # y
      BY <2>1, <2>5
    <2>8. \A p \in B : ob2[p] = obj[x \o Tail(p)]
      BY <2>4, <2>7
    <2>9. \A p \in kept \ B : p # x /\ p # y => ob2[p] = obj[p]
      BY <2>1, <2>4
    <2> QED  BY <1>3, <2>2, <2>3, <2>6, <2>8, <2>9
  <1>17. <<u>> \in DOMAIN ob2 /\ ob2[<<u>>] = Empty
    BY <1>11, <1>16
  <1>18. ASSUME NEW q \in OfVariable(u)
         PROVE  Rebase(v, q) \in DOMAIN ob2 /\ ob2[Rebase(v, q)] = obj[q]
    <2>1. CASE q = <<u>>
      BY <1>8, <1>11, <1>16, <2>1
    <2>2. CASE q \in Below(<<u>>)
      <3>1. PICK p : p = Rebase(v, q)
        OBVIOUS
      <3>2. p \in B /\ p # <<v>> /\ p # <<u>>
        BY <1>2, <1>12, <2>2, <3>1
      <3>3. <<u>> \o Tail(p) = q
        BY <1>14, <2>2, <3>1
      <3>4. ob2[p] = obj[<<u>> \o Tail(p)]
        BY <1>16, <3>2
      <3> QED  BY <1>16, <3>1, <3>2, <3>3, <3>4
    <2> QED  BY <1>6, <2>1, <2>2
  <1>19. ASSUME NEW p \in DOMAIN obj, p[1] \notin {u, v}
         PROVE  p \in DOMAIN ob2 /\ ob2[p] = obj[p]
    <2>1. p \in kept /\ p \notin B /\ p # <<u>> /\ p # <<v>>
      BY <1>5, <1>6, <1>1, <1>7, <1>9, <1>19 DEF OfVariable
    <2> QED  BY <1>16, <2>1
  <1> QED  BY <1>3, <1>15, <1>17, <1>18, <1>19

\* They are wrappers as before.
LEMMA MovedWrappersOK ==
  ASSUME WrappersOK(obj), NEW v \in Vars, NEW u \in Vars, MoveAssign(v, u)
  PROVE  WrappersOK(obj')
  <1>1. PICK ob2 : ob2 = obj'
    OBVIOUS
  <1>2. u # v
    BY DEF MoveAssign
  <1>3. PICK w : w = <<u>>
    OBVIOUS
  <1>4. /\ \A p \in DOMAIN ob2 : \/ p = w
                                 \/ p[1] \notin {u, v} /\ p \in DOMAIN obj
                                 \/ p[1] = v /\ \E q \in OfVariable(u) : p = Rebase(v, q)
        /\ w \in DOMAIN ob2 /\ ob2[w] = Empty
        /\ \A q \in OfVariable(u) : Rebase(v, q) \in DOMAIN ob2 /\ ob2[Rebase(v, q)] = obj[q]
        /\ \A p \in DOMAIN obj : p[1] \notin {u, v} => p \in DOMAIN ob2 /\ ob2[p] = obj[p]
        /\ ob2 = [p \in DOMAIN ob2 |-> ob2[p]]
    BY <1>1, <1>3, MovedWrappers
  <1>5. \A p \in DOMAIN obj : /\ Way(p) /\ obj[p] \in Wrapper
                              /\ Len(p) > 1 => Parent(p) \in DOMAIN obj
                              /\ obj[p].own = NULL \/ obj[p].ext = NULL
    BY DEF WrappersOK
  <1>6. w \in DOMAIN obj /\ Len(w) = 1 /\ w[1] = u
    BY <1>3 DEF WrappersOK
  <1>7. \A q \in OfVariable(u) : q \in DOMAIN obj /\ q[1] = u
    BY DEF OfVariable
  <1>8. ASSUME NEW p \in DOMAIN ob2
        PROVE  /\ Way(p) /\ ob2[p] \in Wrapper
               /\ Len(p) > 1 => Parent(p) \in DOMAIN ob2
               /\ ob2[p].own = NULL \/ ob2[p].ext = NULL
    <2>1. CASE p = w
      <3>1. Empty \in Wrapper /\ Empty.own = NULL
        BY EmptyWrapper
      <3>2. ob2[p] = Empty /\ Way(p) /\ Len(p) = 1
        BY <1>4, <1>5, <1>6, <2>1
      <3> QED  BY <3>1, <3>2
    <2>2. CASE p[1] \notin {u, v} /\ p \in DOMAIN obj
      <3>1. Len(p) > 1 => Parent(p) \in DOMAIN ob2
        <4>1. Len(p) > 1 => Parent(p)[1] = p[1] /\ Parent(p) \in DOMAIN obj
          BY <1>5, <2>2, ParentWay
        <4> QED  BY <1>4, <2>2, <4>1
      <3> QED  BY <1>4, <1>5, <2>2, <3>1
    <2>3. CASE p[1] = v /\ \E q \in OfVariable(u) : p = Rebase(v, q)
      <3>1. PICK q \in OfVariable(u) : p = Rebase(v, q)
        BY <2>3
      <3>2. q \in DOMAIN obj /\ Way(q) /\ ob2[p] = obj[q]
        BY <1>4, <1>5, <1>7, <3>1
      <3>3. Way(p) /\ Len(p) = Len(q)
        BY <3>1, <3>2, RebaseWay
      <3>4. ASSUME Len(p) > 1 PROVE Parent(p) \in DOMAIN ob2
        <4>1. Parent(p) = Rebase(v, Parent(q))
          BY <3>1, <3>2, <3>3, <3>4, RebaseParent
        <4>2. Parent(q) \in DOMAIN obj /\ Parent(q)[1] = u
          BY <1>5, <1>7, <3>2, <3>3, <3>4, ParentWay
        <4>3. Parent(q) \in OfVariable(u)
          BY <4>2 DEF OfVariable
        <4> QED  BY <1>4, <4>1, <4>3
      <3> QED  BY <1>5, <3>2, <3>3, <3>4
    <2> QED  BY <1>4, <2>1, <2>2, <2>3
  <1>9. ASSUME NEW x \in Vars PROVE <<x>> \in DOMAIN ob2
    <2>1. PICK y : y = <<x>>
      OBVIOUS
    <2>2. y \in DOMAIN obj /\ y[1] = x
      BY <2>1 DEF WrappersOK
    <2>3. CASE x = u
      BY <1>3, <1>4, <2>3
    <2>4. CASE x = v
      <3>1. Rebase(v, w) = <<v>>
        BY <1>5, <1>6, RebaseVariable
      <3>2. w \in OfVariable(u)
        BY <1>6 DEF OfVariable
      <3> QED  BY <1>4, <2>4, <3>1, <3>2
    <2>5. CASE x \notin {u, v}
      BY <1>4, <2>1, <2>2, <2>5
    <2> QED  BY <2>3, <2>4, <2>5
  <1>10. ob2 \in [DOMAIN ob2 -> Wrapper]
    BY <1>4, <1>8
  <1> QED  BY <1>1, <1>8, <1>9, <1>10 DEF WrappersOK

\* operator=(CJsonObject&&): v's document is freed, u's goes over to v.
LEMMA MoveAssignKeeps ==
  ASSUME WrappersOK(obj), moved \subseteq Vars, NEW X, Sound(heap, obj, moved, X),
         NEW v \in Vars, NEW u \in Vars, MoveAssign(v, u)
  PROVE  Keeping(X)
  <1>1. PICK ob2 : ob2 = obj'
    OBVIOUS
  <1>2. PICK w : w = <<u>>
    OBVIOUS
  <1>3. PICK z : z = <<v>>
    OBVIOUS
  <1>4. PICK g : g = Cleared(z)
    OBVIOUS
  <1>5. PICK ob : ob = Emptied(z)
    OBVIOUS
  <1>6. PICK mv : mv = moved \ {v}
    OBVIOUS
  <1>7. u # v /\ u \notin moved /\ heap' = g /\ moved' = mv
    BY <1>3, <1>4, <1>6 DEF MoveAssign
  <1>8. /\ w \in DOMAIN obj /\ Len(w) = 1 /\ w[1] = u
        /\ z \in DOMAIN obj /\ Len(z) = 1 /\ z[1] = v
    BY <1>2, <1>3 DEF WrappersOK
  <1>9. Sound(g, ob, mv, X)
    <2>1. MovedLeft(z) = mv
      BY <1>6, <1>8 DEF MovedLeft
    <2>2. g = Delete(heap, Owned(Below(z) \cup {z}))
      BY <1>4 DEF Cleared
    <2> QED  BY <1>5, <1>8, <2>1, <2>2, ClearedSound
  <1>10. /\ \A p \in DOMAIN ob : p \in DOMAIN obj
         /\ \A p \in DOMAIN obj : p[1] # v => p \in DOMAIN ob /\ ob[p] = obj[p]
         /\ \A p \in DOMAIN ob : p[1] = v => p = z
         /\ z \in DOMAIN ob /\ ob[z] = Empty
    <2>1. OfVariable(v) = Below(z) \cup {z} /\ z \notin Below(z)
      BY <1>3, VariableAndBelow
    <2> QED  BY <1>5, <1>8, <2>1 DEF Emptied, OfVariable
  <1>11. /\ \A p \in DOMAIN ob2 : \/ p = w
                                  \/ p[1] \notin {u, v} /\ p \in DOMAIN obj
                                  \/ p[1] = v /\ \E q \in OfVariable(u) : p = Rebase(v, q)
         /\ w \in DOMAIN ob2 /\ ob2[w] = Empty
         /\ \A q \in OfVariable(u) : Rebase(v, q) \in DOMAIN ob2 /\ ob2[Rebase(v, q)] = obj[q]
         /\ \A p \in DOMAIN obj : p[1] \notin {u, v} => p \in DOMAIN ob2 /\ ob2[p] = obj[p]
    BY <1>1, <1>2, MovedWrappers
  <1>12. \A q \in OfVariable(u) : q \in DOMAIN obj /\ q[1] = u /\ Way(q)
    BY DEF OfVariable, WrappersOK
  <1>13. \A q \in DOMAIN obj : q[1] = u => q \in OfVariable(u)
    BY DEF OfVariable
  \* Each wrapper there is now, but u, was one.
  <1>14. ASSUME NEW p \in DOMAIN ob2, p # w
         PROVE  /\ Source(u, v, p) \in DOMAIN ob /\ Source(u, v, p) # z
                /\ ob2[p] = ob[Source(u, v, p)]
                /\ Source(u, v, p)[1] = (IF p[1] = v THEN u ELSE p[1])
                /\ p[1] = v => p = Rebase(v, Source(u, v, p))
    <2>1. CASE p[1] \notin {u, v} /\ p \in DOMAIN obj
      BY <1>8, <1>10, <1>11, <2>1 DEF Source
    <2>2. CASE p[1] = v /\ \E q \in OfVariable(u) : p = Rebase(v, q)
      <3>1. PICK q \in OfVariable(u) : p = Rebase(v, q)
        BY <2>2
      <3>2. q \in DOMAIN obj /\ q[1] = u /\ Way(q)
        BY <1>12
      <3>3. Rebase(u, p) = q
        BY <3>1, <3>2, RebaseBack
      <3>4. Source(u, v, p) = q /\ q # z
        BY <1>7, <1>8, <2>2, <3>2, <3>3 DEF Source
      <3>5. ob2[p] = obj[q] /\ q \in DOMAIN ob /\ ob[q] = obj[q]
        BY <1>7, <1>10, <1>11, <3>1, <3>2
      <3> QED  BY <2>2, <3>1, <3>2, <3>4, <3>5
    <2> QED  BY <1>11, <1>14, <2>1, <2>2
  \* Each wrapper there was, but v, is one.
  <1>15. ASSUME NEW q \in DOMAIN ob, q # z
         PROVE  \E p \in DOMAIN ob2 : /\ ob2[p] = ob[q]
                                      /\ p[1] = (IF q[1] = u THEN v ELSE q[1])
    <2>1. q \in DOMAIN obj /\ q[1] # v /\ ob[q] = obj[q]
      BY <1>10, <1>15
    <2>2. CASE q[1] = u
      <3>1. q \in OfVariable(u) /\ Way(q)
        BY <1>12, <1>13, <2>1, <2>2
      <3>2. PICK p : p = Rebase(v, q)
        OBVIOUS
      <3>3. p \in DOMAIN ob2 /\ ob2[p] = ob[q] /\ p[1] = v
        BY <1>11, <2>1, <3>1, <3>2, RebaseWay
      <3> QED  BY <2>2, <3>3
    <2>3. CASE q[1] # u
      BY <1>11, <2>1, <2>3
    <2> QED  BY <2>2, <2>3
  <1>16. ob[z].own = NULL /\ ob2[w].own = NULL /\ ob2[w].ext = NULL
    BY <1>10, <1>11, EmptyWrapper
  <1>17. Roots(ob2) = Roots(ob)
    <2>1. ASSUME NEW c \in Roots(ob2) PROVE c \in Roots(ob)
      <3>1. PICK p \in DOMAIN ob2 : c = ob2[p].own /\ c # NULL
        BY <2>1 DEF Roots
      <3>2. p # w
        BY <1>16, <3>1
      <3>3. PICK q : q = Source(u, v, p)
        OBVIOUS
      <3>4. q \in DOMAIN ob /\ ob2[p] = ob[q]
        BY <1>14, <3>2, <3>3
      <3> QED  BY <3>1, <3>4 DEF Roots
    <2>2. ASSUME NEW c \in Roots(ob) PROVE c \in Roots(ob2)
      <3>1. PICK q \in DOMAIN ob : c = ob[q].own /\ c # NULL
        BY <2>2 DEF Roots
      <3>2. q # z
        BY <1>16, <3>1
      <3>3. PICK p \in DOMAIN ob2 : ob2[p] = ob[q]
        BY <1>15, <3>2
      <3> QED  BY <3>1, <3>3 DEF Roots
    <2> QED  BY <2>1, <2>2
  <1>18. \A p \in DOMAIN ob : ob[p].own \in Pointers /\ ob[p].ext \in Pointers
    BY <1>9 DEF Sound
  <1>19. \A p \in DOMAIN ob2 : ob2[p].own \in Pointers /\ ob2[p].ext \in Pointers
    <2>1. ob2[w].own \in Pointers /\ ob2[w].ext \in Pointers
      BY <1>16 DEF Pointers
    <2> QED  BY <1>14, <1>18, <2>1
  <1>20. ASSUME NEW p \in DOMAIN ob2, NEW q \in DOMAIN ob2, ob2[p].own = ob2[q].own, ob2[p].own # NULL
         PROVE  p = q
    <2>1. p # w /\ q # w
      BY <1>16, <1>20
    <2>2. /\ Source(u, v, p) \in DOMAIN ob /\ ob2[p] = ob[Source(u, v, p)]
          /\ Source(u, v, q) \in DOMAIN ob /\ ob2[q] = ob[Source(u, v, q)]
      BY <1>14, <2>1
    <2>3. PICK a : a = Source(u, v, p)
      OBVIOUS
    <2>4. PICK b : b = Source(u, v, q)
      OBVIOUS
    <2>5. a = b
      <3>1. a \in DOMAIN ob /\ b \in DOMAIN ob /\ ob[a].own = ob[b].own /\ ob[a].own # NULL
        BY <1>20, <2>2, <2>3, <2>4
      <3> QED  BY <1>9, <3>1 DEF Sound
    <2>6. /\ a[1] = (IF p[1] = v THEN u ELSE p[1]) /\ (p[1] = v => p = Rebase(v, a))
          /\ b[1] = (IF q[1] = v THEN u ELSE q[1]) /\ (q[1] = v => q = Rebase(v, b))
      BY <1>14, <2>1, <2>3, <2>4
    <2>7. p[1] # u /\ q[1] # u
      BY <1>7, <1>11, <2>1
    <2>8. CASE p[1] = v
      BY <2>5, <2>6, <2>7, <2>8
    <2>9. CASE p[1] # v
      <3>1. q[1] # v
        BY <2>5, <2>6, <2>7, <2>9
      <3> QED  BY <2>3, <2>4, <2>5, <2>9, <3>1 DEF Source
    <2> QED  BY <2>8, <2>9
  <1>21. ASSUME NEW p \in DOMAIN ob2, p[1] \notin mv, ob2[p].ext # NULL
         PROVE  \E x \in DOMAIN ob : /\ x[1] \notin mv /\ ob2[p].ext = ob[x].ext
                                     /\ OwnsOf(ob, x[1]) \subseteq OwnsOf(ob2, p[1])
    <2>1. p # w
      BY <1>16, <1>21
    <2>2. PICK x : x = Source(u, v, p)
      OBVIOUS
    <2>3. /\ x \in DOMAIN ob /\ ob2[p] = ob[x] /\ x # z
          /\ x[1] = (IF p[1] = v THEN u ELSE p[1])
      BY <1>14, <2>1, <2>2
    <2>4. x[1] \notin mv
      BY <1>6, <1>7, <1>21, <2>3
    <2>5. p[1] = (IF x[1] = u THEN v ELSE x[1])
      BY <1>7, <1>11, <2>1, <2>3
    <2>6. ASSUME NEW c \in OwnsOf(ob, x[1]) PROVE c \in OwnsOf(ob2, p[1])
      <3>1. PICK q \in DOMAIN ob : q[1] = x[1] /\ c = ob[q].own /\ c # NULL
        BY <2>6 DEF OwnsOf
      <3>2. q # z
        BY <1>16, <3>1
      <3>3. PICK r \in DOMAIN ob2 : ob2[r] = ob[q] /\ r[1] = (IF q[1] = u THEN v ELSE q[1])
        BY <1>15, <3>2
      <3>4. r[1] = p[1]
        BY <2>5, <3>1, <3>3
      <3> QED  BY <3>1, <3>3, <3>4 DEF OwnsOf
    <2> QED  BY <2>3, <2>4, <2>6
  <1>22. Sound(g, ob2, mv, X)
    <2>1. X \cap Roots(ob2) = {} /\ Roots(ob2) \cup X = Roots(ob) \cup X
      BY <1>9, <1>17 DEF Sound
    <2>2. \A p, q \in DOMAIN ob2 : ob2[p].own = ob2[q].own /\ ob2[p].own # NULL => p = q
      BY <1>20
    <2>3. \A p \in DOMAIN ob2 : p[1] \notin mv /\ ob2[p].ext # NULL =>
            \E x \in DOMAIN ob : /\ x[1] \notin mv /\ ob2[p].ext = ob[x].ext
                                 /\ OwnsOf(ob, x[1]) \subseteq OwnsOf(ob2, p[1])
      BY <1>21
    <2> QED  BY <1>9, <1>19, <2>1, <2>2, <2>3, SoundRewrapped
  <1>23. WrappersOK(obj') /\ moved' \subseteq moved \cup Vars
    BY <1>6, <1>7, MovedWrappersOK
  <1> QED  BY <1>1, <1>7, <1>22, <1>23 DEF Keeping

(***************************************************************************)
(* The invariant                                                           *)
(***************************************************************************)
\* The wrappers are in order, and so is the memory; the items X that nobody has
\* are those a Replace of what was not there made.
Inv ==
  /\ WrappersOK(obj) /\ moved \subseteq Vars
  /\ \E X : Sound(heap, obj, moved, X) /\ (X = {} \/ "replace_missing" \in Liberties)

\* All cells free, all variables about nothing
LEMMA InitInv ==
  ASSUME Init
  PROVE  Inv
  <1>1. PICK V : V = {<<v>> : v \in Vars}
    OBVIOUS
  <1>2. /\ heap = [c \in Cells |-> Freed] /\ obj = [w \in V |-> Empty] /\ moved = {}
    BY <1>1 DEF Init
  <1>3. Freed \in Item /\ Freed.type = "freed" /\ Freed.child = <<>>
    BY ItemsMade DEF Freed
  <1>4. /\ DOMAIN obj = V /\ obj \in [DOMAIN obj -> Wrapper]
        /\ \A w \in V : obj[w].own = NULL /\ obj[w].ext = NULL
    BY <1>2, EmptyWrapper
  <1>5. \A w \in V : Way(w) /\ ~(Len(w) > 1)
    <2> SUFFICES ASSUME NEW w \in V PROVE Way(w) /\ ~(Len(w) > 1)
      OBVIOUS
    <2>1. PICK v \in Vars : w = <<v>>
      BY <1>1
    <2>2. v \in Steps
      BY DEF Steps
    <2>3. w \in Seq(Steps) /\ Len(w) = 1 /\ w[1] = v
      BY <2>1, <2>2
    <2> QED  BY <2>3 DEF Way
  <1>6. WrappersOK(obj)
    <2>1. \A v \in Vars : <<v>> \in DOMAIN obj
      BY <1>1, <1>4
    <2>2. \A w \in DOMAIN obj : /\ Way(w) /\ ~(Len(w) > 1)
                                /\ obj[w].own = NULL \/ obj[w].ext = NULL
      BY <1>4, <1>5
    <2> QED  BY <1>4, <2>1, <2>2 DEF WrappersOK
  <1>7. Roots(obj) = {}
    BY <1>4 DEF Roots
  <1>8. PICK R : R = {}
    OBVIOUS
  <1>9. heap \in Memories /\ \A c \in Cells : ~Alive(heap, c) /\ heap[c].child = <<>>
    BY <1>2, <1>3 DEF Memories, Alive
  <1>10. Tidy(heap, R)
    <2>1. \A c \in Cells : Kids(heap, c) = {} /\ IsInjective(heap[c].child)
      BY <1>9 DEF Kids, Range, IsInjective
    <2> QED  BY <1>8, <1>9, <2>1 DEF Tidy
  <1>11. Sound(heap, obj, moved, R)
    <2>1. R = Roots(obj) \cup R /\ R \cap Roots(obj) = {}
      BY <1>7, <1>8
    <2> QED  BY <1>4, <1>9, <1>10, <2>1 DEF Sound, Pointers
  <1> QED  BY <1>2, <1>6, <1>8, <1>11 DEF Inv

\* The overloads that take a scalar, and Delete, under a key
LEMMA ScalarMemberKeeps ==
  ASSUME WrappersOK(obj), NEW X, Sound(heap, obj, moved, X), NEW w \in DOMAIN obj,
         NEW k \in Keys, ScalarMember(w, k)
  PROVE  Keeping(X)
  <1>1. ASSUME NEW item, Scalar(item), AddScalar(w, k, item) \/ ReplaceScalar(w, k, item)
        PROVE  Keeping(X)
    BY <1>1, AddScalarKeeps, ReplaceScalarKeeps
  <1>2. CASE \E s \in Strings : AddString(w, k, s) \/ ReplaceString(w, k, s)
    BY <1>1, <1>2, ScalarsMade DEF AddString, ReplaceString
  <1>3. CASE \E n \in Integers32or64 : AddInteger(w, k, n) \/ ReplaceInteger(w, k, n)
    BY <1>1, <1>3, ScalarsMade DEF AddInteger, ReplaceInteger
  <1>4. CASE \E d \in Reals : AddReal(w, k, d) \/ ReplaceReal(w, k, d)
    BY <1>1, <1>4, ScalarsMade DEF AddReal, ReplaceReal
  <1>5. CASE \E b \in Booleans : AddBool(w, k, b) \/ ReplaceBool(w, k, b)
    BY <1>1, <1>5, ScalarsMade DEF AddBool, ReplaceBool
  <1>6. CASE AddNull(w, k) \/ ReplaceNull(w, k)
    BY <1>1, <1>6, ScalarsMade DEF AddNull, ReplaceNull
  <1>7. CASE AddEmptySubObject(w, k) \/ AddEmptySubArray(w, k)
    BY <1>1, <1>7, ScalarsMade DEF AddEmptySubObject, AddEmptySubArray
  <1>8. CASE DeleteMember(w, k)
    BY <1>8, DeleteMemberKeeps
  <1> QED  BY <1>2, <1>3, <1>4, <1>5, <1>6, <1>7, <1>8 DEF ScalarMember

\* Those that put a scalar into an array
LEMMA ScalarElementKeeps ==
  ASSUME WrappersOK(obj), NEW X, Sound(heap, obj, moved, X), NEW w \in DOMAIN obj,
         ScalarElement(w)
  PROVE  Keeping(X)
  <1>1. ASSUME NEW item, Scalar(item), Append1(w, item) \/ Prepend1(w, item)
        PROVE  Keeping(X)
    <2>1. PutScalar(w, item, FALSE) \/ PutScalar(w, item, TRUE)
      BY <1>1 DEF Append1, Prepend1
    <2> QED  BY <1>1, <2>1, PutScalarKeeps
  <1>2. CASE \E s \in Strings : AppendString(w, s) \/ PrependString(w, s)
    BY <1>1, <1>2, ScalarsMade DEF AppendString, PrependString
  <1>3. CASE \E n \in Integers32or64 : AppendInteger(w, n) \/ PrependInteger(w, n)
    BY <1>1, <1>3, ScalarsMade DEF AppendInteger, PrependInteger
  <1>4. CASE \E d \in Reals : AppendReal(w, d) \/ PrependReal(w, d)
    BY <1>1, <1>4, ScalarsMade DEF AppendReal, PrependReal
  <1>5. CASE \E b \in Booleans : AppendBool(w, b) \/ PrependBool(w, b)
    BY <1>1, <1>5, ScalarsMade DEF AppendBool, PrependBool
  <1>6. CASE AppendNull(w) \/ PrependNull(w)
    BY <1>1, <1>6, ScalarsMade DEF AppendNull, PrependNull
  <1> QED  BY <1>2, <1>3, <1>4, <1>5, <1>6 DEF ScalarElement

\* Those that replace or delete an element
LEMMA ElementAtKeeps ==
  ASSUME WrappersOK(obj), NEW X, Sound(heap, obj, moved, X), NEW w \in DOMAIN obj,
         NEW i \in Indices, ElementAt(w, i)
  PROVE  Keeping(X)
  <1>1. ASSUME NEW item, Scalar(item), ReplaceScalarAt(w, i, item)
        PROVE  Keeping(X)
    BY <1>1, ReplaceScalarAtKeeps
  <1>2. CASE \E s \in Strings : ReplaceStringAt(w, i, s)
    BY <1>1, <1>2, ScalarsMade DEF ReplaceStringAt
  <1>3. CASE \E n \in Integers32or64 : ReplaceIntegerAt(w, i, n)
    BY <1>1, <1>3, ScalarsMade DEF ReplaceIntegerAt
  <1>4. CASE \E d \in Reals : ReplaceRealAt(w, i, d)
    BY <1>1, <1>4, ScalarsMade DEF ReplaceRealAt
  <1>5. CASE \E b \in Booleans : ReplaceBoolAt(w, i, b)
    BY <1>1, <1>5, ScalarsMade DEF ReplaceBoolAt
  <1>6. CASE ReplaceNullAt(w, i)
    BY <1>1, <1>6, ScalarsMade DEF ReplaceNullAt
  <1>7. CASE DeleteElement(w, i)
    BY <1>7, DeleteElementKeeps
  <1> QED  BY <1>2, <1>3, <1>4, <1>5, <1>6, <1>7 DEF ElementAt

\* Those between two documents
LEMMA CombineKeeps ==
  ASSUME WrappersOK(obj), moved \subseteq Vars, NEW X, Sound(heap, obj, moved, X),
         NEW w \in DOMAIN obj, NEW x \in DOMAIN obj, Combine(w, x)
  PROVE  Keeping(X)
  <1>1. CASE Assign(x, w)
    BY <1>1, AssignKeeps
  <1>2. CASE \E k \in Keys : GetObject(w, k, x) \/ AddCopy(w, k, x) \/ ReplaceCopy(w, k, x)
    BY <1>2, GetObjectKeeps, AddCopyKeeps, ReplaceCopyKeeps
  <1>3. CASE \E i \in Indices : GetObjectAt(w, i, x) \/ ReplaceCopyAt(w, i, x)
    BY <1>3, GetObjectAtKeeps, ReplaceCopyAtKeeps
  <1>4. CASE AppendCopy(w, x) \/ PrependCopy(w, x)
    <2>1. PutCopy(w, x, FALSE) \/ PutCopy(w, x, TRUE)
      BY <1>4 DEF AppendCopy, PrependCopy
    <2> QED  BY <2>1, PutCopyKeeps
  <1> QED  BY <1>1, <1>2, <1>3, <1>4 DEF Combine

\* Those that move the document of a variable
LEMMA MoveKeeps ==
  ASSUME WrappersOK(obj), moved \subseteq Vars, NEW X, Sound(heap, obj, moved, X),
         NEW w \in DOMAIN obj, NEW v \in Vars, Move(w, v)
  PROVE  Keeping(X)
  <1>1. CASE MoveAssign(w[1], v)
    <2>1. w[1] \in Vars
      BY DEF WrappersOK, Way
    <2> QED  BY <1>1, <2>1, MoveAssignKeeps
  <1>2. CASE \E k \in Keys : AddMove(w, k, v) \/ ReplaceMove(w, k, v)
    BY <1>2, AddMoveKeeps, ReplaceMoveKeeps
  <1>3. CASE AppendMove(w, v) \/ PrependMove(w, v)
    <2>1. PutMove(w, v, FALSE) \/ PutMove(w, v, TRUE)
      BY <1>3 DEF AppendMove, PrependMove
    <2> QED  BY <2>1, PutMoveKeeps
  <1>4. CASE \E i \in Indices : ReplaceMoveAt(w, i, v)
    BY <1>4, ReplaceMoveAtKeeps
  <1> QED  BY <1>1, <1>2, <1>3, <1>4 DEF Move

\* Every call keeps wrappers and memory in order.
LEMMA CallKeeps ==
  ASSUME WrappersOK(obj), moved \subseteq Vars, NEW X, Sound(heap, obj, moved, X),
         NEW w \in DOMAIN obj, Call(w)
  PROVE  Keeping(X)
  <1>1. CASE \E k \in Keys : Member(w, k) \/ ScalarMember(w, k)
    BY <1>1, MemberKeeps, ScalarMemberKeeps
  <1>2. CASE \E i \in Indices : Element(w, i) \/ ElementAt(w, i)
    BY <1>2, ElementKeeps, ElementAtKeeps
  <1>3. CASE ScalarElement(w)
    BY <1>3, ScalarElementKeeps
  <1>4. CASE Clear(w)
    <2>1. PICK own : own = NULL
      OBVIOUS
    <2>2. Becomes(w, Cleared(w), own)
      BY <1>4, <2>1 DEF Clear
    <2> QED  BY <2>1, <2>2, ClearKeeps
  <1>5. CASE \E doc \in Documents : Parse(w, doc)
    BY <1>5, ParseKeeps
  <1>6. CASE GetKey(w) \/ ResetTraversing(w)
    BY <1>6, TraversalKeeps
  <1>7. CASE \E x \in DOMAIN obj : Combine(w, x)
    BY <1>7, CombineKeeps
  <1>8. CASE \E v \in Vars : Move(w, v)
    BY <1>8, MoveKeeps
  <1> QED  BY <1>1, <1>2, <1>3, <1>4, <1>5, <1>6, <1>7, <1>8 DEF Call

\* So the invariant holds from one state to the next.
LEMMA NextInv ==
  ASSUME Inv, [Next]_vars
  PROVE  Inv'
  <1>1. CASE Next
    <2>1. PICK X : Sound(heap, obj, moved, X) /\ (X = {} \/ "replace_missing" \in Liberties)
      BY DEF Inv
    <2>2. PICK w \in DOMAIN obj : Call(w)
      BY <1>1 DEF Next
    <2>3. Keeping(X)
      BY <2>1, <2>2, CallKeeps DEF Inv
    <2>4. PICK Y : Sound(heap', obj', moved', Y) /\ (Y = X \/ "replace_missing" \in Liberties)
      BY <2>3 DEF Keeping
    <2>5. WrappersOK(obj') /\ moved' \subseteq Vars
      BY <2>3 DEF Keeping, Inv
    <2> QED  BY <2>1, <2>4, <2>5 DEF Inv
  <1>2. CASE UNCHANGED vars
    <2>1. heap' = heap /\ obj' = obj /\ moved' = moved
      BY <1>2 DEF vars
    <2> QED  BY <2>1 DEF Inv
  <1> QED  BY <1>1, <1>2

\* Whatever is called: every item there is is in one document, of one wrapper (or
\* was made by a Replace of what was not there), and what a wrapper of a variable
\* that was not moved from looks into is in a document of that variable, or freed.
THEOREM MemoryIsSound == Spec => []Inv
  <1>1. Init => Inv
    BY InitInv
  <1>2. Inv /\ [Next]_vars => Inv'
    BY NextInv
  <1> QED  BY <1>1, <1>2, PTL DEF Spec

(***************************************************************************)
(* What follows                                                            *)
(***************************************************************************)
\* All variables of CJsonObject have the types TypeOK says: only arrays and objects
\* have items below them, every wrapper is below one that is there.
THEOREM TypeCorrect == Spec => []TypeOK
  <1>1. ASSUME Inv PROVE TypeOK
    <2>1. PICK X : Sound(heap, obj, moved, X)
      BY <1>1 DEF Inv
    <2>2. /\ heap \in [Cells -> Item]
          /\ \A c \in Cells : heap[c].child # <<>> => heap[c].type \in {"Array", "Object"}
      BY <2>1 DEF Sound, Memories, Tidy
    <2>3. /\ obj \in [DOMAIN obj -> Wrapper] /\ moved \subseteq Vars
          /\ \A v \in Vars : <<v>> \in DOMAIN obj
      BY <1>1 DEF Inv, WrappersOK
    <2>4. \A w \in DOMAIN obj :
            /\ w \in Seq(Vars \cup Keys \cup Indices) /\ w # <<>> /\ w[1] \in Vars
            /\ \A i \in 2..Len(w) : w[i] \in Keys \cup Indices
            /\ Len(w) > 1 => Parent(w) \in DOMAIN obj
            /\ obj[w].own = NULL \/ obj[w].ext = NULL
      BY <1>1 DEF Inv, WrappersOK, Way, Steps
    <2> QED  BY <2>2, <2>3, <2>4 DEF TypeOK
  <1> QED  BY <1>1, MemoryIsSound, PTL

\* No item has two owners, and no freed item has one: cJSON_Delete, the destructor
\* and the && overloads free nothing twice and leave no list with a freed item.
THEOREM SingleOwnerHolds == Spec => []SingleOwner
  <1>1. ASSUME Inv PROVE SingleOwner
    <2> SUFFICES ASSUME NEW c \in Cells
                 PROVE  Cardinality(Holders(c)) <= (IF Live1(c) THEN 1 ELSE 0)
      BY DEF SingleOwner
    <2>1. PICK X : Sound(heap, obj, moved, X)
      BY <1>1 DEF Inv
    <2>2. PICK N : N = 1..Cardinality(Cells)
      OBVIOUS
    <2>3. PICK A : A = {s \in Cells \X N : s[2] \in DOMAIN heap[s[1]].child /\ heap[s[1]].child[s[2]] = c}
      OBVIOUS
    <2>4. PICK B : B = {w \in DOMAIN obj : obj[w].own = c}
      OBVIOUS
    <2>5. PICK H : H = Holders(c)
      OBVIOUS
    <2>6. H = A \cup B
      BY <2>2, <2>3, <2>4, <2>5 DEF Holders
    <2>7. \A s \in A : \E p \in Cells, i \in N :
            s = <<p, i>> /\ i \in DOMAIN heap[p].child /\ heap[p].child[i] = c
      BY <2>3
    <2>8. c # NULL
      BY CellsAssumption
    <2>9. ASSUME NEW s \in A PROVE Live1(c) /\ c \notin Roots(obj) /\ \E p \in Cells : c \in Kids(heap, p)
      <3>1. PICK p \in Cells, i \in N : i \in DOMAIN heap[p].child /\ heap[p].child[i] = c
        BY <2>7
      <3>2. c \in Kids(heap, p)
        BY <3>1 DEF Kids, Range
      <3> QED  BY <2>1, <3>2 DEF Sound, Tidy, Live1, Alive
    <2>10. ASSUME NEW w \in B PROVE Live1(c) /\ c \in Roots(obj)
      <3>1. c \in Roots(obj)
        BY <2>4, <2>8 DEF Roots
      <3> QED  BY <2>1, <3>1 DEF Sound, Tidy, Live1, Alive
    <2>11. ASSUME NEW s \in A, NEW t \in A PROVE s = t
      <3>1. PICK p \in Cells, i \in N : s = <<p, i>> /\ i \in DOMAIN heap[p].child /\ heap[p].child[i] = c
        BY <2>7
      <3>2. PICK q \in Cells, j \in N : t = <<q, j>> /\ j \in DOMAIN heap[q].child /\ heap[q].child[j] = c
        BY <2>7
      <3>3. c \in Kids(heap, p) /\ c \in Kids(heap, q)
        BY <3>1, <3>2 DEF Kids, Range
      <3>4. p = q
        BY <2>1, <3>3 DEF Sound, Tidy
      <3>5. i = j
        <4>1. IsInjective(heap[p].child)
          BY <2>1 DEF Sound, Tidy
        <4> QED  BY <3>1, <3>2, <3>4, <4>1 DEF IsInjective
      <3> QED  BY <3>1, <3>2, <3>4, <3>5
    <2>12. ASSUME NEW s \in B, NEW t \in B PROVE s = t
      <3>1. s \in DOMAIN obj /\ t \in DOMAIN obj /\ obj[s].own = obj[t].own /\ obj[s].own # NULL
        BY <2>4, <2>8
      <3> QED  BY <2>1, <3>1 DEF Sound
    <2>13. \A s, t \in H : s = t
      BY <2>6, <2>9, <2>10, <2>11, <2>12
    <2>14. H # {} => Live1(c)
      BY <2>6, <2>9, <2>10
    <2>15. CASE H = {}
      BY <2>5, <2>15, FS_EmptySet
    <2>16. CASE H # {}
      <3>1. PICK s : H = {s}
        BY <2>13, <2>16
      <3>2. Cardinality(H) = 1
        BY <3>1, FS_Singleton
      <3> QED  BY <2>5, <2>14, <2>16, <3>2
    <2> QED  BY <2>15, <2>16
  <1> QED  BY <1>1, MemoryIsSound, PTL

\* If callers replace only what is there, every item will be freed: no call drops
\* the last pointer to a document, failed Adds and replaced wrappers included.
THEOREM NoLeakHolds ==
  ASSUME "replace_missing" \notin Liberties
  PROVE  Spec => []NoLeak
  <1>1. ASSUME Inv PROVE NoLeak
    <2>1. PICK X : Sound(heap, obj, moved, X) /\ X = {}
      BY <1>1 DEF Inv
    <2>2. \A c \in Cells : Alive(heap, c) => c \in Trees(heap, Roots(obj))
      <3>1. Roots(obj) \cup X = Roots(obj)
        BY <2>1
      <3> QED  BY <2>1, <3>1 DEF Sound, Tidy
    <2>3. Roots(obj) = {obj[w].own : w \in DOMAIN obj} \ {NULL}
      BY DEF Roots
    <2> QED  BY <2>2, <2>3 DEF NoLeak, Live1, Alive
  <1> QED  BY <1>1, MemoryIsSound, PTL

(***************************************************************************)
(* Numbers                                                                 *)
(***************************************************************************)
\* What the numeric overloads make says the number given.
LEMMA NumbersMade ==
  ASSUME NumbersFit
  PROVE  /\ \A n \in Integers32or64 :
              /\ Says(IntegerItem(n))
              /\ n.value = Cast("int64", n.value) => Says(FirstIntegerItem(n))
         /\ \A d \in Reals : Says(RealItem(d))
  <1>1. PICK m \in Nat : m = M64 \div 2 /\ M64 = 2 * m /\ m > 0
    BY WidthAssumption
  <1>2. ASSUME NEW v \in Int, NEW sign \in {-1, 1},
               sign = -1 => v \in Int64, sign = 1 => v \in 0..(M64 - 1),
               NEW item, item = [CreateInt(v, sign) EXCEPT !.number = 2 * v]
        PROVE  Says(item)
    <2>1. PICK int \in Int64 : int = Cast("int64", v)
      BY CastType
    <2>2. PICK u \in 0..(M64 - 1) : u = Cast("uint64", v)
      BY CastType
    <2>4. item = [NewItem EXCEPT !.type = "Int", !.valueint = int, !.valuedouble = 2 * u, !.sign = sign,
                                 !.number = 2 * v]
      BY <1>2, <2>1, <2>2 DEF CreateInt, NewItem
    <2>5. /\ Fields \subseteq DOMAIN item /\ item.valueint = int /\ item.valuedouble = 2 * u
          /\ item.sign = sign /\ item.number = 2 * v /\ item.type = "Int"
      BY <2>4 DEF NewItem, Fields
    <2>6. 2 * v = 2 * (IF sign = -1 THEN int ELSE Cast("uint64", int))
      BY <2>1, <1>2, CastKeeps
    <2>7. 2 * v \in 0..(M64 - 1) => 2 * u = 2 * v
      <3> SUFFICES ASSUME 2 * v \in 0..(M64 - 1) PROVE u = v
        OBVIOUS
      <3>1. v \in 0..(M64 - 1)
        BY <1>1
      <3> QED  BY <2>2, <3>1, CastKeeps
    <2>8. 2 * u \in Int /\ 2 * v \in Int
      BY <1>1
    <2> QED  BY <2>5, <2>6, <2>7, <2>8 DEF Says, SaysNumber
  <1>3. ASSUME NEW n \in Integers32or64
        PROVE  /\ Says(IntegerItem(n))
               /\ n.value = Cast("int64", n.value) => Says(FirstIntegerItem(n))
    <2>1. PICK v \in Int : v = n.value /\ n.type \in IntTypes /\ v = Cast(n.type, v)
      BY CallersAssumption
    <2>2. v = Cast("int64", v) => v \in Int64
      BY CastType
    <2>6. v \in Int64 => Says([CreateInt(v, -1) EXCEPT !.number = 2 * v])
      <3>1. PICK item : item = [CreateInt(v, -1) EXCEPT !.number = 2 * v]
        OBVIOUS
      <3> QED  BY <1>2, <3>1
    <2>7. v \in 0..(M64 - 1) => Says([CreateInt(v, 1) EXCEPT !.number = 2 * v])
      <3>1. PICK item : item = [CreateInt(v, 1) EXCEPT !.number = 2 * v]
        OBVIOUS
      <3> QED  BY <1>2, <3>1
    <2>8. FirstIntegerItem(n) = [CreateInt(v, -1) EXCEPT !.number = 2 * v]
      BY <2>1 DEF FirstIntegerItem
    <2>3. n.value = Cast("int64", n.value) => Says(FirstIntegerItem(n))
      BY <2>1, <2>2, <2>6, <2>8
    <2>4. CASE n.type \in {"int32", "int64"}
      <3>1. v \in Int64
        BY <2>1, <2>4, CastType
      <3>2. IntegerItem(n) = [CreateInt(v, -1) EXCEPT !.number = 2 * v]
        BY <2>1, <2>4 DEF IntegerItem
      <3> QED  BY <2>3, <2>6, <3>1, <3>2
    <2>5. CASE n.type \in {"uint32", "uint64"}
      <3>3. IntegerItem(n) = [CreateInt(v, 1) EXCEPT !.number = 2 * v]
        BY <2>1, <2>5 DEF IntegerItem
      <3>1. CASE n.type = "uint64"
        <4>1. v \in 0..(M64 - 1)
          BY <2>1, <3>1, CastType
        <4> QED  BY <2>3, <2>7, <3>3, <4>1
      <3>2. CASE n.type = "uint32"
        <4>1. v = v % M32
          BY <2>1, <3>2 DEF Cast, Unsigned
        <4>2. v \in 0..(M64 - 1)
          BY <4>1, WidthAssumption
        <4> QED  BY <2>3, <2>7, <3>3, <4>2
      <3> QED  BY <2>5, <3>1, <3>2
    <2> QED  BY <2>1, <2>4, <2>5 DEF IntTypes
  <1>4. ASSUME NEW d \in Reals
        PROVE  Says(RealItem(d))
    <2>1. d \in Int /\ Truncated(d) \in Int64 /\ Abs(d) < M64
      BY ValuesAssumption DEF NumbersFit
    <2>2. PICK int \in Int64 : int = Truncated(d)
      BY <2>1
    <2>3. PICK item : item = RealItem(d)
      OBVIOUS
    <2>4. item = [NewItem EXCEPT !.type = "Double", !.valueint = int, !.valuedouble = d, !.sign = -1,
                                 !.number = d]
      BY <2>2, <2>3 DEF RealItem, CreateDouble, NewItem
    <2>5. /\ Fields \subseteq DOMAIN item /\ item.valueint = int /\ item.valuedouble = d
          /\ item.number = d /\ item.type = "Double"
      BY <2>4 DEF NewItem, Fields
    <2> QED  BY <2>1, <2>3, <2>5 DEF Says, SaysNumber
  <1> QED  BY <1>3, <1>4

\* The other items have no number.
LEMMA OthersMade ==
  /\ \A s : Says(CreateString(s))
  /\ \A b : Says(CreateBool(b))
  /\ Says(CreateNull) /\ Says(CreateObject) /\ Says(CreateArray) /\ Says(Freed)
  BY DEF Says, Fields, IsNumber, NewItem, CreateString, CreateBool, CreateNull, CreateObject, CreateArray, Freed

(***************************************************************************)
(* What cJSON.c does to a memory whose items say their numbers             *)
(***************************************************************************)
\* Freeing
LEMMA DeleteNumeric ==
  ASSUME NEW h, Numeric(h), NEW N
  PROVE  Numeric(Delete(h, N))
  <1>1. PICK g : g = Delete(h, N)
    OBVIOUS
  <1>2. DOMAIN g = Cells /\ \A c \in Cells : g[c] = Freed \/ g[c] = h[c]
    BY <1>1 DEF Delete
  <1> QED  BY <1>1, <1>2, OthersMade DEF Numeric

\* A new item in a cell, a new list or a key for one
LEMMA CellNumeric ==
  ASSUME NEW h, Numeric(h), NEW a, NEW x, NEW g,
         \/ g = [h EXCEPT ![a] = x] /\ Says(x)
         \/ g = [h EXCEPT ![a].child = x]
         \/ g = [h EXCEPT ![a].string = x]
  PROVE  Numeric(g)
  <1>1. DOMAIN g = Cells /\ \A c \in Cells : c # a => g[c] = h[c]
    BY DEF Numeric
  <1>2. a \in Cells => Says(g[a])
    <2>1. CASE g = [h EXCEPT ![a] = x] /\ Says(x)
      BY <2>1 DEF Numeric
    <2>2. CASE g = [h EXCEPT ![a].child = x]
      <3>1. a \in Cells => g[a] = [h[a] EXCEPT !.child = x] /\ Says(h[a])
        BY <2>2 DEF Numeric
      <3> QED  BY <3>1, SaysRelinked
    <2>3. CASE g = [h EXCEPT ![a].string = x]
      <3>1. a \in Cells => g[a] = [h[a] EXCEPT !.string = x] /\ Says(h[a])
        BY <2>3 DEF Numeric
      <3> QED  BY <3>1, SaysRelinked
    <2> QED  BY <2>1, <2>2, <2>3
  <1> QED  BY <1>1, <1>2 DEF Numeric

\* Linking an item
LEMMA LinkNumeric ==
  ASSUME NEW h, Numeric(h), NEW a, NEW n
  PROVE  /\ Numeric(AddItemToArray(h, a, n)) /\ Numeric(AddItemToArrayHead(h, a, n))
         /\ \A k : Numeric(AddItemToObject(h, a, k, n))
  <1>1. ASSUME NEW g, Numeric(g)
        PROVE  Numeric(AddItemToArray(g, a, n)) /\ Numeric(AddItemToArrayHead(g, a, n))
    <2>1. PICK x : x = Append(g[a].child, n)
      OBVIOUS
    <2>2. PICK y : y = <<n>> \o g[a].child
      OBVIOUS
    <2>3. AddItemToArray(g, a, n) = [g EXCEPT ![a].child = Append(@, n)]
      BY DEF AddItemToArray
    <2>4. AddItemToArrayHead(g, a, n) = [g EXCEPT ![a].child = <<n>> \o @]
      BY DEF AddItemToArrayHead
    <2>5. PICK f : f = [g EXCEPT ![a].child = x]
      OBVIOUS
    <2>6. PICK e : e = [g EXCEPT ![a].child = y]
      OBVIOUS
    <2>7. Numeric(f) /\ Numeric(e)
      BY <1>1, <2>5, <2>6, CellNumeric
    <2> QED  BY <2>1, <2>2, <2>3, <2>4, <2>5, <2>6, <2>7
  <1>2. ASSUME NEW k
        PROVE  Numeric(AddItemToObject(h, a, k, n))
    <2>1. PICK g : g = [h EXCEPT ![n].string = k]
      OBVIOUS
    <2>2. Numeric(g)
      BY <2>1, CellNumeric
    <2> QED  BY <1>1, <2>1, <2>2 DEF AddItemToObject
  <1> QED  BY <1>1, <1>2

\* Deleting and replacing one
LEMMA UnlinkNumeric ==
  ASSUME NEW h, Numeric(h), NEW a, NEW n, NEW m
  PROVE  Numeric(DeleteItem(h, a, n)) /\ Numeric(ReplaceItem(h, a, n, m))
  <1>1. PICK x : x = Detached(h[a].child, n)
    OBVIOUS
  <1>2. PICK y : y = [i \in DOMAIN h[a].child |-> IF h[a].child[i] = n THEN m ELSE h[a].child[i]]
    OBVIOUS
  <1>3. DeleteItem(h, a, n) = IF n = NULL THEN h ELSE Delete([h EXCEPT ![a].child = x], {n})
    BY <1>1 DEF DeleteItem
  <1>4. ReplaceItem(h, a, n, m) = IF n = NULL THEN h ELSE Delete([h EXCEPT ![a].child = y], {n})
    BY <1>2 DEF ReplaceItem
  <1>5. Numeric([h EXCEPT ![a].child = x]) /\ Numeric([h EXCEPT ![a].child = y])
    BY CellNumeric
  <1> QED  BY <1>3, <1>4, <1>5, DeleteNumeric

\* Replacing a member
LEMMA ReplaceNumeric ==
  ASSUME NEW h, Numeric(h), NEW a, NEW k, NEW m
  PROVE  Numeric(ReplaceItemInObject(h, a, k, m))
  <1>1. PICK g : g = [h EXCEPT ![m].string = k]
    OBVIOUS
  <1>2. PICK n : n = GetObjectItem(h, a, k)
    OBVIOUS
  <1>3. Numeric(g)
    BY <1>1, CellNumeric
  <1>4. ReplaceItemInObject(h, a, k, m) = IF n = NULL THEN h ELSE ReplaceItem(g, a, n, m)
    BY <1>1, <1>2 DEF ReplaceItemInObject
  <1> QED  BY <1>3, <1>4, UnlinkNumeric

\* Copying a tree
LEMMA CopyNumeric ==
  ASSUME NEW h, Numeric(h), NEW n, NEW free, free \subseteq Cells,
         Cardinality(free) >= Cardinality(Trees(h, {n}))
  PROVE  Numeric(Copy(h, n, free))
  <1>1. PICK T : T = Trees(h, {n})
    OBVIOUS
  <1>2. T \subseteq Cells
    BY <1>1 DEF Trees
  <1>3. PICK at : at = CopyCell(h, n, free)
    OBVIOUS
  <1>4. at \in [T -> free] /\ IsInjective(at)
    <2>1. IsFiniteSet(T) /\ IsFiniteSet(free)
      BY <1>2, FS_Subset, CellsAssumption
    <2>2. Cardinality(T) \in Nat /\ Cardinality(free) \in Nat
      BY <2>1, FS_CardinalityType
    <2>3. Cardinality(T) <= Cardinality(free)
      BY <1>1, <2>2
    <2> QED  BY <2>1, <2>3, <1>1, <1>3, Allocated DEF CopyCell
  <1>5. PICK from : from = AntiFunction(at)
    OBVIOUS
  <1>6. \A c \in DOMAIN from : from[c] \in T
    BY <1>4, <1>5, AntiOf
  <1> DEFINE Copied(m) == [Reparsed(h[m]) EXCEPT
                            !.string = IF m = n THEN NoKey ELSE h[m].string,
                            !.child = [i \in DOMAIN h[m].child |-> at[h[m].child[i]]]]
  <1>7. PICK g : g = [c \in Cells |-> IF c \in DOMAIN from THEN Copied(from[c]) ELSE h[c]]
    OBVIOUS
  <1>8. g = Copy(h, n, free)
    BY <1>3, <1>5, <1>7 DEF Copy
  <1>9. ASSUME NEW m \in Cells PROVE Says(Copied(m))
    <2>1. PICK it : it = Reparsed(h[m])
      OBVIOUS
    <2>2. Says(it)
      BY <2>1, ReparsedSays DEF Numeric
    <2>3. PICK k : k = IF m = n THEN NoKey ELSE h[m].string
      OBVIOUS
    <2>4. PICK list : list = [i \in DOMAIN h[m].child |-> at[h[m].child[i]]]
      OBVIOUS
    <2>5. PICK new : new = [it EXCEPT !.string = k]
      OBVIOUS
    <2>6. Copied(m) = [new EXCEPT !.child = list]
      BY <2>1, <2>3, <2>4, <2>5
    <2> QED  BY <2>2, <2>5, <2>6, SaysRelinked
  <1> HIDE DEF Copied
  <1>10. \A c \in Cells : Says(g[c])
    BY <1>2, <1>6, <1>7, <1>9 DEF Numeric
  <1> QED  BY <1>7, <1>8, <1>10 DEF Numeric

\* Parsing a text
LEMMA ParsedNumeric ==
  ASSUME NumbersFit, NEW h, Numeric(h), NEW free, free \subseteq Cells, NEW root \in free,
         NEW doc \in Documents, Len(doc) < Cardinality(free),
         NEW cell, cell = Allocate(DOMAIN doc, free \ {root})
  PROVE  Numeric(ParsedMemory(h, doc, root, cell))
  <1>1. cell \in [DOMAIN doc -> free \ {root}] /\ IsInjective(cell)
    BY MembersPlaced
  <1>2. \A c \in Range(cell) : AntiFunction(cell)[c] \in DOMAIN doc
    BY <1>1, AntiOf
  <1>3. ASSUME NEW i \in DOMAIN doc PROVE Says(doc[i].item)
    <2>1. doc[i].item \in Item
      BY MembersPlaced
    <2>2. CASE IsNumber(doc[i].item)
      <3>1. PICK t \in NumberTexts : doc[i].item = ParseNumber(t)
        BY <2>2, ValuesAssumption
      <3> QED  BY <3>1, ParsedSays, ValuesAssumption DEF NumbersFit
    <2>3. CASE ~IsNumber(doc[i].item)
      BY <2>1, <2>3 DEF Says, Fields, Item
    <2> QED  BY <2>2, <2>3
  <1>4. PICK new : new = [CreateObject EXCEPT !.child = cell]
    OBVIOUS
  <1>5. Says(new)
    BY <1>4, OthersMade, SaysRelinked
  <1>6. ASSUME NEW c \in Range(cell)
        PROVE  Says(LET m == doc[AntiFunction(cell)[c]] IN [m.item EXCEPT !.string = m.key])
    <2>1. PICK i \in DOMAIN doc : i = AntiFunction(cell)[c]
      BY <1>2
    <2>2. Says([doc[i].item EXCEPT !.string = doc[i].key])
      BY <1>3, SaysRelinked
    <2> QED  BY <2>1, <2>2
  <1>7. PICK g : g = ParsedMemory(h, doc, root, cell)
    OBVIOUS
  <1>8. ASSUME NEW c \in Cells PROVE Says(g[c])
    <2>1. CASE c = root
      <3>1. c \notin Range(cell)
        BY <1>1, <2>1 DEF Range
      <3>2. g[c] = new
        BY <1>4, <1>7, <2>1, <3>1 DEF ParsedMemory
      <3> QED  BY <1>5, <3>2
    <2>2. CASE c # root /\ c \in Range(cell)
      BY <1>6, <1>7, <2>2 DEF ParsedMemory
    <2>3. CASE c # root /\ c \notin Range(cell)
      BY <1>7, <2>3 DEF ParsedMemory, Numeric
    <2> QED  BY <2>1, <2>2, <2>3
  <1> QED  BY <1>7, <1>8 DEF ParsedMemory, Numeric

(***************************************************************************)
(* The calls of CJsonObject                                                *)
(***************************************************************************)
\* A wrapper that is opened
LEMMA OpenedNumeric ==
  ASSUME Numeric(heap), NEW w, NEW root \in {CreateObject, CreateArray}
  PROVE  Numeric(Opened(w, root))
  <1>1. PICK a : a = First(Free)
    OBVIOUS
  <1>2. Numeric([heap EXCEPT ![a] = root])
    BY OthersMade, CellNumeric
  <1> QED  BY <1>1, <1>2 DEF Opened

\* A copy into one
LEMMA OpenedCopyNumeric ==
  ASSUME Numeric(heap), WrappersOK(obj), NEW X, Sound(heap, obj, moved, X), NEW w \in DOMAIN obj,
         NEW x, Room(w, TreeSize(x)), NEW root \in {CreateObject, CreateArray}
  PROVE  Numeric(Copy(Opened(w, root), Focus(x), Rest(w)))
  <1>1. PICK h : h = Opened(w, root)
    OBVIOUS
  <1>2. Free \subseteq Cells /\ IsFiniteSet(Free) /\ Cardinality(Free) \in Nat
    BY FreeCells
  <1>3. TreeSize(x) \in Nat
    <2>1. Trees(heap, {Focus(x)}) \subseteq Cells
      BY DEF Trees
    <2> QED  BY <2>1, CellsAssumption, FS_Subset, FS_CardinalityType DEF TreeSize
  <1>4. \A c \in Cells : h[c].child = heap[c].child
    <2>1. CASE Focus(w) = NULL
      <3>1. First(Free) \in Free
        <4>1. Cardinality(Free) >= 1
          BY <1>2, <1>3, <2>1 DEF Room
        <4> QED  BY <1>2, <4>1, FirstFree
      <3>2. PICK a \in Cells : a = First(Free) /\ heap[a].type = "freed"
        BY <1>2, <3>1 DEF Free
      <3>3. heap[a].child = <<>> /\ heap \in Memories
        BY <3>2 DEF Sound, Tidy
      <3>4. h = [heap EXCEPT ![a] = root]
        BY <1>1, <2>1, <3>2 DEF Opened
      <3> QED  BY <3>3, <3>4, RootsMade DEF Memories
    <2>2. CASE Focus(w) # NULL
      BY <1>1, <2>2 DEF Opened
    <2> QED  BY <2>1, <2>2
  <1>5. Rest(w) \subseteq Cells /\ Cardinality(Rest(w)) >= TreeSize(x)
    <2>1. CASE Focus(w) = NULL
      <3>1. Cardinality(Free) >= 1 /\ Cardinality(Free) >= TreeSize(x) + 1
        BY <1>2, <1>3, <2>1 DEF Room
      <3>2. Cardinality(Free \ {First(Free)}) = Cardinality(Free) - 1
        BY <1>2, <3>1, FirstFree
      <3> QED  BY <1>2, <1>3, <2>1, <3>1, <3>2 DEF Rest
    <2>2. CASE Focus(w) # NULL
      BY <1>2, <1>3, <2>2 DEF Rest, Room
    <2> QED  BY <2>1, <2>2
  <1>6. Trees(h, {Focus(x)}) = Trees(heap, {Focus(x)})
    BY <1>4, SameTrees
  <1> QED  BY <1>1, <1>5, <1>6, OpenedNumeric, CopyNumeric DEF TreeSize

\* Add(key, ...), Add(...) and AddAsFirst(...)
LEMMA AddsNumeric ==
  ASSUME Numeric(heap), WrappersOK(obj), NEW X, Sound(heap, obj, moved, X), NEW w \in DOMAIN obj
  PROVE  /\ \A k, item : Says(item) /\ AddScalar(w, k, item) => Numeric(heap')
         /\ \A item, first : Says(item) /\ PutScalar(w, item, first) => Numeric(heap')
         /\ \A root \in {CreateObject, CreateArray} : AddNothing(w, root) => Numeric(heap')
         /\ \A k, x : AddCopy(w, k, x) => Numeric(heap')
         /\ \A x, first : PutCopy(w, x, first) => Numeric(heap')
         /\ \A k, v : AddMove(w, k, v) => Numeric(heap')
         /\ \A v, first : PutMove(w, v, first) => Numeric(heap')
  <1>1. ASSUME NEW h, Numeric(h), NEW n, NEW g,
               \/ \E k : g = AddItemToObject(h, At(w), k, n)
               \/ \E first : g = Put(h, At(w), n, first),
               NEW N, NEW f, f = Delete(g, N)
        PROVE  Numeric(f)
    <2>1. Numeric(g)
      BY <1>1, LinkNumeric DEF Put
    <2> QED  BY <1>1, <2>1, DeleteNumeric
  <1>2. ASSUME NEW item, Says(item), NEW root \in {CreateObject, CreateArray}
        PROVE  Numeric([Opened(w, root) EXCEPT ![First(Rest(w))] = item])
    <2>1. PICK h : h = Opened(w, root)
      OBVIOUS
    <2>2. PICK n : n = First(Rest(w))
      OBVIOUS
    <2> QED  BY <1>2, <2>1, <2>2, OpenedNumeric, CellNumeric
  <1>3. ASSUME NEW root \in {CreateObject, CreateArray}, AddNothing(w, root) PROVE Numeric(heap')
    BY <1>3, OpenedNumeric, DeleteNumeric DEF AddNothing, Leaves
  <1>4. ASSUME NEW k, NEW item, Says(item), AddScalar(w, k, item) PROVE Numeric(heap')
    <2>1. PICK h : h = [Opened(w, CreateObject) EXCEPT ![First(Rest(w))] = item]
      OBVIOUS
    <2>2. PICK g : g = AddItemToObject(h, At(w), k, First(Rest(w)))
      OBVIOUS
    <2>3. heap' = Delete(g, Owned({}))
      BY <1>4, <2>1, <2>2 DEF AddScalar, Leaves
    <2> QED  BY <1>1, <1>2, <1>4, <2>1, <2>2, <2>3
  <1>5. ASSUME NEW item, NEW first, Says(item), PutScalar(w, item, first) PROVE Numeric(heap')
    <2>1. PICK h : h = [Opened(w, CreateArray) EXCEPT ![First(Rest(w))] = item]
      OBVIOUS
    <2>2. PICK g : g = Put(h, At(w), First(Rest(w)), first)
      OBVIOUS
    <2>3. heap' = Delete(g, Owned({}))
      BY <1>5, <2>1, <2>2 DEF PutScalar, Leaves
    <2> QED  BY <1>1, <1>2, <1>5, <2>1, <2>2, <2>3
  <1>6. ASSUME NEW k, NEW x, AddCopy(w, k, x) PROVE Numeric(heap')
    <2>1. CASE Focus(x) = NULL
      BY <1>3, <1>6, <2>1 DEF AddCopy
    <2>2. CASE Focus(x) # NULL
      <3>1. PICK h : h = Copy(Opened(w, CreateObject), Focus(x), Rest(w))
        OBVIOUS
      <3>2. PICK n : n = CopyCell(heap, Focus(x), Rest(w))[Focus(x)]
        OBVIOUS
      <3>3. PICK g : g = AddItemToObject(h, At(w), k, n)
        OBVIOUS
      <3>4. heap' = Delete(g, Owned(Cached(w, {k}))) /\ Room(w, TreeSize(x))
        BY <1>6, <2>2, <3>1, <3>2, <3>3 DEF AddCopy, Leaves
      <3>5. Numeric(h)
        BY <3>1, <3>4, OpenedCopyNumeric
      <3> QED  BY <1>1, <3>3, <3>4, <3>5
    <2> QED  BY <2>1, <2>2
  <1>7. ASSUME NEW x, NEW first, PutCopy(w, x, first) PROVE Numeric(heap')
    <2>1. CASE Focus(x) = NULL
      BY <1>3, <1>7, <2>1 DEF PutCopy
    <2>2. CASE Focus(x) # NULL
      <3>1. PICK h : h = Copy(Opened(w, CreateArray), Focus(x), Rest(w))
        OBVIOUS
      <3>2. PICK n : n = CopyCell(heap, Focus(x), Rest(w))[Focus(x)]
        OBVIOUS
      <3>3. PICK g : g = Put(h, At(w), n, first)
        OBVIOUS
      <3>4. heap' = Delete(g, Owned(Shifted(w, first))) /\ Room(w, TreeSize(x))
        BY <1>7, <2>2, <3>1, <3>2, <3>3 DEF PutCopy, Leaves
      <3>5. Numeric(h)
        BY <3>1, <3>4, OpenedCopyNumeric
      <3> QED  BY <1>1, <3>3, <3>4, <3>5
    <2> QED  BY <2>1, <2>2
  <1>8. ASSUME NEW k, NEW v, AddMove(w, k, v) PROVE Numeric(heap')
    <2>1. CASE AddNothing(w, CreateObject)
      BY <1>3, <2>1
    <2>2. CASE ~AddNothing(w, CreateObject)
      <3>1. PICK g : g = AddItemToObject(Opened(w, CreateObject), At(w), k, obj[<<v>>].own)
        OBVIOUS
      <3>2. heap' = Delete(g, Owned(Cached(w, {k})))
        BY <1>8, <2>2, <3>1 DEF AddMove
      <3> QED  BY <1>1, <3>1, <3>2, OpenedNumeric
    <2> QED  BY <2>1, <2>2
  <1>9. ASSUME NEW v, NEW first, PutMove(w, v, first) PROVE Numeric(heap')
    <2>1. CASE AddNothing(w, CreateArray)
      BY <1>3, <2>1
    <2>2. CASE ~AddNothing(w, CreateArray)
      <3>1. PICK g : g = Put(Opened(w, CreateArray), At(w), obj[<<v>>].own, first)
        OBVIOUS
      <3>2. heap' = Delete(g, Owned(Shifted(w, first)))
        BY <1>9, <2>2, <3>1 DEF PutMove
      <3> QED  BY <1>1, <3>1, <3>2, OpenedNumeric
    <2> QED  BY <2>1, <2>2
  <1> QED  BY <1>3, <1>4, <1>5, <1>6, <1>7, <1>8, <1>9

\* Replace and Delete
LEMMA ReplacesNumeric ==
  ASSUME Numeric(heap), NEW w \in DOMAIN obj
  PROVE  /\ \A k : DeleteMember(w, k) => Numeric(heap')
         /\ \A i : DeleteElement(w, i) => Numeric(heap')
         /\ \A k, item : Says(item) /\ ReplaceScalar(w, k, item) => Numeric(heap')
         /\ \A i, item : Says(item) /\ ReplaceScalarAt(w, i, item) => Numeric(heap')
         /\ \A k, v : ReplaceMove(w, k, v) => Numeric(heap')
         /\ \A i, v : ReplaceMoveAt(w, i, v) => Numeric(heap')
  <1>1. ASSUME NEW item, Says(item), NEW n
        PROVE  Numeric([heap EXCEPT ![n] = item])
    BY <1>1, CellNumeric
  <1>2. ASSUME NEW k, DeleteMember(w, k) PROVE Numeric(heap')
    BY <1>2, UnlinkNumeric, DeleteNumeric DEF DeleteMember, Leaves
  <1>3. ASSUME NEW i, DeleteElement(w, i) PROVE Numeric(heap')
    BY <1>3, UnlinkNumeric, DeleteNumeric DEF DeleteElement, Leaves
  <1>4. ASSUME NEW k, NEW item, Says(item), ReplaceScalar(w, k, item) PROVE Numeric(heap')
    <2>1. PICK h : h = [heap EXCEPT ![First(Free)] = item]
      OBVIOUS
    <2>2. heap' = Delete(ReplaceItemInObject(h, Focus(w), k, First(Free)), Owned(Cached(w, {k})))
      BY <1>4, <2>1 DEF ReplaceScalar, Stays, Leaves
    <2> QED  BY <1>1, <1>4, <2>1, <2>2, ReplaceNumeric, DeleteNumeric
  <1>5. ASSUME NEW i, NEW item, Says(item), ReplaceScalarAt(w, i, item) PROVE Numeric(heap')
    <2>1. PICK h : h = [heap EXCEPT ![First(Free)] = item]
      OBVIOUS
    <2>2. heap' = Delete(ReplaceItem(h, Focus(w), LookupAt(w, i), First(Free)), Owned(Cached(w, {i})))
      BY <1>5, <2>1 DEF ReplaceScalarAt, Stays, Leaves
    <2> QED  BY <1>1, <1>5, <2>1, <2>2, UnlinkNumeric, DeleteNumeric
  <1>6. ASSUME NEW k, NEW v, ReplaceMove(w, k, v) PROVE Numeric(heap')
    BY <1>6, ReplaceNumeric, DeleteNumeric DEF ReplaceMove
  <1>7. ASSUME NEW i, NEW v, ReplaceMoveAt(w, i, v) PROVE Numeric(heap')
    BY <1>7, UnlinkNumeric, DeleteNumeric DEF ReplaceMoveAt
  <1> QED  BY <1>2, <1>3, <1>4, <1>5, <1>6, <1>7

\* Replace by a copy
LEMMA ReplaceCopiesNumeric ==
  ASSUME Numeric(heap), WrappersOK(obj), NEW X, Sound(heap, obj, moved, X), NEW w \in DOMAIN obj
  PROVE  /\ \A k, x : ReplaceCopy(w, k, x) => Numeric(heap')
         /\ \A i, x : ReplaceCopyAt(w, i, x) => Numeric(heap')
  <1>1. ASSUME NEW x, Focus(w) # NULL, Room(w, TreeSize(x))
        PROVE  Numeric(Copy(heap, Focus(x), Free))
    <2>1. Cardinality(Free) >= Cardinality(Trees(heap, {Focus(x)}))
      BY <1>1, RoomForCopy
    <2> QED  BY <2>1, FreeCells, CopyNumeric
  <1>2. \A type \in {"Array", "Object"} : Live(w) /\ Is(w, type) => Focus(w) # NULL
    BY ContainerIsItem
  <1>3. ASSUME NEW k, NEW x, ReplaceCopy(w, k, x) PROVE Numeric(heap')
    <2>1. PICK h : h = Copy(heap, Focus(x), Free)
      OBVIOUS
    <2>2. PICK n : n = CopyCell(heap, Focus(x), Free)[Focus(x)]
      OBVIOUS
    <2>3. /\ heap' = Delete(ReplaceItemInObject(h, Focus(w), k, n), Owned(DroppedWith(w, Lookup(w, k), k)))
          /\ Live(w) /\ Is(w, "Object") /\ Room(w, TreeSize(x))
      BY <1>3, <2>1, <2>2 DEF ReplaceCopy, Stays, Leaves
    <2> QED  BY <1>1, <1>2, <2>1, <2>3, ReplaceNumeric, DeleteNumeric
  <1>4. ASSUME NEW i, NEW x, ReplaceCopyAt(w, i, x) PROVE Numeric(heap')
    <2>1. PICK h : h = Copy(heap, Focus(x), Free)
      OBVIOUS
    <2>2. PICK n : n = CopyCell(heap, Focus(x), Free)[Focus(x)]
      OBVIOUS
    <2>3. /\ heap' = Delete(ReplaceItem(h, Focus(w), LookupAt(w, i), n), Owned(DroppedWith(w, LookupAt(w, i), i)))
          /\ Live(w) /\ Is(w, "Array") /\ Room(w, TreeSize(x))
      BY <1>4, <2>1, <2>2 DEF ReplaceCopyAt, Stays, Leaves
    <2> QED  BY <1>1, <1>2, <2>1, <2>3, UnlinkNumeric, DeleteNumeric
  <1> QED  BY <1>3, <1>4

\* Clear, Parse, the assignments and Get of an object
LEMMA WholeNumeric ==
  ASSUME NumbersFit, Numeric(heap), NEW w \in DOMAIN obj
  PROVE  /\ Clear(w) => Numeric(heap')
         /\ \A doc \in Documents : Parse(w, doc) => Numeric(heap')
         /\ \A n : ParseTextOf(w, n) => Numeric(heap')
         /\ \A v, u : MoveAssign(v, u) => Numeric(heap')
  <1>1. \A x : Numeric(Cleared(x))
    BY DeleteNumeric DEF Cleared
  <1>2. Clear(w) => Numeric(heap')
    BY <1>1 DEF Clear, Becomes
  <1>3. \A v, u : MoveAssign(v, u) => Numeric(heap')
    BY <1>1 DEF MoveAssign
  <1>4. ASSUME NEW doc \in Documents, Parse(w, doc) PROVE Numeric(heap')
    <2>1. PICK root : root = First(Free)
      OBVIOUS
    <2>2. PICK cell : cell = Allocate(DOMAIN doc, Free \ {root})
      OBVIOUS
    <2>3. Cardinality(Free) > Len(doc) /\ heap' = ParsedMemory(Cleared(w), doc, root, cell)
      BY <1>4, <2>1, <2>2 DEF Parse, Becomes, ParsedMemory
    <2>4. Len(doc) \in Nat
      <3>1. PICK M : M = [key : Keys, item : Item]
        OBVIOUS
      <3>2. doc \in Seq(M)
        BY <3>1, ValuesAssumption
      <3> QED  BY <3>2
    <2>5. root \in Free /\ Free \subseteq Cells /\ Len(doc) < Cardinality(Free)
      <3>1. Free \subseteq Cells /\ Cardinality(Free) >= 1
        BY <2>3, <2>4, FreeCells
      <3> QED  BY <2>1, <2>3, <2>4, <3>1, FirstFree, FreeCells
    <2> QED  BY <1>1, <2>2, <2>3, <2>5, ParsedNumeric
  <1>5. ASSUME NEW n, ParseTextOf(w, n) PROVE Numeric(heap')
    <2>1. CASE n = NULL
      BY <1>1, <1>5, <2>1 DEF ParseTextOf, Becomes
    <2>2. CASE n # NULL
      <3>1. PICK copy : copy = Copy(heap, n, Free)
        OBVIOUS
      <3>2. /\ Cardinality(Free) >= Cardinality(Trees(heap, {n}))
            /\ heap' = Delete(copy, Owned(Below(w) \cup {w}))
        BY <1>5, <2>2, <3>1 DEF ParseTextOf, Becomes
      <3> QED  BY <3>1, <3>2, FreeCells, CopyNumeric, DeleteNumeric
    <2> QED  BY <2>1, <2>2
  <1> QED  BY <1>2, <1>3, <1>4, <1>5

\* The overloads that take a scalar, and Delete, under a key
LEMMA ScalarMemberNumeric ==
  ASSUME NumbersFit, Numeric(heap), WrappersOK(obj), NEW X, Sound(heap, obj, moved, X),
         NEW w \in DOMAIN obj, NEW k \in Keys, ScalarMember(w, k)
  PROVE  Numeric(heap')
  <1>1. ASSUME NEW item, Says(item), AddScalar(w, k, item) \/ ReplaceScalar(w, k, item)
        PROVE  Numeric(heap')
    BY <1>1, AddsNumeric, ReplacesNumeric
  <1>2. CASE \E s \in Strings : AddString(w, k, s) \/ ReplaceString(w, k, s)
    BY <1>1, <1>2, OthersMade DEF AddString, ReplaceString
  <1>3. CASE \E n \in Integers32or64 : AddInteger(w, k, n) \/ ReplaceInteger(w, k, n)
    BY <1>1, <1>3, NumbersMade DEF AddInteger, ReplaceInteger
  <1>4. CASE \E d \in Reals : AddReal(w, k, d) \/ ReplaceReal(w, k, d)
    BY <1>1, <1>4, NumbersMade DEF AddReal, ReplaceReal
  <1>5. CASE \E b \in Booleans : AddBool(w, k, b) \/ ReplaceBool(w, k, b)
    BY <1>1, <1>5, OthersMade DEF AddBool, ReplaceBool
  <1>6. CASE AddNull(w, k) \/ ReplaceNull(w, k)
    BY <1>1, <1>6, OthersMade DEF AddNull, ReplaceNull
  <1>7. CASE AddEmptySubObject(w, k) \/ AddEmptySubArray(w, k)
    BY <1>1, <1>7, OthersMade DEF AddEmptySubObject, AddEmptySubArray
  <1>8. CASE DeleteMember(w, k)
    BY <1>8, ReplacesNumeric
  <1> QED  BY <1>2, <1>3, <1>4, <1>5, <1>6, <1>7, <1>8 DEF ScalarMember

\* Those that put a scalar into an array: AddAsFirst reads every integer as a
\* signed one.
LEMMA ScalarElementNumeric ==
  ASSUME NumbersFit, "first_unsigned" \notin Liberties, Numeric(heap), WrappersOK(obj),
         NEW X, Sound(heap, obj, moved, X), NEW w \in DOMAIN obj, ScalarElement(w)
  PROVE  Numeric(heap')
  <1>1. ASSUME NEW item, Says(item), Append1(w, item) \/ Prepend1(w, item)
        PROVE  Numeric(heap')
    <2>1. PutScalar(w, item, FALSE) \/ PutScalar(w, item, TRUE)
      BY <1>1 DEF Append1, Prepend1
    <2> QED  BY <1>1, <2>1, AddsNumeric
  <1>2. CASE \E s \in Strings : AppendString(w, s) \/ PrependString(w, s)
    BY <1>1, <1>2, OthersMade DEF AppendString, PrependString
  <1>3. CASE \E n \in Integers32or64 : AppendInteger(w, n) \/ PrependInteger(w, n)
    <2>1. PICK n \in Integers32or64 : AppendInteger(w, n) \/ PrependInteger(w, n)
      BY <1>3
    <2>2. CASE AppendInteger(w, n)
      BY <1>1, <2>2, NumbersMade DEF AppendInteger
    <2>3. CASE PrependInteger(w, n)
      <3>1. n.value = Cast("int64", n.value) /\ Prepend1(w, FirstIntegerItem(n))
        BY <2>3 DEF PrependInteger, Unless
      <3> QED  BY <1>1, <3>1, NumbersMade
    <2> QED  BY <2>1, <2>2, <2>3
  <1>4. CASE \E d \in Reals : AppendReal(w, d) \/ PrependReal(w, d)
    BY <1>1, <1>4, NumbersMade DEF AppendReal, PrependReal
  <1>5. CASE \E b \in Booleans : AppendBool(w, b) \/ PrependBool(w, b)
    BY <1>1, <1>5, OthersMade DEF AppendBool, PrependBool
  <1>6. CASE AppendNull(w) \/ PrependNull(w)
    BY <1>1, <1>6, OthersMade DEF AppendNull, PrependNull
  <1> QED  BY <1>2, <1>3, <1>4, <1>5, <1>6 DEF ScalarElement

\* Those that replace or delete an element
LEMMA ElementAtNumeric ==
  ASSUME NumbersFit, Numeric(heap), NEW w \in DOMAIN obj, NEW i \in Indices, ElementAt(w, i)
  PROVE  Numeric(heap')
  <1>1. ASSUME NEW item, Says(item), ReplaceScalarAt(w, i, item)
        PROVE  Numeric(heap')
    BY <1>1, ReplacesNumeric
  <1>2. CASE \E s \in Strings : ReplaceStringAt(w, i, s)
    BY <1>1, <1>2, OthersMade DEF ReplaceStringAt
  <1>3. CASE \E n \in Integers32or64 : ReplaceIntegerAt(w, i, n)
    BY <1>1, <1>3, NumbersMade DEF ReplaceIntegerAt
  <1>4. CASE \E d \in Reals : ReplaceRealAt(w, i, d)
    BY <1>1, <1>4, NumbersMade DEF ReplaceRealAt
  <1>5. CASE \E b \in Booleans : ReplaceBoolAt(w, i, b)
    BY <1>1, <1>5, OthersMade DEF ReplaceBoolAt
  <1>6. CASE ReplaceNullAt(w, i)
    BY <1>1, <1>6, OthersMade DEF ReplaceNullAt
  <1>7. CASE DeleteElement(w, i)
    BY <1>7, ReplacesNumeric
  <1> QED  BY <1>2, <1>3, <1>4, <1>5, <1>6, <1>7 DEF ElementAt

\* Those between two documents, and those that move the document of a variable
LEMMA CombineNumeric ==
  ASSUME NumbersFit, Numeric(heap), WrappersOK(obj), NEW X, Sound(heap, obj, moved, X),
         NEW w \in DOMAIN obj
  PROVE  /\ \A x \in DOMAIN obj : Combine(w, x) => Numeric(heap')
         /\ \A v \in Vars : Move(w, v) => Numeric(heap')
  <1>1. ASSUME NEW x \in DOMAIN obj, NEW n, ParseTextOf(x, n)
        PROVE  Numeric(heap')
    BY <1>1, WholeNumeric
  <1>2. ASSUME NEW x \in DOMAIN obj, Combine(w, x) PROVE Numeric(heap')
    <2>1. CASE Assign(x, w)
      BY <1>1, <2>1 DEF Assign
    <2>2. CASE \E k \in Keys : GetObject(w, k, x) \/ AddCopy(w, k, x) \/ ReplaceCopy(w, k, x)
      BY <1>1, <2>2, AddsNumeric, ReplaceCopiesNumeric DEF GetObject
    <2>3. CASE \E i \in Indices : GetObjectAt(w, i, x) \/ ReplaceCopyAt(w, i, x)
      BY <1>1, <2>3, ReplaceCopiesNumeric DEF GetObjectAt
    <2>4. CASE AppendCopy(w, x) \/ PrependCopy(w, x)
      BY <2>4, AddsNumeric DEF AppendCopy, PrependCopy
    <2> QED  BY <1>2, <2>1, <2>2, <2>3, <2>4 DEF Combine
  <1>3. ASSUME NEW v \in Vars, Move(w, v) PROVE Numeric(heap')
    <2>1. CASE MoveAssign(w[1], v)
      BY <2>1, WholeNumeric
    <2>2. CASE \E k \in Keys : AddMove(w, k, v) \/ ReplaceMove(w, k, v)
      BY <2>2, AddsNumeric, ReplacesNumeric
    <2>3. CASE AppendMove(w, v) \/ PrependMove(w, v)
      BY <2>3, AddsNumeric DEF AppendMove, PrependMove
    <2>4. CASE \E i \in Indices : ReplaceMoveAt(w, i, v)
      BY <2>4, ReplacesNumeric
    <2> QED  BY <1>3, <2>1, <2>2, <2>3, <2>4 DEF Move
  <1> QED  BY <1>2, <1>3

\* Every call leaves a memory whose numbers say what they were given.
LEMMA CallNumeric ==
  ASSUME NumbersFit, "first_unsigned" \notin Liberties, Numeric(heap), WrappersOK(obj),
         NEW X, Sound(heap, obj, moved, X), NEW w \in DOMAIN obj, Call(w)
  PROVE  Numeric(heap')
  <1>1. CASE \E k \in Keys : Member(w, k) \/ ScalarMember(w, k)
    BY <1>1, ScalarMemberNumeric DEF Member, Wrap
  <1>2. CASE \E i \in Indices : Element(w, i) \/ ElementAt(w, i)
    BY <1>2, ElementAtNumeric DEF Element, Wrap
  <1>3. CASE ScalarElement(w)
    BY <1>3, ScalarElementNumeric
  <1>4. CASE Clear(w)
    BY <1>4, WholeNumeric
  <1>5. CASE \E doc \in Documents : Parse(w, doc)
    BY <1>5, WholeNumeric
  <1>6. CASE GetKey(w) \/ ResetTraversing(w)
    BY <1>6 DEF GetKey, ResetTraversing, Cursor
  <1>7. CASE \E x \in DOMAIN obj : Combine(w, x)
    BY <1>7, CombineNumeric
  <1>8. CASE \E v \in Vars : Move(w, v)
    BY <1>8, CombineNumeric
  <1> QED  BY <1>1, <1>2, <1>3, <1>4, <1>5, <1>6, <1>7, <1>8 DEF Call

\* If the numbers callers give fit, and none gives AddAsFirst an unsigned number
\* that no signed one can hold: every number there is says what was given.
THEOREM NumbersKept ==
  ASSUME NumbersFit, "first_unsigned" \notin Liberties
  PROVE  Spec => []Numeric(heap)
  <1>1. Init => Inv /\ Numeric(heap)
    <2>1. Init => Numeric(heap)
      BY OthersMade DEF Init, Numeric
    <2> QED  BY <2>1, InitInv
  <1>2. Inv /\ Numeric(heap) /\ [Next]_vars => Inv' /\ Numeric(heap)'
    <2> SUFFICES ASSUME Inv, Numeric(heap), [Next]_vars PROVE Inv' /\ Numeric(heap')
      OBVIOUS
    <2>1. Inv'
      BY NextInv
    <2>2. CASE Next
      <3>1. PICK X : Sound(heap, obj, moved, X)
        BY DEF Inv
      <3>2. PICK w \in DOMAIN obj : Call(w)
        BY <2>2 DEF Next
      <3> QED  BY <2>1, <3>1, <3>2, CallNumeric DEF Inv
    <2>3. CASE UNCHANGED vars
      BY <2>1, <2>3 DEF vars
    <2> QED  BY <2>2, <2>3
  <1> QED  BY <1>1, <1>2, PTL DEF Spec

\* What ToString prints for a number denotes the number that was put in or parsed,
\* through every overload, every copy, every move and every reparse.
THEOREM PrintedAsGivenHolds ==
  ASSUME NumbersFit, "first_unsigned" \notin Liberties
  PROVE  Spec => []PrintedAsGiven
  <1>1. Numeric(heap) => PrintedAsGiven
    <2> SUFFICES ASSUME Numeric(heap), NEW c \in Numbers
                 PROVE  Denotes(PrintNumber(heap[c])) = heap[c].number
      BY DEF PrintedAsGiven
    <2>1. Says(heap[c]) /\ IsNumber(heap[c])
      BY DEF Numeric, Numbers
    <2>2. PICK item : item = heap[c]
      OBVIOUS
    <2> QED  BY <2>1, <2>2, PrintSays
  <1> QED  BY <1>1, NumbersKept, PTL

(***************************************************************************)
(* Reading                                                                 *)
(***************************************************************************)
\* An unsigned number that fits a type is read into it from the signed integer
\* it is kept in.
LEMMA UnsignedRead ==
  ASSUME NEW x \in Int64, NEW v, v = Cast("uint64", x), NEW T \in IntTypes, Cast(T, v) = v
  PROVE  Cast(T, x) = v
  <1>1. PICK m \in Nat : m = M64 \div 2 /\ M64 = 2 * m /\ m > 0
    BY WidthAssumption
  <1>2. x \in Int /\ x \in (-m)..(m - 1)
    BY <1>1 DEF Int64
  <1>3. v \in 0..(M64 - 1)
    BY <1>2, CastType
  <1>4. v = x % M64 /\ v % M64 = v
    BY <1>1, <1>3, Remainder DEF Cast, Unsigned
  <1>5. CASE T = "uint64"
    BY <1>5
  <1>6. CASE T = "int64"
    <2>1. Cast("int64", x) = Cast("int64", v)
      BY <1>4 DEF Cast, Signed
    <2> QED  BY <1>6, <2>1
  <1>7. CASE T \in {"int32", "uint32"}
    <2>1. M32 \in Nat /\ M32 > 0 /\ M32 <= m
      BY <1>1, WidthAssumption
    <2>2. v % M32 \in 0..(M32 - 1)
      BY <1>3, <2>1
    <2>3. v < M32
      <3>1. CASE T = "uint32"
        BY <1>3, <2>1, <2>2, <3>1 DEF Cast, Unsigned
      <3>2. CASE T = "int32"
        BY <1>3, <2>1, <2>2, <3>2 DEF Cast, Signed
      <3> QED  BY <1>7, <3>1, <3>2
    <2>4. v = x
      <3>1. x < 0 => x % M64 = x + M64
        BY <1>1, <1>2, Remainder
      <3>2. x >= 0 => x % M64 = x
        BY <1>1, <1>2, Remainder
      <3> QED  BY <1>1, <1>2, <1>3, <1>4, <2>1, <2>3, <3>1, <3>2
    <2> QED  BY <2>4
  <1> QED  BY <1>5, <1>6, <1>7 DEF IntTypes

\* What a number says is what Get reads from it.
LEMMA NumberRead ==
  ASSUME NEW n, n # NULL, Says(heap[n]), IsNumber(heap[n])
  PROVE  /\ \A T \in IntTypes : Fits(T, heap[n].number) => IntegerOf(n, T) = {heap[n].number \div 2}
         /\ heap[n].type = "Double" \/ heap[n].number \in 0..(M64 - 1) => RealOf(n) = {heap[n].number}
  <1>1. PICK item : item = heap[n]
    OBVIOUS
  <1>2. SaysNumber(item)
    BY <1>1 DEF Says
  <1>3. ASSUME NEW T \in IntTypes, Fits(T, item.number)
        PROVE  Cast(T, IF item.type = "Int" THEN item.valueint ELSE Truncated(item.valuedouble))
                 = item.number \div 2
    <2>1. PICK number \in Int : number = item.number
      BY <1>2 DEF SaysNumber
    <2>2. PICK v \in Int : v = number \div 2 /\ number = 2 * v /\ Cast(T, v) = v
      BY <1>3, <2>1 DEF Fits
    <2>3. CASE item.type = "Int" /\ item.sign = -1
      <3>1. number = 2 * item.valueint /\ item.valueint \in Int64
        BY <1>2, <2>1, <2>3 DEF SaysNumber
      <3>2. item.valueint \in Int
        BY <3>1, WidthAssumption DEF Int64
      <3>3. item.valueint = v
        BY <2>2, <3>1, <3>2
      <3> QED  BY <2>1, <2>2, <2>3, <3>3
    <2>4. CASE item.type = "Int" /\ item.sign # -1
      <3>1. PICK x \in Int64 : x = item.valueint /\ number = 2 * Cast("uint64", x)
        BY <1>2, <2>1, <2>4 DEF SaysNumber
      <3>2. x \in Int
        BY WidthAssumption DEF Int64
      <3>3. PICK u \in 0..(M64 - 1) : u = Cast("uint64", x)
        BY <3>2, CastType
      <3>4. v = u
        BY <2>2, <3>1, <3>3, WidthAssumption
      <3>5. Cast(T, x) = v
        BY <2>2, <3>3, <3>4, UnsignedRead
      <3> QED  BY <2>1, <2>2, <2>4, <3>1, <3>5
    <2>5. CASE item.type = "Double"
      <3>1. item.valuedouble = number
        BY <1>2, <2>1, <2>5 DEF SaysNumber
      <3>2. Truncated(number) = v
        BY <2>2 DEF Truncated
      <3> QED  BY <2>1, <2>2, <2>5, <3>1, <3>2
    <2> QED  BY <1>1, <2>3, <2>4, <2>5 DEF IsNumber
  <1>4. item.type = "Double" \/ item.number \in 0..(M64 - 1) => item.valuedouble = item.number
    BY <1>1, <1>2 DEF SaysNumber, IsNumber
  <1> QED  BY <1>1, <1>3, <1>4 DEF IntegerOf, RealOf, Result

\* What Get returns is the number that was put in or parsed, in every integer type
\* that holds it and in a double, but for the doubles of negative integers and of
\* large unsigned ones: whatever copies, moves and reparses are in between.
THEOREM ReadsBackHolds ==
  ASSUME NumbersFit, "first_unsigned" \notin Liberties
  PROVE  Spec => []ReadsBack
  <1>1. Inv /\ Numeric(heap) => ReadsBack
    <2> SUFFICES ASSUME Inv, Numeric(heap), NEW w \in DOMAIN obj, Live(w)
                 PROVE  /\ \A k \in Keys :
                             Returns(Lookup(w, k), LAMBDA T : GetInteger(w, k, T), GetReal(w, k))
                        /\ \A i \in Indices :
                             Returns(LookupAt(w, i), LAMBDA T : GetIntegerAt(w, i, T), GetRealAt(w, i))
      BY DEF ReadsBack
    <2>1. PICK X : Sound(heap, obj, moved, X)
      BY DEF Inv
    <2>2. ASSUME NEW n, n = NULL \/ n \in Cells
          PROVE  Returns(n, LAMBDA T : IntegerOf(n, T), RealOf(n))
      <3> SUFFICES ASSUME n # NULL, IsNumber(heap[n])
                   PROVE  \A T \in IntTypes :
                            /\ Fits(T, heap[n].number) => IntegerOf(n, T) = {heap[n].number \div 2}
                            /\ heap[n].type = "Double" \/ heap[n].number \in 0..(M64 - 1)
                                 => RealOf(n) = {heap[n].number}
        BY DEF Returns
      <3>1. Says(heap[n])
        BY <2>2 DEF Numeric
      <3> QED  BY <3>1, NumberRead
    <2>3. ASSUME NEW k \in Keys PROVE Lookup(w, k) = NULL \/ Lookup(w, k) \in Cells
      <3>1. CASE Is(w, "Object")
        BY <2>1, <3>1, LookupIsKid, ContainerIsItem, KidsAlive
      <3>2. CASE ~Is(w, "Object")
        BY <3>2 DEF Lookup
      <3> QED  BY <3>1, <3>2
    <2>4. ASSUME NEW i \in Indices PROVE LookupAt(w, i) = NULL \/ LookupAt(w, i) \in Cells
      <3>1. CASE Is(w, "Array")
        BY <2>1, <3>1, LookupAtIsKid, ContainerIsItem, KidsAlive
      <3>2. CASE ~Is(w, "Array")
        BY <3>2 DEF LookupAt
      <3> QED  BY <3>1, <3>2
    <2> QED  BY <2>2, <2>3, <2>4 DEF GetInteger, GetReal, GetIntegerAt, GetRealAt, Returns
  <1> QED  BY <1>1, MemoryIsSound, NumbersKept, PTL
=============================================================================
