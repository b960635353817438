----------------------------- MODULE CJsonCalls -----------------------------
(***************************************************************************)
(* The calls of neb::CJsonObject that change a document (Add, AddAsFirst,  *)
(* Replace, Delete and their overloads), and the specification. A value    *)
(* goes in as a scalar (a new item), as a copy (the text of another        *)
(* document, parsed) or by move (the other document itself).               *)
(***************************************************************************)
EXTENDS CJsonObject

\* The wrapper w after a call that drops the wrappers `gone`
Rewrapped(gone, w, own, trav) ==
  [Without(gone) EXCEPT ![w].own = own, ![w].trav = trav]

\* The call ends with the memory h; the dropped wrappers free what they own.
Leaves(h, gone, w, own, trav) ==
  /\ heap' = Delete(h, Owned(gone))
  /\ obj' = Rewrapped(gone, w, own, trav)

(***************************************************************************)
(* The items of the scalar overloads                                       *)
(***************************************************************************)
\* CreateInt(v, -1) of the signed types, CreateInt(v, 1) of the unsigned ones
IntegerItem(n) ==
  [CreateInt(n.value, IF n.type \in {"int32", "int64"} THEN -1 ELSE 1) EXCEPT !.number = 2 * n.value]

\* AddAsFirst passes -1 for every type.
FirstIntegerItem(n) == [CreateInt(n.value, -1) EXCEPT !.number = 2 * n.value]

RealItem(d) == [CreateDouble(d, -1) EXCEPT !.number = d]

(***************************************************************************)
(* Add(key, ...)                                                           *)
(***************************************************************************)
CanAdd(w, k) ==
  Live(w) /\ (Focus(w) = NULL \/ (Is(w, "Object") /\ Lookup(w, k) = NULL))

\* The wrapper kept under k, if there is one, stays.
AddScalar(w, k, item) ==
  /\ CanAdd(w, k) /\ Room(w, 1)
  /\ Unless("late_member", Cached(w, {k}) = {})
  /\ LET n == First(Rest(w))
         h == [Opened(w, CreateObject) EXCEPT ![n] = item]
     IN Leaves(AddItemToObject(h, At(w), k, n), {}, w, Own(w), At(w))
  /\ UNCHANGED moved

AddString(w, k, s) == AddScalar(w, k, CreateString(s))
AddInteger(w, k, n) == AddScalar(w, k, IntegerItem(n))
AddBool(w, k, b) == AddScalar(w, k, CreateBool(b))
AddReal(w, k, d) == AddScalar(w, k, RealItem(d))
AddNull(w, k) == AddScalar(w, k, CreateNull)
AddEmptySubObject(w, k) == AddScalar(w, k, CreateObject)
AddEmptySubArray(w, k) == AddScalar(w, k, CreateArray)

\* Add of an empty document: w is opened, then the call fails.
AddNothing(w, root) ==
  /\ Live(w) /\ Focus(w) = NULL /\ Room(w, 0)
  /\ Leaves(Opened(w, root), {}, w, At(w),
            IF root = CreateObject THEN At(w) ELSE obj[w].trav)

\* Add(key, const CJsonObject&).  (Left out, here and in PutCopy: an empty
\* document added to itself, which is opened before its text is taken.)
AddCopy(w, k, x) ==
  /\ CanAdd(w, k) /\ Live(x)
  /\ \/ Focus(x) = NULL /\ x # w /\ AddNothing(w, CreateObject)
     \/ /\ Focus(x) # NULL /\ Room(w, TreeSize(x))
        /\ LET h == Copy(Opened(w, CreateObject), Focus(x), Rest(w))
               n == CopyCell(heap, Focus(x), Rest(w))[Focus(x)]
           IN Leaves(AddItemToObject(h, At(w), k, n), Cached(w, {k}), w, Own(w), At(w))
  /\ UNCHANGED moved

\* The document of the variable v leaves it; the rest of v stays as it is.
MovedOut(v, own) == [own EXCEPT ![<<v>>].own = NULL]

\* The moved variable keeps its pointer as well.
AddMoveShared(w, k, v) ==
  /\ CanAdd(w, k) /\ Live(<<v>>) /\ v # w[1] /\ obj[<<v>>].own # NULL /\ Room(w, 0)
  /\ Leaves(AddItemToObject(Opened(w, CreateObject), At(w), k, obj[<<v>>].own),
            Cached(w, {k}), w, Own(w), At(w))
  /\ UNCHANGED moved

\* Add(key, CJsonObject&&) and AddWithMove: as with a copy, a variable that
\* holds nothing is refused after w was opened.
AddMove(w, k, v) ==
  /\ CanAdd(w, k) /\ Live(<<v>>) /\ v # w[1]
  /\ \/ obj[<<v>>].own = NULL /\ AddNothing(w, CreateObject) /\ UNCHANGED moved
     \/ /\ obj[<<v>>].own # NULL /\ Room(w, 0)
        /\ LET gone == Cached(w, {k})
               h == AddItemToObject(Opened(w, CreateObject), At(w), k, obj[<<v>>].own)
           IN /\ heap' = Delete(h, Owned(gone))
              /\ obj' = MovedOut(v, Rewrapped(gone, w, Own(w), At(w)))
        /\ moved' = moved \cup {v}

(***************************************************************************)
(* Add(...) and AddAsFirst(...) of an array. The cursor stays.             *)
(***************************************************************************)
\* Whatever w is about
CanPutAnywhere(w) == Live(w)

CanPut(w) == Live(w) /\ (Focus(w) = NULL \/ Is(w, "Array"))

Put(h, a, n, first) == IF first THEN AddItemToArrayHead(h, a, n) ELSE AddItemToArray(h, a, n)

\* The wrappers of elements all stay.
PutScalar(w, item, first) ==
  /\ CanPut(w) /\ Room(w, 1)
  /\ LET n == First(Rest(w))
         h == [Opened(w, CreateArray) EXCEPT ![n] = item]
     IN Leaves(Put(h, At(w), n, first), {}, w, Own(w), obj[w].trav)
  /\ UNCHANGED moved

\* An array wrapper kept for the index the new element gets was looked up in vain.
Append1(w, item) ==
  /\ CanPut(w)
  /\ Unless("late_member", Is(w, "Array") => Cached(w, From(Len(heap[Focus(w)].child))) = {})
  /\ Unless("late_member", Focus(w) = NULL => Cached(w, Indices) = {})
  /\ PutScalar(w, item, FALSE)

AppendString(w, s) == Append1(w, CreateString(s))
AppendInteger(w, n) == Append1(w, IntegerItem(n))
AppendBool(w, b) == Append1(w, CreateBool(b))
AppendReal(w, d) == Append1(w, RealItem(d))
AppendNull(w) == Append1(w, CreateNull)

Prepend1(w, item) ==
  Unless("first_scalar", Cached(w, Indices) = {}) /\ PutScalar(w, item, TRUE)

PrependString(w, s) == Prepend1(w, CreateString(s))
PrependInteger(w, n) ==
  /\ Unless("first_unsigned", n.value = Cast("int64", n.value))
  /\ Prepend1(w, FirstIntegerItem(n))
PrependBool(w, b) == Prepend1(w, CreateBool(b))
PrependReal(w, d) == Prepend1(w, RealItem(d))
PrependNull(w) == Prepend1(w, CreateNull)

\* The wrappers that a copy or a move drops: of the new last index and above,
\* or all of them.
Shifted(w, first) ==
  IF first THEN Cached(w, Indices)
  ELSE Cached(w, From(IF Focus(w) = NULL THEN 0 ELSE Len(heap[Focus(w)].child)))

PutCopy(w, x, first) ==
  /\ CanPut(w) /\ Live(x)
  /\ \/ Focus(x) = NULL /\ x # w /\ AddNothing(w, CreateArray)
     \/ /\ Focus(x) # NULL /\ Room(w, TreeSize(x))
        /\ LET h == Copy(Opened(w, CreateArray), Focus(x), Rest(w))
               n == CopyCell(heap, Focus(x), Rest(w))[Focus(x)]
           IN Leaves(Put(h, At(w), n, first), Shifted(w, first), w, Own(w), obj[w].trav)
  /\ UNCHANGED moved

PutMove(w, v, first) ==
  /\ CanPut(w) /\ Live(<<v>>) /\ v # w[1]
  /\ \/ obj[<<v>>].own = NULL /\ AddNothing(w, CreateArray) /\ UNCHANGED moved
     \/ /\ obj[<<v>>].own # NULL /\ Room(w, 0)
        /\ LET gone == Shifted(w, first)
               h == Put(Opened(w, CreateArray), At(w), obj[<<v>>].own, first)
           IN /\ heap' = Delete(h, Owned(gone))
              /\ obj' = MovedOut(v, Rewrapped(gone, w, Own(w), obj[w].trav))
        /\ moved' = moved \cup {v}

AppendCopy(w, x) == PutCopy(w, x, FALSE)
AppendMove(w, v) == PutMove(w, v, FALSE)
PrependCopy(w, x) == PutCopy(w, x, TRUE)
PrependMove(w, v) == PutMove(w, v, TRUE)

(***************************************************************************)
(* Delete                                                                  *)
(***************************************************************************)
\* The cursor stays where it was.
DeleteMemberAhead(w, k) ==
  /\ Live(w) /\ Is(w, "Object")
  /\ Leaves(DeleteItem(heap, Focus(w), Lookup(w, k)), Cached(w, {k}), w, obj[w].own, obj[w].trav)
  /\ UNCHANGED moved

\* Delete(key)
DeleteMember(w, k) ==
  /\ Live(w) /\ Is(w, "Object")
  /\ Leaves(DeleteItem(heap, Focus(w), Lookup(w, k)), Cached(w, {k}), w, obj[w].own, Focus(w))
  /\ UNCHANGED moved

\* The wrappers above the index are dropped, the one at it stays.
DeleteElementAbove(w, i) ==
  /\ Live(w) /\ Is(w, "Array")
  /\ Leaves(DeleteItem(heap, Focus(w), LookupAt(w, i)), Cached(w, From(i + 1)), w,
            obj[w].own, obj[w].trav)
  /\ UNCHANGED moved

\* Delete(index): the elements behind move up.
DeleteElement(w, i) ==
  /\ Live(w) /\ Is(w, "Array")
  /\ Leaves(DeleteItem(heap, Focus(w), LookupAt(w, i)), Cached(w, From(i)), w,
            obj[w].own, obj[w].trav)
  /\ UNCHANGED moved

(***************************************************************************)
(* Replace(key, ...): where there is no such member the new item is made   *)
(* all the same, and nobody has it. The cursor stays.                      *)
(***************************************************************************)
CanReplace(w, item) ==
  /\ Unless("replace_missing", item # NULL)
  /\ Unless("replace_ahead", item = NULL \/ obj[w].trav # item)

Stays(h, gone, w) == Leaves(h, gone, w, obj[w].own, obj[w].trav)

ReplaceScalar(w, k, item) ==
  /\ Live(w) /\ Is(w, "Object") /\ Room(w, 1) /\ CanReplace(w, Lookup(w, k))
  /\ LET n == First(Free)
     IN Stays(ReplaceItemInObject([heap EXCEPT ![n] = item], Focus(w), k, n), Cached(w, {k}), w)
  /\ UNCHANGED moved

ReplaceString(w, k, s) == ReplaceScalar(w, k, CreateString(s))
ReplaceInteger(w, k, n) == ReplaceScalar(w, k, IntegerItem(n))
ReplaceBool(w, k, b) == ReplaceScalar(w, k, CreateBool(b))
ReplaceReal(w, k, d) == ReplaceScalar(w, k, RealItem(d))
ReplaceNull(w, k) == ReplaceScalar(w, k, CreateNull)

\* The wrapper is dropped only after a member was found.
DroppedWith(w, item, s) == IF item = NULL THEN {} ELSE Cached(w, {s})

\* Replace(key, const CJsonObject&)
ReplaceCopy(w, k, x) ==
  /\ Live(w) /\ Is(w, "Object") /\ CanReplace(w, Lookup(w, k))
  /\ Live(x) /\ Focus(x) # NULL /\ Room(w, TreeSize(x))
  /\ LET n == CopyCell(heap, Focus(x), Free)[Focus(x)]
     IN Stays(ReplaceItemInObject(Copy(heap, Focus(x), Free), Focus(w), k, n),
              DroppedWith(w, Lookup(w, k), k), w)
  /\ UNCHANGED moved

\* Replace(key, CJsonObject&&)
ReplaceMove(w, k, v) ==
  /\ Live(w) /\ Is(w, "Object") /\ CanReplace(w, Lookup(w, k))
  /\ Live(<<v>>) /\ v # w[1] /\ obj[<<v>>].own # NULL
  /\ LET gone == DroppedWith(w, Lookup(w, k), k)
     IN /\ heap' = Delete(ReplaceItemInObject(heap, Focus(w), k, obj[<<v>>].own), Owned(gone))
        /\ obj' = MovedOut(v, Without(gone))
  /\ moved' = moved \cup {v}

(***************************************************************************)
(* Replace(index, ...)                                                     *)
(***************************************************************************)
ReplaceScalarAt(w, i, item) ==
  /\ Live(w) /\ Is(w, "Array") /\ Room(w, 1) /\ CanReplace(w, LookupAt(w, i))
  /\ LET n == First(Free)
     IN Stays(ReplaceItem([heap EXCEPT ![n] = item], Focus(w), LookupAt(w, i), n),
              Cached(w, {i}), w)
  /\ UNCHANGED moved

ReplaceStringAt(w, i, s) == ReplaceScalarAt(w, i, CreateString(s))
ReplaceIntegerAt(w, i, n) == ReplaceScalarAt(w, i, IntegerItem(n))
ReplaceBoolAt(w, i, b) == ReplaceScalarAt(w, i, CreateBool(b))
ReplaceRealAt(w, i, d) == ReplaceScalarAt(w, i, RealItem(d))
ReplaceNullAt(w, i) == ReplaceScalarAt(w, i, CreateNull)

\* Replace(index, const CJsonObject&)
ReplaceCopyAt(w, i, x) ==
  /\ Live(w) /\ Is(w, "Array") /\ CanReplace(w, LookupAt(w, i))
  /\ Live(x) /\ Focus(x) # NULL /\ Room(w, TreeSize(x))
  /\ LET n == CopyCell(heap, Focus(x), Free)[Focus(x)]
     IN Stays(ReplaceItem(Copy(heap, Focus(x), Free), Focus(w), LookupAt(w, i), n),
              DroppedWith(w, LookupAt(w, i), i), w)
  /\ UNCHANGED moved

\* Replace(index, CJsonObject&&)
ReplaceMoveAt(w, i, v) ==
  /\ Live(w) /\ Is(w, "Array") /\ CanReplace(w, LookupAt(w, i))
  /\ Live(<<v>>) /\ v # w[1] /\ obj[<<v>>].own # NULL
  /\ LET gone == DroppedWith(w, LookupAt(w, i), i)
     IN /\ heap' = Delete(ReplaceItem(heap, Focus(w), LookupAt(w, i), obj[<<v>>].own), Owned(gone))
        /\ obj' = MovedOut(v, Without(gone))
  /\ moved' = moved \cup {v}

(***************************************************************************)
(* The specification                                                       *)
(***************************************************************************)
\* The overloads that take a scalar, under a key and in an array
ScalarMember(w, k) ==
  \/ \E s \in Strings : AddString(w, k, s) \/ ReplaceString(w, k, s)
  \/ \E n \in Integers32or64 : AddInteger(w, k, n) \/ ReplaceInteger(w, k, n)
  \/ \E d \in Reals : AddReal(w, k, d) \/ ReplaceReal(w, k, d)
  \/ \E b \in Booleans : AddBool(w, k, b) \/ ReplaceBool(w, k, b)
  \/ AddNull(w, k) \/ ReplaceNull(w, k)
  \/ AddEmptySubObject(w, k) \/ AddEmptySubArray(w, k)
  \/ DeleteMember(w, k)

ScalarElement(w) ==
  \/ \E s \in Strings : AppendString(w, s) \/ PrependString(w, s)
  \/ \E n \in Integers32or64 : AppendInteger(w, n) \/ PrependInteger(w, n)
  \/ \E d \in Reals : AppendReal(w, d) \/ PrependReal(w, d)
  \/ \E b \in Booleans : AppendBool(w, b) \/ PrependBool(w, b)
  \/ AppendNull(w) \/ PrependNull(w)

ElementAt(w, i) ==
  \/ \E s \in Strings : ReplaceStringAt(w, i, s)
  \/ \E n \in Integers32or64 : ReplaceIntegerAt(w, i, n)
  \/ \E d \in Reals : ReplaceRealAt(w, i, d)
  \/ \E b \in Booleans : ReplaceBoolAt(w, i, b)
  \/ ReplaceNullAt(w, i)
  \/ DeleteElement(w, i)

\* The calls between two documents
Combine(w, x) ==
  \/ Assign(x, w)
  \/ \E k \in Keys : GetObject(w, k, x) \/ AddCopy(w, k, x) \/ ReplaceCopy(w, k, x)
  \/ \E i \in Indices : GetObjectAt(w, i, x) \/ ReplaceCopyAt(w, i, x)
  \/ AppendCopy(w, x) \/ PrependCopy(w, x)

Move(w, v) ==
  \/ w = <<w[1]>> /\ MoveAssign(w[1], v)
  \/ \E k \in Keys : AddMove(w, k, v) \/ ReplaceMove(w, k, v)
  \/ AppendMove(w, v) \/ PrependMove(w, v)
  \/ \E i \in Indices : ReplaceMoveAt(w, i, v)

Call(w) ==
  \/ \E k \in Keys : Member(w, k) \/ ScalarMember(w, k)
  \/ \E i \in Indices : Element(w, i) \/ ElementAt(w, i)
  \/ ScalarElement(w)
  \/ Clear(w)
  \/ \E doc \in Documents : Parse(w, doc)
  \/ GetKey(w) \/ ResetTraversing(w)
  \/ \E x \in DOMAIN obj : Combine(w, x)
  \/ \E v \in Vars : Move(w, v)

Next == \E w \in DOMAIN obj : Call(w)

Spec == Init /\ [][Next]_vars
=============================================================================
