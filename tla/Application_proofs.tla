-------------------------- MODULE Application_proofs ------------------------
(***************************************************************************)
(* Theorems about the builder and the forms it chooses, for every set of   *)
(* plugins, guards, macros and handlers, and any number of calls.          *)
(*                                                                         *)
(* What a step may do to the two heaps is little: the arrays of hooks grow *)
(* at their end, the hooks of a route at their front.  So what holds of an *)
(* application, its guards and its routes (Sound) goes on holding while    *)
(* others are worked on, and the stack only has to be followed at its top. *)
(***************************************************************************)
EXTENDS Application, SequenceTheorems, FiniteSetTheorems, WellFoundedInduction, TLAPS

\* The strings of the constants, and those the builder writes itself.
Names == STRING \cup HookKinds \cup {"own", "route", "group"}
Hooks == Seq(Names)
Paths == Seq(Names \cup Plugins)
Schemas == UNION {[keys -> STRING] : keys \in SUBSET GivenKeys}

Routes == [path : Paths, obj : Nat \ {0}, schema : Schemas, under : Seq(Guards), own : Hooks]
Apps == [as : {"app", "group", "guard"}, guard : Guards \cup {None}, given : Nat,
         around : Seq(Guards), prefix : Paths, routes : Seq(Routes), hooks : [HookKinds -> Nat],
         derives : Nat, decorated : BOOLEAN, macros : SUBSET Macros,
         applied : SUBSET {pluginKey(p) : p \in Plugins}]
ServedRoutes == [path : Paths, local : Hooks, schema : Schemas]
Snapshots == [hooks : [HookKinds -> Hooks], derives : Nat, decorated : BOOLEAN,
              limit : Limits \cup {DefaultLimit}, routes : Seq(ServedRoutes)]

StackTyped ==
    /\ stack \in Seq(Apps) /\ stack # <<>>
    /\ lists \in Seq(Hooks)
    /\ objs \in Seq(Hooks)
ServedTyped ==
    /\ compiled \in Snapshots \cup {None}
    /\ server \in Snapshots \cup {None}
    /\ registry \in Seq(Paths)
    /\ bodyLimit \in Limits \cup {DefaultLimit}
    /\ calls \in 0..MaxCalls
TypeOK == StackTyped /\ ServedTyped

HooksOf(guards) == [i \in DOMAIN guards |-> guardOf[guards[i]].hook]

\* Of the guards a route is under, the first are those around the application it
\* is in now; the others have returned, and the route has their hooks.
Kept(around, r, heap) ==
    \E closed \in Seq(Guards) :
        /\ r.under = around \o closed
        /\ Within(HooksOf(closed) \o r.own, heap[r.obj])

\* The array of hooks a guard was given begins with the guard's hook.
Given1(app, heap) ==
    /\ app.guard \in Guards
    /\ app.given \in 1..Len(heap)
    /\ heap[app.given] # <<>>
    /\ heap[app.given][1] = guardOf[app.guard].hook

HooksBelow(app, heap) == \A k \in HookKinds : app.hooks[k] \in 0..Len(heap)

RoutesKept(around, routes, heap) ==
    \A i \in DOMAIN routes : routes[i].obj \in 1..Len(heap) /\ Kept(around, routes[i], heap)

Sound(app, lists1, objs1) ==
    /\ HooksBelow(app, lists1)
    /\ app.as = "guard" => Given1(app, lists1)
    /\ RoutesKept(app.around, app.routes, objs1)

AllSound == \A d \in 1..Len(stack) : Sound(stack[d], lists, objs)

\* What an application is in the callback of, from what its parent is.
Inside(parent, child) ==
    child.around = IF child.as = "guard" THEN Append(parent.around, child.guard) ELSE parent.around
Nested ==
    /\ stack[1].as = "app" /\ stack[1].around = <<>>
    /\ \A d \in 1..Len(stack) - 1 : Inside(stack[d], stack[d + 1])

\* The hooks objects of the routes of a plugin instance begin as its own hooks.
SharedKept ==
    \A p \in DOMAIN shared :
        /\ p \in Plugins
        /\ shared[p] \in Nat \ {0}
        /\ \A i \in DOMAIN pluginOf[p].routes :
            /\ shared[p] + i - 1 \in 1..Len(objs)
            /\ Within(pluginOf[p].routes[i], objs[shared[p] + i - 1])

StackInv == StackTyped /\ AllSound /\ Nested
BuilderInv == StackInv /\ SharedKept /\ ServedTyped

-----------------------------------------------------------------------------
(* What fails for some natural number fails first for one. *)

LEMMA LeastNatural ==
    ASSUME NEW T, T \subseteq Nat, T # {}
    PROVE  \E m \in T : \A n \in T : m <= n
  <1> DEFINE R == {ss \in Nat \X Nat : ss[1] < ss[2]}
  <1>1. IsWellFoundedOn(R, Nat)
    BY NatLessThanWellFounded DEF OpToRel
  <1>2. PICK m \in T : \A n \in T : <<n, m>> \notin R
    <2> HIDE DEF R
    <2>1. QED
      BY <1>1, WFMin
  <1>3. \A n \in T : ~(n < m)
    BY <1>2
  <1>4. QED
    BY <1>3

-----------------------------------------------------------------------------
(* Having a sequence of hooks, by leaving some out. *)

LEMMA StringsAreNames ==
    \A hooks \in Seq(STRING) : hooks \in Hooks
  BY SeqMonotonic DEF Hooks, Names

LEMMA WithinItself ==
    ASSUME NEW s \in Hooks
    PROVE  Within(s, s)
  <1> DEFINE at == [i \in DOMAIN s |-> i]
  <1>1. /\ at \in [DOMAIN s -> DOMAIN s]
        /\ \A i \in DOMAIN s : s[at[i]] = s[i]
        /\ \A i, j \in DOMAIN s : i < j => at[i] < at[j]
    OBVIOUS
  <1>2. QED
    BY <1>1 DEF Within

LEMMA WithinWithin ==
    ASSUME NEW s \in Hooks, NEW t \in Hooks, NEW u \in Hooks, Within(s, t), Within(t, u)
    PROVE  Within(s, u)
  <1>1. PICK a \in [DOMAIN s -> DOMAIN t] :
            /\ \A i \in DOMAIN s : t[a[i]] = s[i]
            /\ \A i, j \in DOMAIN s : i < j => a[i] < a[j]
    BY DEF Within
  <1>2. PICK b \in [DOMAIN t -> DOMAIN u] :
            /\ \A i \in DOMAIN t : u[b[i]] = t[i]
            /\ \A i, j \in DOMAIN t : i < j => b[i] < b[j]
    BY DEF Within
  <1> DEFINE at == [i \in DOMAIN s |-> b[a[i]]]
  <1>3. at \in [DOMAIN s -> DOMAIN u] /\ \A i \in DOMAIN s : u[at[i]] = s[i]
    BY <1>1, <1>2
  <1>4. \A i, j \in DOMAIN s : i < j => at[i] < at[j]
    BY <1>1, <1>2
  <1> HIDE DEF at
  <1>5. QED
    BY <1>3, <1>4 DEF Within

\* Hooks put before those of t leave room for the same ones.
LEMMA WithinLater ==
    ASSUME NEW s \in Hooks, NEW t \in Hooks, NEW more \in Hooks, Within(s, t)
    PROVE  Within(s, more \o t)
  <1>1. PICK a \in [DOMAIN s -> DOMAIN t] :
            /\ \A i \in DOMAIN s : t[a[i]] = s[i]
            /\ \A i, j \in DOMAIN s : i < j => a[i] < a[j]
    BY DEF Within
  <1> DEFINE u == more \o t
             at == [i \in DOMAIN s |-> a[i] + Len(more)]
  <1>2. /\ Len(u) = Len(more) + Len(t) /\ DOMAIN u = 1..Len(u) /\ DOMAIN t = 1..Len(t)
        /\ \A i \in 1..Len(t) : u[i + Len(more)] = t[i]
        /\ Len(more) \in Nat /\ Len(t) \in Nat /\ DOMAIN s = 1..Len(s) /\ Len(s) \in Nat
    BY DEF Hooks
  <1> HIDE DEF u
  <1>3. \A i \in DOMAIN s : a[i] \in 1..Len(t)
    BY <1>1, <1>2
  <1>4. at \in [DOMAIN s -> DOMAIN u] /\ \A i \in DOMAIN s : u[at[i]] = s[i]
    BY <1>1, <1>2, <1>3
  <1>5. \A i, j \in DOMAIN s : i < j => at[i] < at[j]
    BY <1>1, <1>2, <1>3
  <1> HIDE DEF at
  <1>6. Within(s, u)
    BY <1>4, <1>5 DEF Within
  <1>7. QED
    BY <1>6 DEF u

LEMMA WithinEarlier ==
    ASSUME NEW s \in Hooks, NEW more \in Hooks
    PROVE  Within(s, s \o more)
  <1> DEFINE u == s \o more
             at == [i \in DOMAIN s |-> i]
  <1>1. /\ DOMAIN s = 1..Len(s) /\ Len(s) \in Nat
        /\ DOMAIN s \subseteq DOMAIN u /\ \A i \in DOMAIN s : u[i] = s[i]
    BY DEF Hooks
  <1> HIDE DEF u
  <1>2. /\ at \in [DOMAIN s -> DOMAIN u]
        /\ \A i \in DOMAIN s : u[at[i]] = s[i]
        /\ \A i, j \in DOMAIN s : i < j => at[i] < at[j]
    BY <1>1
  <1> HIDE DEF at
  <1>3. Within(s, u)
    BY <1>2 DEF Within
  <1>4. QED
    BY <1>3 DEF u

\* What begins with the hook of a guard has that hook before all the rest.
LEMMA WithinBehind ==
    ASSUME NEW s \in Hooks, NEW t \in Hooks, NEW first \in Hooks, first # <<>>, Within(s, t)
    PROVE  Within(<<first[1]>> \o s, first \o t)
  <1>1. PICK a \in [DOMAIN s -> DOMAIN t] :
            /\ \A i \in DOMAIN s : t[a[i]] = s[i]
            /\ \A i, j \in DOMAIN s : i < j => a[i] < a[j]
    BY DEF Within
  <1> DEFINE v == <<first[1]>> \o s
             u == first \o t
             at == [i \in DOMAIN v |-> IF i = 1 THEN 1 ELSE a[i - 1] + Len(first)]
  <1>2. /\ Len(first) \in Nat /\ Len(first) >= 1 /\ Len(t) \in Nat /\ Len(s) \in Nat
        /\ DOMAIN t = 1..Len(t) /\ DOMAIN s = 1..Len(s) /\ first[1] \in Names
    BY DEF Hooks
  <1>3. /\ DOMAIN v = 1..(Len(s) + 1) /\ v[1] = first[1]
        /\ \A i \in DOMAIN v : i # 1 => i - 1 \in DOMAIN s /\ v[i] = s[i - 1]
    BY <1>2 DEF Hooks
  <1>4. /\ DOMAIN u = 1..(Len(first) + Len(t)) /\ u[1] = first[1]
        /\ \A i \in 1..Len(t) : u[i + Len(first)] = t[i]
    BY <1>2 DEF Hooks
  <1> HIDE DEF u, v
  <1>5. \A i \in DOMAIN s : a[i] \in 1..Len(t)
    BY <1>1, <1>2
  <1>6. ASSUME NEW i \in DOMAIN v
        PROVE  at[i] \in DOMAIN u /\ u[at[i]] = v[i]
    <2>1. CASE i = 1
      BY <1>2, <1>3, <1>4, <2>1
    <2>2. CASE i # 1
      BY <1>1, <1>2, <1>3, <1>4, <1>5, <2>2
    <2>3. QED
      BY <2>1, <2>2
  <1>7. ASSUME NEW i \in DOMAIN v, NEW j \in DOMAIN v, i < j
        PROVE  at[i] < at[j]
    <2>1. j # 1 /\ j - 1 \in DOMAIN s /\ at[j] = a[j - 1] + Len(first) /\ a[j - 1] \in 1..Len(t)
      BY <1>3, <1>5, <1>7
    <2>2. CASE i = 1
      BY <1>2, <2>1, <2>2
    <2>3. CASE i # 1
      <3>1. i - 1 \in DOMAIN s /\ at[i] = a[i - 1] + Len(first) /\ i - 1 < j - 1 /\ a[i - 1] \in 1..Len(t)
        BY <1>3, <1>5, <1>7, <2>3
      <3>2. a[i - 1] < a[j - 1]
        BY <1>1, <2>1, <3>1
      <3> HIDE DEF at
      <3>3. QED
        BY <1>2, <2>1, <3>1, <3>2
    <2>4. QED
      BY <2>2, <2>3
  <1>8. at \in [DOMAIN v -> DOMAIN u]
    BY <1>6
  <1> HIDE DEF at
  <1>9. Within(v, u)
    BY <1>6, <1>7, <1>8 DEF Within
  <1>10. QED
    BY <1>9 DEF u, v

-----------------------------------------------------------------------------
(* Hooks objects grow at the front, arrays of hooks at the end. *)

Prefixed(before, after) == \E more \in Hooks : after = more \o before
ObjsGrow(before, after) ==
    /\ after \in Seq(Hooks) /\ Len(before) <= Len(after)
    /\ \A n \in 1..Len(before) : Prefixed(before[n], after[n])

Extended(before, after) == \E more \in Hooks : after = before \o more
ListsGrow(before, after) ==
    /\ after \in Seq(Hooks) /\ Len(before) <= Len(after)
    /\ \A n \in 1..Len(before) : Extended(before[n], after[n])

LEMMA PrefixedItself ==
    ASSUME NEW hooks \in Hooks
    PROVE  Prefixed(hooks, hooks)
  <1>1. <<>> \in Hooks /\ hooks = <<>> \o hooks
    BY DEF Hooks
  <1>2. QED
    BY <1>1 DEF Prefixed

LEMMA ExtendedItself ==
    ASSUME NEW hooks \in Hooks
    PROVE  Extended(hooks, hooks)
  <1>1. <<>> \in Hooks /\ hooks = hooks \o <<>>
    BY ConcatEmptySeq DEF Hooks
  <1>2. QED
    BY <1>1 DEF Extended

LEMMA ObjsStay ==
    ASSUME NEW heap \in Seq(Hooks)
    PROVE  ObjsGrow(heap, heap)
  <1>1. /\ \A n \in 1..Len(heap) : heap[n] \in Hooks
        /\ Len(heap) \in Nat
    BY DEF Hooks
  <1>2. QED
    BY <1>1, PrefixedItself DEF ObjsGrow

LEMMA ListsStay ==
    ASSUME NEW heap \in Seq(Hooks)
    PROVE  ListsGrow(heap, heap)
  <1>1. /\ \A n \in 1..Len(heap) : heap[n] \in Hooks
        /\ Len(heap) \in Nat
    BY DEF Hooks
  <1>2. QED
    BY <1>1, ExtendedItself DEF ListsGrow

\* New hooks objects, behind those there are.
LEMMA ObjsAdded ==
    ASSUME NEW heap \in Seq(Hooks), NEW new \in Seq(Hooks)
    PROVE  ObjsGrow(heap, heap \o new)
  <1>1. /\ heap \o new \in Seq(Hooks) /\ Len(heap) <= Len(heap \o new)
        /\ \A n \in 1..Len(heap) : heap[n] \in Hooks /\ (heap \o new)[n] = heap[n]
    BY ConcatProperties, LenProperties, ElementOfSeq
  <1>2. QED
    BY <1>1, PrefixedItself DEF ObjsGrow

LEMMA ListsAdded ==
    ASSUME NEW heap \in Seq(Hooks), NEW hooks \in Hooks
    PROVE  ListsGrow(heap, Append(heap, hooks))
  <1>1. /\ Append(heap, hooks) \in Seq(Hooks) /\ Len(heap) <= Len(Append(heap, hooks))
        /\ \A n \in 1..Len(heap) : heap[n] \in Hooks /\ Append(heap, hooks)[n] = heap[n]
    BY AppendProperties, LenProperties, ElementOfSeq
  <1>2. QED
    BY <1>1, ExtendedItself DEF ListsGrow

LEMMA ListsExtended ==
    ASSUME NEW heap \in Seq(Hooks), NEW hooks \in Hooks, NEW n \in 1..Len(heap)
    PROVE  ListsGrow(heap, [heap EXCEPT ![n] = @ \o hooks])
  <1> DEFINE new == [heap EXCEPT ![n] = @ \o hooks]
  <1>1. \A m \in 1..Len(heap) : heap[m] \in Hooks
    BY ElementOfSeq
  <1>2. heap[n] \o hooks \in Hooks
    BY <1>1, ConcatProperties DEF Hooks
  <1>3. /\ new \in Seq(Hooks) /\ Len(new) = Len(heap) /\ Len(heap) \in Nat
        /\ \A m \in 1..Len(heap) : new[m] = IF m = n THEN heap[n] \o hooks ELSE heap[m]
    BY <1>2, ExceptSeq, LenProperties
  <1> HIDE DEF new
  <1>4. Extended(heap[n], heap[n] \o hooks)
    BY DEF Extended
  <1>5. ListsGrow(heap, new)
    BY <1>1, <1>3, <1>4, ExtendedItself DEF ListsGrow
  <1>6. QED
    BY <1>5 DEF new

LEMMA ListsGrowOn ==
    ASSUME NEW a \in Seq(Hooks), NEW b, NEW c, ListsGrow(a, b), ListsGrow(b, c)
    PROVE  ListsGrow(a, c)
  <1>1. Len(a) \in Nat /\ Len(b) \in Nat /\ Len(c) \in Nat /\ Len(a) <= Len(c) /\ c \in Seq(Hooks)
    BY LenProperties DEF ListsGrow
  <1>2. ASSUME NEW n \in 1..Len(a)
        PROVE  Extended(a[n], c[n])
    <2>1. n \in 1..Len(b)
      BY <1>1 DEF ListsGrow
    <2>2. PICK m1 \in Hooks : b[n] = a[n] \o m1
      BY DEF ListsGrow, Extended
    <2>3. PICK m2 \in Hooks : c[n] = b[n] \o m2
      BY <2>1 DEF ListsGrow, Extended
    <2>4. a[n] \in Hooks
      BY ElementOfSeq
    <2>5. (a[n] \o m1) \o m2 = a[n] \o (m1 \o m2) /\ m1 \o m2 \in Hooks
      <3> DEFINE h == a[n]
      <3>1. h \in Hooks
        BY <2>4
      <3> HIDE DEF h
      <3>2. (h \o m1) \o m2 = h \o (m1 \o m2) /\ m1 \o m2 \in Hooks
        BY <3>1, ConcatAssociative, ConcatProperties DEF Hooks
      <3>3. QED
        BY <3>2 DEF h
    <2>6. QED
      BY <2>2, <2>3, <2>5 DEF Extended
  <1>3. QED
    BY <1>1, <1>2 DEF ListsGrow

-----------------------------------------------------------------------------
(* The end of a guard: its hooks go before those of every route of it. *)

\* The hooks have been put before some that begin, or began, as `before`.
Wrapped(hooks, before, after) ==
    \E inner \in Hooks, outer \in Hooks : after = outer \o (hooks \o (inner \o before))

LEMMA PrefixedMore ==
    ASSUME NEW hooks \in Hooks, NEW before \in Hooks, NEW after, Prefixed(before, after)
    PROVE  Prefixed(before, hooks \o after)
  <1>1. PICK more \in Hooks : after = more \o before
    BY DEF Prefixed
  <1>2. hooks \o after = (hooks \o more) \o before /\ hooks \o more \in Hooks
    BY <1>1, ConcatAssociative, ConcatProperties DEF Hooks
  <1>3. QED
    BY <1>2 DEF Prefixed

LEMMA WrappedMore ==
    ASSUME NEW hooks \in Hooks, NEW before \in Hooks, NEW after, Wrapped(hooks, before, after)
    PROVE  Wrapped(hooks, before, hooks \o after)
  <1>1. PICK inner \in Hooks, outer \in Hooks : after = outer \o (hooks \o (inner \o before))
    BY DEF Wrapped
  <1>2. hooks \o (inner \o before) \in Hooks
    BY ConcatProperties DEF Hooks
  <1> DEFINE rest == hooks \o (inner \o before)
  <1> HIDE DEF rest
  <1>3. after = outer \o rest /\ rest \in Hooks
    BY <1>1, <1>2 DEF rest
  <1>4. hooks \o after = (hooks \o outer) \o rest /\ hooks \o outer \in Hooks
    BY <1>3, ConcatAssociative, ConcatProperties DEF Hooks
  <1>5. QED
    BY <1>4 DEF Wrapped, rest

LEMMA WrappedNow ==
    ASSUME NEW hooks \in Hooks, NEW before \in Hooks, NEW after, Prefixed(before, after)
    PROVE  Wrapped(hooks, before, hooks \o after)
  <1>1. PICK inner \in Hooks : after = inner \o before
    BY DEF Prefixed
  <1>2. hooks \o (inner \o before) \in Hooks /\ <<>> \in Hooks
    BY ConcatProperties DEF Hooks
  <1>3. hooks \o after = <<>> \o (hooks \o (inner \o before))
    BY <1>1, <1>2 DEF Hooks
  <1>4. QED
    BY <1>2, <1>3 DEF Wrapped

IsGuarding(f, heap, hooks, routes, n) ==
    f = [i \in 0..n |-> IF i = 0 THEN heap ELSE [f[i - 1] EXCEPT ![routes[i].obj] = hooks \o @]]

LEMMA GuardingExists ==
    ASSUME NEW heap, NEW hooks, NEW routes, NEW N \in Nat
    PROVE  \E f : IsGuarding(f, heap, hooks, routes, N)
  <1> DEFINE Missing == {n \in Nat : ~\E f : IsGuarding(f, heap, hooks, routes, n)}
             Next1(h, i) == [h EXCEPT ![routes[i].obj] = hooks \o @]
  <1>1. SUFFICES ASSUME Missing # {} PROVE FALSE
    OBVIOUS
  <1>2. PICK n \in Missing : \A k \in Missing : n <= k
    <2> HIDE DEF Missing
    <2>1. QED
      BY <1>1, LeastNatural, Missing \subseteq Nat DEF Missing
  <1>3. CASE n = 0
    <2> DEFINE f == [k \in 0..0 |-> heap]
    <2>1. IsGuarding(f, heap, hooks, routes, 0)
      BY DEF IsGuarding
    <2>2. QED
      BY <1>2, <1>3, <2>1
  <1>4. CASE n # 0
    <2>1. n - 1 \in Nat /\ n - 1 \notin Missing
      BY <1>2, <1>4
    <2>2. PICK g : IsGuarding(g, heap, hooks, routes, n - 1)
      BY <2>1
    <2> DEFINE f == [k \in 0..n |-> IF k = n THEN Next1(g[n - 1], n) ELSE g[k]]
    <2>3. ASSUME NEW k \in 0..n
          PROVE  f[k] = IF k = 0 THEN heap ELSE Next1(f[k - 1], k)
      <3> HIDE DEF Next1
      <3>1. CASE k = n
        <4>1. k - 1 \in 0..n /\ k - 1 # n /\ k # 0
          BY <1>2, <1>4, <3>1
        <4>2. f[k - 1] = g[k - 1]
          BY <4>1
        <4>3. QED
          BY <3>1, <4>1, <4>2
      <3>2. CASE k # n
        <4>1. k \in 0..(n - 1) /\ f[k] = g[k]
          BY <1>2, <3>2
        <4>2. g[k] = IF k = 0 THEN heap ELSE Next1(g[k - 1], k)
          BY <2>2, <4>1 DEF IsGuarding, Next1
        <4>3. k # 0 => f[k - 1] = g[k - 1]
          BY <1>2, <4>1
        <4>4. QED
          BY <4>1, <4>2, <4>3
      <3>3. QED
        BY <3>1, <3>2
    <2>4. IsGuarding(f, heap, hooks, routes, n)
      <3> DEFINE u == [k \in 0..n |-> IF k = 0 THEN heap ELSE Next1(f[k - 1], k)]
      <3>1. f = [k \in 0..n |-> f[k]]
        OBVIOUS
      <3> HIDE DEF f, Next1
      <3>2. f = u
        BY <2>3, <3>1
      <3>3. QED
        BY <3>2 DEF IsGuarding, Next1
    <2>5. QED
      BY <1>2, <2>4
  <1>5. QED
    BY <1>3, <1>4

LEMMA GuardingUnfolds ==
    ASSUME NEW heap, NEW hooks, NEW routes, Len(routes) \in Nat
    PROVE  \E f : /\ IsGuarding(f, heap, hooks, routes, Len(routes))
                  /\ Guarded(heap, hooks, routes) = f[Len(routes)]
  <1> DEFINE f == CHOOSE g : IsGuarding(g, heap, hooks, routes, Len(routes))
  <1>1. IsGuarding(f, heap, hooks, routes, Len(routes))
    BY GuardingExists
  <1>2. Guarded(heap, hooks, routes) = f[Len(routes)]
    BY DEF Guarded, IsGuarding
  <1>3. QED
    BY <1>1, <1>2

\* What the heap is when the hooks have been put before those of n routes.
GuardedSoFar(heap, hooks, routes, n, new) ==
    /\ new \in Seq(Hooks) /\ Len(new) = Len(heap)
    /\ \A o \in 1..Len(heap) : Prefixed(heap[o], new[o])
    /\ \A i \in 1..n : Wrapped(hooks, heap[routes[i].obj], new[routes[i].obj])

LEMMA GuardedOneMore ==
    ASSUME NEW heap \in Seq(Hooks), NEW hooks \in Hooks, NEW routes, NEW n \in Nat \ {0}, NEW old,
           \A i \in 1..n : routes[i].obj \in 1..Len(heap),
           GuardedSoFar(heap, hooks, routes, n - 1, old)
    PROVE  GuardedSoFar(heap, hooks, routes, n, [old EXCEPT ![routes[n].obj] = hooks \o @])
  <1> DEFINE obj == routes[n].obj
             new == [old EXCEPT ![obj] = hooks \o @]
  <1>1. obj \in 1..Len(old) /\ old \in Seq(Hooks) /\ Len(old) = Len(heap) /\ old[obj] \in Hooks
        /\ \A o \in 1..Len(heap) : heap[o] \in Hooks
    BY ElementOfSeq DEF GuardedSoFar
  <1>2. hooks \o old[obj] \in Hooks
    BY <1>1, ConcatProperties DEF Hooks
  <1>3. /\ new \in Seq(Hooks) /\ Len(new) = Len(heap)
        /\ \A o \in 1..Len(heap) : new[o] = IF o = obj THEN hooks \o old[obj] ELSE old[o]
    <2> HIDE DEF obj
    <2>1. QED
      BY <1>1, <1>2, ExceptSeq
  <1> HIDE DEF new
  <1>4. ASSUME NEW o \in 1..Len(heap) PROVE Prefixed(heap[o], new[o])
    BY <1>1, <1>3, PrefixedMore DEF GuardedSoFar
  <1>5. ASSUME NEW i \in 1..n PROVE Wrapped(hooks, heap[routes[i].obj], new[routes[i].obj])
    <2>1. routes[i].obj \in 1..Len(heap) /\ heap[routes[i].obj] \in Hooks
      BY <1>1
    <2>2. CASE i = n
      <3>1. Prefixed(heap[obj], old[obj])
        BY <1>1 DEF GuardedSoFar
      <3>2. Wrapped(hooks, heap[obj], hooks \o old[obj])
        BY <1>1, <3>1, WrappedNow
      <3>3. QED
        BY <1>1, <1>3, <2>2, <3>2
    <2>3. CASE i # n
      <3>1. i \in 1..(n - 1)
        BY <2>3
      <3>2. Wrapped(hooks, heap[routes[i].obj], old[routes[i].obj])
        BY <3>1 DEF GuardedSoFar
      <3>3. Wrapped(hooks, heap[routes[i].obj], hooks \o old[routes[i].obj])
        BY <2>1, <3>2, WrappedMore
      <3>4. QED
        BY <1>3, <2>1, <3>2, <3>3
    <2>4. QED
      BY <2>2, <2>3
  <1>6. GuardedSoFar(heap, hooks, routes, n, new)
    BY <1>3, <1>4, <1>5 DEF GuardedSoFar
  <1>7. QED
    BY <1>6 DEF new

LEMMA GuardedWraps ==
    ASSUME NEW heap \in Seq(Hooks), NEW hooks \in Hooks, NEW routes, Len(routes) \in Nat,
           \A i \in 1..Len(routes) : routes[i].obj \in 1..Len(heap)
    PROVE  GuardedSoFar(heap, hooks, routes, Len(routes), Guarded(heap, hooks, routes))
  <1> DEFINE N == Len(routes)
  <1>1. PICK f : IsGuarding(f, heap, hooks, routes, N) /\ Guarded(heap, hooks, routes) = f[N]
    BY GuardingUnfolds
  <1> DEFINE Wrong == {n \in 0..N : ~GuardedSoFar(heap, hooks, routes, n, f[n])}
  <1>2. ASSUME Wrong # {} PROVE FALSE
    <2>1. PICK n \in Wrong : \A k \in Wrong : n <= k
      <3> HIDE DEF Wrong
      <3>1. QED
        BY <1>2, LeastNatural, Wrong \subseteq Nat DEF Wrong
    <2>2. f[n] = IF n = 0 THEN heap ELSE [f[n - 1] EXCEPT ![routes[n].obj] = hooks \o @]
      BY <1>1, <2>1 DEF IsGuarding
    <2>3. CASE n = 0
      <3>1. \A o \in 1..Len(heap) : heap[o] \in Hooks /\ Prefixed(heap[o], heap[o])
        BY ElementOfSeq, PrefixedItself
      <3>2. GuardedSoFar(heap, hooks, routes, 0, heap)
        BY <3>1 DEF GuardedSoFar
      <3>3. QED
        BY <2>1, <2>2, <2>3, <3>2
    <2>4. CASE n # 0
      <3>1. n \in Nat \ {0} /\ n - 1 \in 0..N /\ n - 1 \notin Wrong /\ n \in 1..N
        BY <2>1, <2>4
      <3>2. GuardedSoFar(heap, hooks, routes, n - 1, f[n - 1])
        BY <3>1
      <3>3. \A i \in 1..n : routes[i].obj \in 1..Len(heap)
        BY <3>1
      <3>4. GuardedSoFar(heap, hooks, routes, n, f[n])
        <4> HIDE DEF Wrong
        <4>1. QED
          <5>1. GuardedSoFar(heap, hooks, routes, n, [f[n - 1] EXCEPT ![routes[n].obj] = hooks \o @])
            BY <3>1, <3>2, <3>3, GuardedOneMore
          <5>2. QED
            BY <2>2, <2>4, <5>1
      <3>5. QED
        BY <2>1, <3>4
    <2>5. QED
      BY <2>3, <2>4
  <1>3. N \in 0..N /\ N \notin Wrong
    BY <1>2
  <1>4. QED
    BY <1>1, <1>3

-----------------------------------------------------------------------------
(* The hooks and the schema that macros give a route. *)

IsFlattening(f, seqs, n) ==
    f = [i \in 1..n |-> IF i = 1 THEN seqs[i] ELSE f[i - 1] \o seqs[i]]

LEMMA FlatteningExists ==
    ASSUME NEW seqs, NEW N \in Nat
    PROVE  \E f : IsFlattening(f, seqs, N)
  <1> DEFINE Missing == {n \in Nat : ~\E f : IsFlattening(f, seqs, n)}
  <1>1. SUFFICES ASSUME Missing # {} PROVE FALSE
    OBVIOUS
  <1>2. PICK n \in Missing : \A k \in Missing : n <= k
    <2> HIDE DEF Missing
    <2>1. QED
      BY <1>1, LeastNatural, Missing \subseteq Nat DEF Missing
  <1>3. CASE n = 0
    <2> DEFINE f == [k \in 1..0 |-> seqs[k]]
    <2>1. IsFlattening(f, seqs, 0)
      <3>1. 1..0 = {}
        OBVIOUS
      <3>2. QED
        BY <3>1 DEF IsFlattening
    <2>2. QED
      BY <1>2, <1>3, <2>1
  <1>4. CASE n # 0
    <2>1. n - 1 \in Nat /\ n - 1 \notin Missing
      BY <1>2, <1>4
    <2>2. PICK g : IsFlattening(g, seqs, n - 1)
      BY <2>1
    <2> DEFINE f == [k \in 1..n |->
                        IF k # n THEN g[k] ELSE IF n = 1 THEN seqs[n] ELSE g[n - 1] \o seqs[n]]
    <2>3. ASSUME NEW k \in 1..n
          PROVE  f[k] = IF k = 1 THEN seqs[k] ELSE f[k - 1] \o seqs[k]
      <3>1. k # 1 => k - 1 \in 1..n /\ k - 1 # n
        BY <1>2
      <3>2. k # 1 => f[k - 1] = g[k - 1]
        BY <3>1
      <3>3. CASE k = n
        BY <3>2, <3>3
      <3>4. CASE k # n
        <4>1. k \in 1..(n - 1) /\ f[k] = g[k]
          BY <1>2, <3>4
        <4>2. g[k] = IF k = 1 THEN seqs[k] ELSE g[k - 1] \o seqs[k]
          BY <2>2, <4>1 DEF IsFlattening
        <4>3. QED
          BY <3>2, <4>1, <4>2
      <3>5. QED
        BY <3>3, <3>4
    <2>4. IsFlattening(f, seqs, n)
      <3> DEFINE u == [k \in 1..n |-> IF k = 1 THEN seqs[k] ELSE f[k - 1] \o seqs[k]]
      <3>1. f = [k \in 1..n |-> f[k]]
        OBVIOUS
      <3> HIDE DEF f
      <3>2. f = u
        BY <2>3, <3>1
      <3>3. QED
        BY <3>2 DEF IsFlattening
    <2>5. QED
      BY <1>2, <2>4
  <1>5. QED
    BY <1>3, <1>4

LEMMA FlattenedHooks ==
    ASSUME NEW seqs \in Seq(Hooks)
    PROVE  FlattenSeq(seqs) \in Hooks
  <1>1. CASE Len(seqs) = 0
    <2>1. seqs = <<>>
      BY <1>1, EmptySeq
    <2>2. QED
      BY <1>1, <2>1 DEF FlattenSeq, Hooks
  <1>2. CASE Len(seqs) # 0
    <2> DEFINE N == Len(seqs)
               f == CHOOSE g : IsFlattening(g, seqs, N)
               Wrong == {n \in 1..N : f[n] \notin Hooks}
    <2>1. N \in Nat /\ N >= 1 /\ \A i \in 1..N : seqs[i] \in Hooks
      BY <1>2, LenProperties, ElementOfSeq
    <2>2. IsFlattening(f, seqs, N)
      BY <2>1, FlatteningExists
    <2>3. FlattenSeq(seqs) = f[N]
      BY <1>2 DEF FlattenSeq, IsFlattening
    <2> HIDE DEF f
    <2>4. ASSUME Wrong # {} PROVE FALSE
      <3>1. PICK n \in Wrong : \A k \in Wrong : n <= k
        <4> HIDE DEF Wrong
        <4>1. QED
          BY <2>4, LeastNatural, Wrong \subseteq Nat DEF Wrong
      <3>2. f[n] = IF n = 1 THEN seqs[n] ELSE f[n - 1] \o seqs[n]
        BY <2>2, <3>1 DEF IsFlattening
      <3>3. n # 1 => f[n - 1] \in Hooks
        BY <3>1
      <3>4. seqs[n] \in Hooks
        BY <2>1, <3>1
      <3>5. f[n] \in Hooks
        <4> HIDE DEF Wrong
        <4>1. CASE n = 1
          BY <3>2, <3>4, <4>1
        <4>2. CASE n # 1
          BY <3>2, <3>3, <3>4, <4>2, ConcatProperties DEF Hooks
        <4>3. QED
          BY <4>1, <4>2
      <3>6. QED
        BY <3>1, <3>5
    <2>5. QED
      BY <2>1, <2>3, <2>4
  <1>3. QED
    BY <1>1, <1>2

LEMMA ListedMacros ==
    ASSUME NEW app, NEW flags \in SUBSET Macros
    PROVE  MacrosFor(app, flags) \in Seq(Macros)
  <1> DEFINE S == flags \cap app.macros
  <1>1. IsFiniteSet(S)
    BY MacrosAssumption, FS_Subset
  <1>2. Cardinality(S) \in Nat /\ ExistsBijection(1..Cardinality(S), S)
    BY <1>1, FS_CardinalityType
  <1>3. \E f \in [1..Cardinality(S) -> S] : IsInjective(f)
    BY <1>2 DEF ExistsBijection, Bijection, Injection
  <1>4. MacrosFor(app, flags) \in [1..Cardinality(S) -> S]
    BY <1>3 DEF MacrosFor, SetToSeq
  <1> DEFINE n == Cardinality(S)
             macros == MacrosFor(app, flags)
  <1>5. n \in Nat /\ macros \in [1..n -> Macros]
    BY <1>2, <1>4
  <1> HIDE DEF n, macros
  <1>6. macros \in Seq(Macros)
    BY <1>5
  <1>7. QED
    BY <1>6 DEF macros

LEMMA HooksOfMacros ==
    ASSUME NEW app, NEW flags \in SUBSET Macros
    PROVE  MacroHooks(app, flags) \in Hooks
  <1> DEFINE macros == MacrosFor(app, flags)
             hooks == [i \in DOMAIN macros |-> macroOf[macros[i]].hooks]
  <1>1. macros \in Seq(Macros)
    BY ListedMacros
  <1>2. Len(macros) \in Nat /\ DOMAIN macros = 1..Len(macros) /\ \A i \in DOMAIN macros : macros[i] \in Macros
    BY <1>1, LenProperties, ElementOfSeq
  <1> HIDE DEF macros
  <1>3. hooks \in [1..Len(macros) -> Hooks]
    BY <1>2, MacrosAssumption, StringsAreNames
  <1>4. hooks \in Seq(Hooks)
    BY <1>2, <1>3
  <1>5. FlattenSeq(hooks) \in Hooks
    BY <1>4, FlattenedHooks
  <1>6. QED
    BY <1>5 DEF MacroHooks, macros

LEMMA GreatestIsMember ==
    ASSUME NEW N \in Nat, NEW T \in SUBSET (1..N), T # {}
    PROVE  Max(T) \in T
  <1> DEFINE Short == {N - i : i \in T}
  <1>1. Short \subseteq Nat /\ Short # {}
    <2>1. \A i \in T : i \in 1..N
      OBVIOUS
    <2>2. \A i \in T : N - i \in Nat
      BY <2>1
    <2>3. QED
      BY <2>2
  <1>2. PICK m \in Short : \A n \in Short : m <= n
    <2> HIDE DEF Short
    <2>1. QED
      BY <1>1, LeastNatural
  <1>3. PICK i \in T : m = N - i
    BY <1>2
  <1>4. \A j \in T : N - j \in Short
    OBVIOUS
  <1>5. ASSUME NEW j \in T PROVE i >= j
    <2>1. m <= N - j
      BY <1>2, <1>4
    <2>2. i \in 1..N /\ j \in 1..N
      OBVIOUS
    <2>3. QED
      BY <1>3, <2>1, <2>2
  <1>6. QED
    BY <1>5 DEF Max

LEMMA SchemaOfMacros ==
    ASSUME NEW app, NEW flags \in SUBSET Macros
    PROVE  MacroSchema(app, flags) \in Schemas
  <1> DEFINE macros == MacrosFor(app, flags)
             with(key) == {i \in DOMAIN macros : key \in DOMAIN macroOf[macros[i]].schema}
             keys == {k \in GivenKeys : with(k) # {}}
             from(key) == macroOf[macros[Max(with(key))]].schema[key]
  <1>1. macros \in Seq(Macros)
    BY ListedMacros
  <1>2. Len(macros) \in Nat /\ DOMAIN macros = 1..Len(macros) /\ \A i \in DOMAIN macros : macros[i] \in Macros
    BY <1>1, LenProperties, ElementOfSeq
  <1>3. MacroSchema(app, flags) = [key \in keys |-> from(key)]
    BY DEF MacroSchema
  <1> HIDE DEF macros
  <1>4. ASSUME NEW key \in keys PROVE from(key) \in STRING
    <2> DEFINE i == Max(with(key))
    <2>1. with(key) \subseteq 1..Len(macros) /\ with(key) # {}
      BY <1>2
    <2>2. i \in with(key)
      <3> HIDE DEF with
      <3>1. QED
        BY <1>2, <2>1, GreatestIsMember
    <2> HIDE DEF i
    <2>3. macros[i] \in Macros /\ key \in DOMAIN macroOf[macros[i]].schema
      BY <1>2, <2>2
    <2>4. macroOf[macros[i]].schema[key] \in STRING
      BY <2>3, MacrosAssumption DEF IsSchema
    <2>5. QED
      BY <2>4 DEF i
  <1>5. keys \in SUBSET GivenKeys
    OBVIOUS
  <1> HIDE DEF keys, from
  <1>6. [key \in keys |-> from(key)] \in [keys -> STRING]
    BY <1>4
  <1>7. QED
    BY <1>3, <1>5, <1>6 DEF Schemas

LEMMA SchemaOfGuards ==
    ASSUME NEW schema \in Schemas, NEW g \in Guards
    PROVE  Merged(schema, guardOf[g].schema) \in Schemas
  <1> DEFINE other == guardOf[g].schema
             both == DOMAIN schema \cup DOMAIN other
  <1>1. DOMAIN schema \in SUBSET GivenKeys /\ schema \in [DOMAIN schema -> STRING]
    BY DEF Schemas
  <1>2. DOMAIN other \subseteq GivenKeys
    BY DEF GivenKeys
  <1>3. other \in [DOMAIN other -> STRING]
    BY GuardsAssumption DEF IsSchema
  <1> HIDE DEF other
  <1>4. Merged(schema, other) = [x \in both |-> IF x \in DOMAIN schema THEN schema[x] ELSE other[x]]
    BY DEF Merged
  <1>5. \A x \in both : (IF x \in DOMAIN schema THEN schema[x] ELSE other[x]) \in STRING
    BY <1>1, <1>3
  <1>6. Merged(schema, other) \in [both -> STRING] /\ both \in SUBSET GivenKeys
    <2> HIDE DEF both
    <2>1. Merged(schema, other) \in [both -> STRING]
      BY <1>4, <1>5, Zenon
    <2>2. QED
      BY <1>1, <1>2, <2>1 DEF both
  <1>7. QED
    BY <1>6 DEF Schemas, other

-----------------------------------------------------------------------------
(* Hooks pushed on the arrays of an application. *)

\* Only the hooks of the application have changed, and by additions only.
HooksAdded(app, heap, new) ==
    /\ \E hooks \in [HookKinds -> Nat] : new.app = [app EXCEPT !.hooks = hooks]
    /\ HooksBelow(new.app, new.heap)
    /\ ListsGrow(heap, new.heap)
KindsExtended(app, heap, new) ==
    \A k \in HookKinds : Extended(HooksIn(app, heap)[k], HooksIn(new.app, new.heap)[k])

LEMMA HooksTyped ==
    ASSUME NEW app \in Apps, NEW heap \in Seq(Hooks), HooksBelow(app, heap)
    PROVE  HooksIn(app, heap) \in [HookKinds -> Hooks]
  <1>1. \A n \in 1..Len(heap) : heap[n] \in Hooks
    BY ElementOfSeq
  <1>2. <<>> \in Hooks
    BY DEF Hooks
  <1>3. ASSUME NEW k \in HookKinds
        PROVE  (IF app.hooks[k] = 0 THEN <<>> ELSE heap[app.hooks[k]]) \in Hooks
    <2>1. CASE app.hooks[k] = 0
      BY <1>2, <2>1
    <2>2. CASE app.hooks[k] # 0
      <3>1. app.hooks[k] \in 1..Len(heap)
        BY <2>2, LenProperties DEF HooksBelow
      <3>2. QED
        BY <1>1, <2>2, <3>1
    <2>3. QED
      BY <2>1, <2>2
  <1>4. QED
    BY <1>3 DEF HooksIn

LEMMA PushedHooks ==
    ASSUME NEW app \in Apps, NEW heap \in Seq(Hooks), HooksBelow(app, heap),
           NEW kind \in HookKinds, NEW hooks \in Hooks
    PROVE  /\ HooksAdded(app, heap, Pushed(app, heap, kind, hooks))
           /\ KindsExtended(app, heap, Pushed(app, heap, kind, hooks))
  <1> DEFINE new == Pushed(app, heap, kind, hooks)
             n == app.hooks[kind]
  <1>1. app.hooks \in [HookKinds -> Nat] /\ Len(heap) \in Nat
    BY LenProperties DEF Apps
  <1>2. \A k \in HookKinds : HooksIn(app, heap)[k] \in Hooks
    BY HooksTyped
  <1>3. CASE hooks = <<>>
    <2>1. new = [app |-> app, heap |-> heap]
      BY <1>3 DEF Pushed
    <2>2. app = [app EXCEPT !.hooks = app.hooks]
      BY DEF Apps
    <2>3. \A k \in HookKinds : Extended(HooksIn(app, heap)[k], HooksIn(app, heap)[k])
      BY <1>2, ExtendedItself
    <2>4. QED
      BY <1>1, <2>1, <2>2, <2>3, ListsStay DEF HooksAdded, KindsExtended
  <1>4. CASE hooks # <<>> /\ n = 0
    <2> DEFINE heap2 == Append(heap, hooks)
               hooks2 == [app.hooks EXCEPT ![kind] = Len(heap) + 1]
               app2 == [app EXCEPT !.hooks = hooks2]
    <2>1. new = [app |-> app2, heap |-> heap2]
      BY <1>4 DEF Pushed
    <2>2. hooks2 \in [HookKinds -> Nat] /\ app2.hooks = hooks2
      BY <1>1 DEF Apps
    <2>3. /\ Len(heap2) = Len(heap) + 1 /\ ListsGrow(heap, heap2)
          /\ \A m \in 1..Len(heap) : heap2[m] = heap[m]
          /\ heap2[Len(heap) + 1] = hooks
      BY ListsAdded, AppendProperties
    <2>4. HooksBelow(app2, heap2)
      <3> HIDE DEF heap2
      <3>1. QED
        BY <1>1, <2>2, <2>3 DEF HooksBelow
    <2> HIDE DEF heap2
    <2>5. ASSUME NEW k \in HookKinds
          PROVE  Extended(HooksIn(app, heap)[k], HooksIn(app2, heap2)[k])
      <3>1. CASE k = kind
        <4>1. HooksIn(app, heap)[k] = <<>> /\ HooksIn(app2, heap2)[k] = heap2[Len(heap) + 1]
          <5> HIDE DEF app2
          <5>1. app2.hooks[k] = Len(heap) + 1
            BY <1>1, <2>2, <3>1
          <5>2. QED
            BY <1>1, <1>4, <3>1, <5>1 DEF HooksIn
        <4>2. HooksIn(app2, heap2)[k] = <<>> \o hooks
          <5>1. <<>> \o hooks = hooks
            BY ConcatEmptySeq DEF Hooks
          <5>2. HooksIn(app2, heap2)[k] = hooks
            BY <2>3, <4>1
          <5>3. QED
            BY <5>1, <5>2
        <4>3. QED
          BY <4>1, <4>2 DEF Extended
      <3>2. CASE k # kind
        <4>1. app2.hooks[k] = app.hooks[k]
          BY <1>1, <2>2, <3>2
        <4>2. app.hooks[k] # 0 => heap2[app.hooks[k]] = heap[app.hooks[k]]
          BY <1>1, <2>3 DEF HooksBelow
        <4>3. HooksIn(app2, heap2)[k] = HooksIn(app, heap)[k]
          <5> HIDE DEF app2
          <5>1. QED
            BY <4>1, <4>2 DEF HooksIn
        <4>4. QED
          BY <1>2, <4>3, ExtendedItself
      <3>3. QED
        BY <3>1, <3>2
    <2>6. app2 = [app EXCEPT !.hooks = hooks2] /\ new.app = app2 /\ new.heap = heap2
      BY <2>1
    <2> HIDE DEF hooks2, app2, new
    <2>7. HooksAdded(app, heap, new)
      BY <2>2, <2>3, <2>4, <2>6 DEF HooksAdded
    <2>8. KindsExtended(app, heap, new)
      BY <2>5, <2>6 DEF KindsExtended
    <2>9. QED
      BY <2>7, <2>8 DEF new
  <1>5. CASE hooks # <<>> /\ n # 0
    <2> DEFINE heap2 == [heap EXCEPT ![n] = @ \o hooks]
    <2>1. new = [app |-> app, heap |-> heap2]
      BY <1>5 DEF Pushed
    <2>2. app = [app EXCEPT !.hooks = app.hooks]
      BY DEF Apps
    <2>3. n \in 1..Len(heap)
      BY <1>1, <1>5 DEF HooksBelow
    <2>4. ListsGrow(heap, heap2)
      BY <2>3, ListsExtended
    <2>5. Len(heap2) \in Nat /\ Len(heap) <= Len(heap2)
      BY <2>4, LenProperties DEF ListsGrow
    <2> HIDE DEF heap2, n
    <2>6. HooksBelow(app, heap2)
      BY <1>1, <2>5 DEF HooksBelow
    <2>7. ASSUME NEW k \in HookKinds
          PROVE  Extended(HooksIn(app, heap)[k], HooksIn(app, heap2)[k])
      <3>1. CASE app.hooks[k] = 0
        <4>1. HooksIn(app, heap2)[k] = HooksIn(app, heap)[k]
          BY <3>1 DEF HooksIn
        <4>2. QED
          BY <1>2, <4>1, ExtendedItself
      <3>2. CASE app.hooks[k] # 0
        <4>1. app.hooks[k] \in 1..Len(heap)
          BY <1>1, <3>2 DEF HooksBelow
        <4>2. HooksIn(app, heap2)[k] = heap2[app.hooks[k]] /\ HooksIn(app, heap)[k] = heap[app.hooks[k]]
          BY <3>2 DEF HooksIn
        <4>3. QED
          BY <2>4, <4>1, <4>2 DEF ListsGrow
      <3>3. QED
        BY <3>1, <3>2
    <2>8. QED
      BY <1>1, <2>1, <2>2, <2>4, <2>6, <2>7 DEF HooksAdded, KindsExtended
  <1>6. QED
    BY <1>3, <1>4, <1>5

LEMMA AddedKeepsType ==
    ASSUME NEW app \in Apps, NEW heap, NEW new, HooksAdded(app, heap, new)
    PROVE  new.app \in Apps /\ HooksBelow(new.app, new.heap) /\ new.heap \in Seq(Hooks)
  <1>1. PICK hooks \in [HookKinds -> Nat] : new.app = [app EXCEPT !.hooks = hooks]
    BY DEF HooksAdded
  <1>2. new.app \in Apps
    BY <1>1 DEF Apps
  <1>3. QED
    BY <1>2 DEF HooksAdded, ListsGrow

LEMMA AddedTwice ==
    ASSUME NEW app \in Apps, NEW heap \in Seq(Hooks), NEW a, NEW b,
           HooksAdded(app, heap, a), HooksAdded(a.app, a.heap, b)
    PROVE  HooksAdded(app, heap, b)
  <1>1. PICK h1 \in [HookKinds -> Nat] : a.app = [app EXCEPT !.hooks = h1]
    BY DEF HooksAdded
  <1>2. PICK h2 \in [HookKinds -> Nat] : b.app = [a.app EXCEPT !.hooks = h2]
    BY DEF HooksAdded
  <1>3. b.app = [app EXCEPT !.hooks = h2]
    BY <1>1, <1>2 DEF Apps
  <1>4. ListsGrow(heap, b.heap)
    BY ListsGrowOn DEF HooksAdded
  <1>5. QED
    BY <1>3, <1>4 DEF HooksAdded

LEMMA PluginHooksAdded ==
    ASSUME NEW app \in Apps, NEW heap \in Seq(Hooks), HooksBelow(app, heap), NEW p \in Plugins
    PROVE  HooksAdded(app, heap, mergeHooks(app, heap, p, "scoped"))
  <1> DEFINE hooks == pluginOf[p].hooks
             one == Pushed(app, heap, "onStart", hooks["onStart"])
             two == Pushed(one.app, one.heap, "onRequest", hooks["onRequest"])
             three == Pushed(two.app, two.heap, "beforeHandle", hooks["beforeHandle"])
  <1>1. /\ "onStart" \in HookKinds /\ "onRequest" \in HookKinds /\ "beforeHandle" \in HookKinds
        /\ \A k \in HookKinds : hooks[k] \in Hooks
    <2>1. \A k \in HookKinds : hooks[k] \in Seq(STRING)
      BY PluginsAssumption
    <2>2. QED
      BY <2>1, StringsAreNames DEF HookKinds
  <1>2. mergeHooks(app, heap, p, "scoped") = three
    BY DEF mergeHooks
  <1> HIDE DEF hooks
  <1>3. HooksAdded(app, heap, one)
    BY <1>1, PushedHooks
  <1> HIDE DEF one
  <1>4. one.app \in Apps /\ HooksBelow(one.app, one.heap) /\ one.heap \in Seq(Hooks)
    BY <1>3, AddedKeepsType
  <1>5. HooksAdded(one.app, one.heap, two)
    BY <1>1, <1>4, PushedHooks
  <1> HIDE DEF two
  <1>6. two.app \in Apps /\ HooksBelow(two.app, two.heap) /\ two.heap \in Seq(Hooks)
    BY <1>4, <1>5, AddedKeepsType
  <1>7. HooksAdded(two.app, two.heap, three)
    BY <1>1, <1>6, PushedHooks
  <1> HIDE DEF three
  <1>8. HooksAdded(app, heap, two)
    BY <1>3, <1>5, AddedTwice
  <1>9. HooksAdded(app, heap, three)
    BY <1>7, <1>8, AddedTwice
  <1>10. QED
    BY <1>2, <1>9

-----------------------------------------------------------------------------
(* What holds of an application, while the heaps grow. *)

LEMMA HooksOfGuards ==
    ASSUME NEW closed \in Seq(Guards)
    PROVE  HooksOf(closed) \in Hooks /\ Len(HooksOf(closed)) = Len(closed)
  <1> DEFINE n == Len(closed)
  <1>1. n \in Nat /\ DOMAIN closed = 1..n /\ \A i \in 1..n : closed[i] \in Guards
    BY LenProperties, ElementOfSeq
  <1> HIDE DEF n
  <1>2. HooksOf(closed) \in [1..n -> STRING]
    BY <1>1, GuardsAssumption DEF HooksOf
  <1>3. HooksOf(closed) \in Seq(STRING) /\ Len(HooksOf(closed)) = n
    BY <1>1, <1>2
  <1>4. QED
    BY <1>3, StringsAreNames DEF n

LEMMA KeptGrows ==
    ASSUME NEW around, NEW r \in Routes, NEW o1 \in Seq(Hooks), NEW o2, ObjsGrow(o1, o2),
           r.obj \in 1..Len(o1), Kept(around, r, o1)
    PROVE  r.obj \in 1..Len(o2) /\ Kept(around, r, o2)
  <1>1. PICK closed \in Seq(Guards) :
            r.under = around \o closed /\ Within(HooksOf(closed) \o r.own, o1[r.obj])
    BY DEF Kept
  <1>2. PICK more \in Hooks : o2[r.obj] = more \o o1[r.obj]
    BY DEF ObjsGrow, Prefixed
  <1>3. Len(o1) \in Nat /\ Len(o2) \in Nat /\ Len(o1) <= Len(o2) /\ o1[r.obj] \in Hooks
    BY LenProperties, ElementOfSeq DEF ObjsGrow
  <1>4. HooksOf(closed) \o r.own \in Hooks
    BY HooksOfGuards, ConcatProperties DEF Routes, Hooks
  <1>5. Within(HooksOf(closed) \o r.own, o2[r.obj])
    <2> DEFINE s == HooksOf(closed) \o r.own
               t == o1[r.obj]
    <2>1. s \in Hooks /\ t \in Hooks /\ Within(s, t)
      BY <1>1, <1>3, <1>4
    <2> HIDE DEF s, t
    <2>2. Within(s, more \o t)
      BY <2>1, WithinLater
    <2>3. QED
      BY <1>2, <2>2 DEF s, t
  <1>6. QED
    BY <1>1, <1>3, <1>5 DEF Kept

LEMMA RoutesGrow ==
    ASSUME NEW around, NEW routes \in Seq(Routes), NEW o1 \in Seq(Hooks), NEW o2, ObjsGrow(o1, o2),
           RoutesKept(around, routes, o1)
    PROVE  RoutesKept(around, routes, o2)
  <1>1. \A i \in DOMAIN routes : routes[i] \in Routes
    BY LenProperties, ElementOfSeq
  <1>2. QED
    BY <1>1, KeptGrows DEF RoutesKept

LEMMA RoutesJoined ==
    ASSUME NEW around, NEW a \in Seq(Routes), NEW b \in Seq(Routes), NEW heap,
           RoutesKept(around, a, heap), RoutesKept(around, b, heap)
    PROVE  RoutesKept(around, a \o b, heap) /\ a \o b \in Seq(Routes)
  <1> DEFINE c == a \o b
  <1>1. /\ Len(a) \in Nat /\ Len(b) \in Nat /\ DOMAIN a = 1..Len(a) /\ DOMAIN b = 1..Len(b)
        /\ c \in Seq(Routes) /\ DOMAIN c = 1..(Len(a) + Len(b))
        /\ \A i \in DOMAIN c : c[i] = IF i <= Len(a) THEN a[i] ELSE b[i - Len(a)]
    BY ConcatProperties, LenProperties
  <1> HIDE DEF c
  <1>2. ASSUME NEW i \in DOMAIN c
        PROVE  c[i].obj \in 1..Len(heap) /\ Kept(around, c[i], heap)
    <2>1. CASE i <= Len(a)
      <3>1. i \in DOMAIN a /\ c[i] = a[i]
        BY <1>1, <2>1
      <3>2. QED
        BY <3>1 DEF RoutesKept
    <2>2. CASE ~(i <= Len(a))
      <3>1. i - Len(a) \in DOMAIN b /\ c[i] = b[i - Len(a)]
        BY <1>1, <2>2
      <3>2. QED
        BY <3>1 DEF RoutesKept
    <2>3. QED
      BY <2>1, <2>2
  <1>3. RoutesKept(around, c, heap)
    BY <1>2 DEF RoutesKept
  <1>4. QED
    BY <1>1, <1>3 DEF c

LEMMA GivenGrows ==
    ASSUME NEW app \in Apps, NEW l1 \in Seq(Hooks), NEW l2, ListsGrow(l1, l2), Given1(app, l1)
    PROVE  Given1(app, l2)
  <1> DEFINE n == app.given
  <1>1. n \in 1..Len(l1) /\ l1[n] \in Hooks /\ l1[n] # <<>>
    BY ElementOfSeq DEF Given1
  <1>2. PICK more \in Hooks : l2[n] = l1[n] \o more
    BY <1>1 DEF ListsGrow, Extended
  <1>3. l2[n] # <<>> /\ l2[n][1] = l1[n][1]
    <2> DEFINE h == l1[n]
    <2>1. h \in Hooks /\ h # <<>>
      BY <1>1
    <2> HIDE DEF h
    <2>2. h \o more # <<>> /\ (h \o more)[1] = h[1]
      BY <2>1 DEF Hooks
    <2>3. QED
      BY <1>2, <2>2 DEF h
  <1>4. n \in 1..Len(l2)
    BY <1>1, LenProperties DEF ListsGrow
  <1>5. QED
    BY <1>3, <1>4 DEF Given1

LEMMA SoundGrows ==
    ASSUME NEW app \in Apps, NEW l1 \in Seq(Hooks), NEW o1 \in Seq(Hooks), NEW l2, NEW o2,
           Sound(app, l1, o1), ListsGrow(l1, l2), ObjsGrow(o1, o2)
    PROVE  Sound(app, l2, o2)
  <1>1. HooksBelow(app, l2)
    <2>1. Len(l1) \in Nat /\ Len(l2) \in Nat /\ Len(l1) <= Len(l2)
      BY LenProperties DEF ListsGrow
    <2>2. QED
      BY <2>1 DEF Sound, HooksBelow
  <1>2. app.as = "guard" => Given1(app, l2)
    BY GivenGrows DEF Sound
  <1>3. RoutesKept(app.around, app.routes, o2)
    BY RoutesGrow DEF Sound, Apps
  <1>4. QED
    BY <1>1, <1>2, <1>3 DEF Sound

-----------------------------------------------------------------------------
(* What a step may do to the stack. *)

LEMMA TopOfStack ==
    ASSUME StackInv
    PROVE  /\ Len(stack) \in Nat \ {0} /\ DOMAIN stack = 1..Len(stack)
           /\ \A d \in 1..Len(stack) : stack[d] \in Apps /\ Sound(stack[d], lists, objs)
           /\ Top \in Apps /\ Sound(Top, lists, objs)
  <1>1. Len(stack) \in Nat \ {0} /\ DOMAIN stack = 1..Len(stack)
    BY EmptySeq, LenProperties DEF StackInv, StackTyped
  <1>2. \A d \in 1..Len(stack) : stack[d] \in Apps /\ Sound(stack[d], lists, objs)
    BY ElementOfSeq DEF StackInv, StackTyped, AllSound
  <1>3. QED
    BY <1>1, <1>2 DEF Top

\* The top is worked on.
LEMMA TopChanges ==
    ASSUME StackInv, NEW app \in Apps, SetTop(app),
           ListsGrow(lists, lists'), ObjsGrow(objs, objs'), Sound(app, lists', objs'),
           app.as = Top.as, app.guard = Top.guard, app.around = Top.around
    PROVE  StackInv' /\ Len(stack') = Len(stack)
  <1> DEFINE n == Len(stack)
  <1>1. n \in Nat \ {0} /\ DOMAIN stack = 1..n /\ \A d \in 1..n : stack[d] \in Apps /\ Sound(stack[d], lists, objs)
    BY TopOfStack
  <1>2. /\ stack' \in Seq(Apps) /\ Len(stack') = n
        /\ \A d \in 1..n : stack'[d] = IF d = n THEN app ELSE stack[d]
    BY <1>1, ExceptSeq DEF SetTop, StackInv, StackTyped
  <1>3. stack' # <<>> /\ lists' \in Seq(Hooks) /\ objs' \in Seq(Hooks)
    <2>1. stack' # <<>>
      BY <1>1, <1>2, EmptySeq
    <2>2. QED
      BY <2>1 DEF ListsGrow, ObjsGrow
  <1>4. AllSound'
    <2>1. ASSUME NEW d \in 1..n PROVE Sound(stack'[d], lists', objs')
      <3>1. CASE d = n
        BY <1>2, <3>1
      <3>2. CASE d # n
        BY <1>1, <1>2, <3>2, SoundGrows DEF StackInv, StackTyped
      <3>3. QED
        BY <3>1, <3>2
    <2>2. QED
      BY <1>2, <2>1 DEF AllSound
  <1>5. Nested'
    <2> DEFINE SameFrame(a, b) == a.as = b.as /\ a.guard = b.guard /\ a.around = b.around
    <2>1. \A d \in 1..n : SameFrame(stack'[d], stack[d])
      BY <1>2 DEF Top
    <2> HIDE DEF n
    <2>2. \A d \in 1..n - 1 : Inside(stack[d], stack[d + 1]) => Inside(stack'[d], stack'[d + 1])
      BY <1>1, <2>1 DEF Inside
    <2>3. 1 \in 1..n
      BY <1>1
    <2>4. \A d \in 1..n - 1 : Inside(stack[d], stack[d + 1])
      BY DEF StackInv, Nested, n
    <2>5. QED
      BY <1>2, <2>1, <2>2, <2>3, <2>4 DEF StackInv, Nested
  <1>6. QED
    BY <1>2, <1>3, <1>4, <1>5 DEF StackInv, StackTyped

\* A callback begins.
LEMMA TopPushed ==
    ASSUME StackInv, NEW app \in Apps, stack' = Append(stack, app),
           ListsGrow(lists, lists'), ObjsGrow(objs, objs'), Sound(app, lists', objs'), Inside(Top, app)
    PROVE  StackInv' /\ Len(stack') = Len(stack) + 1
  <1> DEFINE n == Len(stack)
  <1>1. n \in Nat \ {0} /\ DOMAIN stack = 1..n /\ \A d \in 1..n : stack[d] \in Apps /\ Sound(stack[d], lists, objs)
    BY TopOfStack
  <1>2. /\ stack' \in Seq(Apps) /\ Len(stack') = n + 1 /\ stack' # <<>>
        /\ \A d \in 1..n : stack'[d] = stack[d]
        /\ stack'[n + 1] = app
    BY <1>1, AppendProperties DEF StackInv, StackTyped
  <1>3. lists' \in Seq(Hooks) /\ objs' \in Seq(Hooks)
    BY DEF ListsGrow, ObjsGrow
  <1>4. AllSound'
    <2>1. ASSUME NEW d \in 1..(n + 1) PROVE Sound(stack'[d], lists', objs')
      <3>1. CASE d = n + 1
        BY <1>2, <3>1
      <3>2. CASE d # n + 1
        <4>1. d \in 1..n
          BY <1>1, <3>2
        <4>2. QED
          BY <1>1, <1>2, <4>1, SoundGrows DEF StackInv, StackTyped
      <3>3. QED
        BY <3>1, <3>2
    <2>2. QED
      BY <1>2, <2>1 DEF AllSound
  <1>5. Nested'
    <2>1. ASSUME NEW d \in 1..n PROVE Inside(stack'[d], stack'[d + 1])
      <3>1. CASE d = n
        BY <1>1, <1>2, <3>1 DEF Top
      <3>2. CASE d # n
        <4>1. d \in 1..(n - 1) /\ d + 1 \in 1..n
          <5>1. n \in Nat
            BY <1>1
          <5> HIDE DEF n
          <5>2. QED
            BY <3>2, <5>1
        <4>2. QED
          BY <1>2, <4>1 DEF StackInv, Nested
      <3>3. QED
        BY <3>1, <3>2
    <2>2. QED
      BY <1>1, <1>2, <2>1 DEF StackInv, Nested
  <1>6. QED
    BY <1>2, <1>3, <1>4, <1>5 DEF StackInv, StackTyped

\* A callback ends, and its routes go to the application below.
LEMMA TopPopped ==
    ASSUME StackInv, NEW routes \in Seq(Routes), Len(stack) > 1,
           stack' = [Front(stack) EXCEPT ![Len(stack) - 1].routes = @ \o routes],
           ListsGrow(lists, lists'), ObjsGrow(objs, objs'),
           RoutesKept(stack[Len(stack) - 1].around, routes, objs')
    PROVE  StackInv' /\ Len(stack') = Len(stack) - 1
  <1> DEFINE n == Len(stack) - 1
             below == stack[n]
             app == [below EXCEPT !.routes = @ \o routes]
  <1>1. /\ n \in Nat \ {0} /\ n \in 1..Len(stack) /\ DOMAIN stack = 1..(n + 1)
        /\ \A d \in 1..n + 1 : stack[d] \in Apps /\ Sound(stack[d], lists, objs)
    BY TopOfStack
  <1>2. Front(stack) \in Seq(Apps) /\ Len(Front(stack)) = n /\ \A d \in 1..n : Front(stack)[d] = stack[d]
    BY <1>1, SubSeqProperties DEF Front, StackInv, StackTyped
  <1>3. below \in Apps /\ Sound(below, lists', objs')
    BY <1>1, SoundGrows DEF StackInv, StackTyped
  <1>4. /\ app \in Apps /\ Sound(app, lists', objs')
        /\ app.as = below.as /\ app.guard = below.guard /\ app.around = below.around
    <2> HIDE DEF below
    <2>1. below.routes \in Seq(Routes) /\ RoutesKept(below.around, below.routes, objs')
      BY <1>3 DEF Sound, Apps
    <2>2. RoutesKept(below.around, below.routes \o routes, objs') /\ below.routes \o routes \in Seq(Routes)
      BY <2>1, RoutesJoined DEF below
    <2>3. app \in Apps
      BY <1>3, <2>2 DEF Apps
    <2>4. /\ app.hooks = below.hooks /\ app.as = below.as /\ app.guard = below.guard
          /\ app.given = below.given /\ app.around = below.around /\ app.routes = below.routes \o routes
      BY <1>3 DEF Apps
    <2> HIDE DEF app
    <2>5. Sound(app, lists', objs')
      BY <1>3, <2>2, <2>4 DEF Sound, HooksBelow, Given1
    <2>6. QED
      BY <2>3, <2>4, <2>5 DEF app
  <1>5. /\ stack' \in Seq(Apps) /\ Len(stack') = n
        /\ \A d \in 1..n : stack'[d] = IF d = n THEN app ELSE stack[d]
    <2> DEFINE front == Front(stack)
    <2>1. front \in Seq(Apps) /\ Len(front) = n /\ \A d \in 1..n : front[d] = stack[d]
      BY <1>2
    <2> HIDE DEF front, app
    <2>2. stack' = [front EXCEPT ![n] = [front[n] EXCEPT !.routes = @ \o routes]]
      BY DEF front
    <2>3. front[n] = below /\ n \in 1..Len(front)
      <3> HIDE DEF n
      <3>1. QED
        BY <1>1, <2>1
    <2>4. stack' = [front EXCEPT ![n] = app]
      BY <2>2, <2>3 DEF app
    <2> HIDE DEF below, n
    <2>5. /\ [front EXCEPT ![n] = app] \in Seq(Apps)
          /\ Len([front EXCEPT ![n] = app]) = Len(front)
          /\ \A d \in 1..Len(front) : [front EXCEPT ![n] = app][d] = IF d = n THEN app ELSE front[d]
      BY <1>4, <2>1, <2>3, ExceptSeq
    <2>6. QED
      BY <2>1, <2>4, <2>5
  <1>6. stack' # <<>> /\ lists' \in Seq(Hooks) /\ objs' \in Seq(Hooks)
    <2>1. stack' # <<>>
      BY <1>1, <1>5, EmptySeq
    <2>2. QED
      BY <2>1 DEF ListsGrow, ObjsGrow
  <1>7. AllSound'
    <2> HIDE DEF app
    <2>1. ASSUME NEW d \in 1..n PROVE Sound(stack'[d], lists', objs')
      <3>1. CASE d = n
        BY <1>4, <1>5, <3>1
      <3>2. CASE d # n
        <4>1. stack'[d] = stack[d] /\ stack[d] \in Apps /\ Sound(stack[d], lists, objs)
          BY <1>1, <1>5, <3>2
        <4>2. QED
          BY <4>1, SoundGrows DEF StackInv, StackTyped
      <3>3. QED
        BY <3>1, <3>2
    <2>2. QED
      BY <1>5, <2>1 DEF AllSound
  <1>8. Nested'
    <2> DEFINE SameFrame(a, b) == a.as = b.as /\ a.guard = b.guard /\ a.around = b.around
    <2> HIDE DEF app
    <2>1. \A d \in 1..n : SameFrame(stack'[d], stack[d])
      BY <1>4, <1>5
    <2>2. \A d \in 1..n : Inside(stack[d], stack[d + 1])
      BY <1>1 DEF StackInv, Nested
    <2> HIDE DEF n
    <2>3. \A d \in 1..n - 1 : Inside(stack'[d], stack'[d + 1])
      BY <1>1, <2>1, <2>2 DEF Inside
    <2>4. 1 \in 1..n
      BY <1>1
    <2>5. QED
      BY <1>5, <2>1, <2>3, <2>4 DEF StackInv, Nested
  <1>9. QED
    BY <1>5, <1>6, <1>7, <1>8 DEF StackInv, StackTyped

-----------------------------------------------------------------------------
(* The calls, one by one. *)

LEMMA SharedGrows ==
    ASSUME StackTyped, SharedKept, ObjsGrow(objs, objs'), shared' = shared
    PROVE  SharedKept'
  <1>1. SUFFICES ASSUME NEW p \in DOMAIN shared, NEW i \in DOMAIN pluginOf[p].routes
                 PROVE  /\ shared[p] + i - 1 \in 1..Len(objs')
                        /\ Within(pluginOf[p].routes[i], objs'[shared[p] + i - 1])
    BY DEF SharedKept
  <1> DEFINE n == shared[p] + i - 1
             own == pluginOf[p].routes[i]
  <1>2. p \in Plugins /\ n \in 1..Len(objs) /\ Within(own, objs[n])
    BY DEF SharedKept
  <1>3. own \in Hooks
    <2> DEFINE routes == pluginOf[p].routes
    <2>1. routes \in Seq(Seq(STRING))
      BY <1>2, PluginsAssumption
    <2> HIDE DEF routes
    <2>2. \A j \in DOMAIN routes : routes[j] \in Seq(STRING)
      BY <2>1, LenProperties, ElementOfSeq
    <2>3. QED
      BY <2>2, StringsAreNames DEF routes
  <1> HIDE DEF n, own
  <1>4. /\ objs \in Seq(Hooks) /\ Len(objs) \in Nat /\ Len(objs') \in Nat /\ Len(objs) <= Len(objs')
        /\ objs[n] \in Hooks
    BY <1>2, LenProperties, ElementOfSeq DEF ObjsGrow, StackTyped
  <1>5. PICK more \in Hooks : objs'[n] = more \o objs[n]
    BY <1>2 DEF ObjsGrow, Prefixed
  <1>6. Within(own, objs'[n])
    BY <1>2, <1>3, <1>4, <1>5, WithinLater
  <1>7. QED
    BY <1>2, <1>4, <1>6 DEF n, own

\* A route starts under all the guards around it, none of which has returned.
LEMMA KeptAtFirst ==
    ASSUME NEW around \in Seq(Guards), NEW r, r.under = around, r.own \in Hooks,
           NEW heap, Within(r.own, heap[r.obj])
    PROVE  Kept(around, r, heap)
  <1>1. <<>> \in Seq(Guards) /\ around = around \o <<>>
    BY ConcatEmptySeq
  <1>2. HooksOf(<<>>) = <<>>
    BY DEF HooksOf
  <1>3. HooksOf(<<>>) \o r.own = r.own
    BY <1>2, ConcatEmptySeq DEF Hooks
  <1>4. QED
    BY <1>1, <1>3 DEF Kept

LEMMA OneRoute ==
    ASSUME NEW around, NEW r \in Routes, NEW heap, r.obj \in 1..Len(heap), Kept(around, r, heap)
    PROVE  RoutesKept(around, <<r>>, heap) /\ <<r>> \in Seq(Routes)
  BY DEF RoutesKept

\* An application with more routes, whose hooks arrays and guard are as before.
LEMMA SoundWithRoutes ==
    ASSUME NEW app \in Apps, NEW l, NEW o, Sound(app, l, o), NEW routes \in Seq(Routes),
           RoutesKept(app.around, routes, o)
    PROVE  /\ [app EXCEPT !.routes = @ \o routes] \in Apps
           /\ Sound([app EXCEPT !.routes = @ \o routes], l, o)
  <1> DEFINE new == [app EXCEPT !.routes = @ \o routes]
  <1>1. app.routes \in Seq(Routes) /\ RoutesKept(app.around, app.routes, o)
    BY DEF Sound, Apps
  <1>2. RoutesKept(app.around, app.routes \o routes, o) /\ app.routes \o routes \in Seq(Routes)
    BY <1>1, RoutesJoined
  <1>3. new \in Apps
    BY <1>2 DEF Apps
  <1>4. /\ new.hooks = app.hooks /\ new.as = app.as /\ new.guard = app.guard
        /\ new.given = app.given /\ new.around = app.around /\ new.routes = app.routes \o routes
    BY DEF Apps
  <1> HIDE DEF new
  <1>5. Sound(new, l, o)
    BY <1>2, <1>4 DEF Sound, HooksBelow, Given1
  <1>6. QED
    BY <1>3, <1>5 DEF new

LEMMA RegisterKeeps ==
    ASSUME StackInv, NEW flags \in SUBSET Macros, NEW own \in Hooks, register(flags, own)
    PROVE  StackInv' /\ ObjsGrow(objs, objs') /\ Len(stack') = Len(stack)
  <1> DEFINE before == BeforeOf(Top, flags, own)
             r == Route(Top, Len(objs) + 1, flags, own)
             app == [Top EXCEPT !.routes = @ \o <<r>>]
  <1>1. Top \in Apps /\ Sound(Top, lists, objs)
    BY TopOfStack
  <1>2. lists \in Seq(Hooks) /\ objs \in Seq(Hooks) /\ Len(objs) \in Nat
    BY LenProperties DEF StackInv, StackTyped
  <1>3. MacroHooks(Top, flags) \in Hooks /\ MacroSchema(Top, flags) \in Schemas
    BY HooksOfMacros, SchemaOfMacros
  <1>4. before \in Hooks /\ Within(own, before)
    BY <1>3, WithinEarlier, ConcatProperties DEF BeforeOf, Hooks
  <1>5. /\ r.obj = Len(objs) + 1 /\ r.under = Top.around /\ r.own = own /\ r \in Routes
    <2>1. Append(Top.prefix, "route") \in Paths
      <3>1. Top.prefix \in Seq(Names \cup Plugins) /\ "route" \in Names \cup Plugins
        BY <1>1 DEF Apps, Paths, Names
      <3>2. QED
        BY <3>1, AppendProperties DEF Paths
    <2>2. Top.around \in Seq(Guards)
      BY <1>1 DEF Apps
    <2>3. QED
      BY <1>2, <1>3, <2>1, <2>2 DEF Route, Routes
  <1> HIDE DEF r, before
  <1>6. objs' = Append(objs, before) /\ lists' = lists
    BY DEF register, before
  <1>7. /\ objs' \in Seq(Hooks) /\ Len(objs') = Len(objs) + 1 /\ objs'[Len(objs) + 1] = before
        /\ \A n \in 1..Len(objs) : objs'[n] = objs[n]
    BY <1>2, <1>4, <1>6, AppendProperties
  <1>8. ObjsGrow(objs, objs') /\ ListsGrow(lists, lists')
    <2>1. \A n \in 1..Len(objs) : Prefixed(objs[n], objs'[n])
      BY <1>2, <1>7, PrefixedItself, ElementOfSeq
    <2>2. QED
      BY <1>2, <1>6, <1>7, <2>1, ListsStay DEF ObjsGrow
  <1>9. Sound(Top, lists', objs')
    BY <1>1, <1>2, <1>8, SoundGrows
  <1>10. RoutesKept(Top.around, <<r>>, objs') /\ <<r>> \in Seq(Routes)
    <2>1. Kept(Top.around, r, objs')
      <3>1. Top.around \in Seq(Guards)
        BY <1>1 DEF Apps
      <3>2. QED
        BY <1>4, <1>5, <1>7, <3>1, KeptAtFirst
    <2>2. r.obj \in 1..Len(objs')
      BY <1>2, <1>5, <1>7
    <2>3. QED
      BY <1>5, <2>1, <2>2, OneRoute
  <1>11. app \in Apps /\ Sound(app, lists', objs')
    BY <1>1, <1>9, <1>10, SoundWithRoutes
  <1>12. SetTop(app) /\ app.as = Top.as /\ app.guard = Top.guard /\ app.around = Top.around
    <2> DEFINE t == Top
    <2>1. Append(t.routes, r) = t.routes \o <<r>>
      BY <1>1, <1>5, AppendIsConcat DEF Apps
    <2>2. SetTop([t EXCEPT !.routes = Append(t.routes, r)])
      BY DEF register, r
    <2>3. SetTop(app)
      BY <2>1, <2>2
    <2> HIDE DEF t
    <2>4. QED
      BY <1>1, <2>3 DEF Apps, t
  <1> HIDE DEF app
  <1>13. QED
    BY <1>8, <1>11, <1>12, TopChanges

LEMMA OnKeeps ==
    ASSUME StackInv, NEW kind \in HookKinds, on(kind)
    PROVE  /\ StackInv' /\ ObjsGrow(objs, objs') /\ Len(stack') = Len(stack)
           /\ Top'.routes = Top.routes
           /\ KindsExtended(Top, lists, [app |-> Top', heap |-> lists'])
  <1> DEFINE added == Pushed(Top, lists, kind, <<kind>>)
  <1>1. Top \in Apps /\ Sound(Top, lists, objs)
    BY TopOfStack
  <1>2. lists \in Seq(Hooks) /\ objs \in Seq(Hooks) /\ <<kind>> \in Hooks
    <2>1. kind \in Names
      BY DEF Names
    <2>2. <<kind>> \in Hooks
      BY <2>1 DEF Hooks
    <2>3. QED
      BY <2>2 DEF StackInv, StackTyped
  <1>3. HooksAdded(Top, lists, added) /\ KindsExtended(Top, lists, added)
    BY <1>1, <1>2, PushedHooks DEF Sound
  <1>4. added.app \in Apps
    BY <1>1, <1>3, AddedKeepsType
  <1>5. SetTop(added.app) /\ lists' = added.heap /\ objs' = objs
    BY DEF on
  <1> HIDE DEF added
  <1>6. ListsGrow(lists, lists') /\ ObjsGrow(objs, objs')
    BY <1>2, <1>3, <1>5, ObjsStay DEF HooksAdded
  <1>7. PICK hooks \in [HookKinds -> Nat] : added.app = [Top EXCEPT !.hooks = hooks]
    BY <1>3 DEF HooksAdded
  <1>8. /\ added.app.as = Top.as /\ added.app.guard = Top.guard /\ added.app.around = Top.around
        /\ added.app.given = Top.given /\ added.app.routes = Top.routes
    BY <1>1, <1>7 DEF Apps
  <1>9. Sound(added.app, lists', objs')
    <2>1. Sound(Top, lists', objs')
      BY <1>1, <1>2, <1>6, SoundGrows
    <2>2. HooksBelow(added.app, lists')
      BY <1>3, <1>5 DEF HooksAdded
    <2>3. QED
      BY <1>8, <2>1, <2>2 DEF Sound, Given1
  <1>10. StackInv' /\ Len(stack') = Len(stack)
    BY <1>4, <1>5, <1>6, <1>8, <1>9, TopChanges
  <1>11. Top' = added.app
    <2>1. Len(stack) \in DOMAIN stack
      BY TopOfStack
    <2>2. QED
      BY <1>5, <1>10, <2>1 DEF SetTop, Top
  <1>12. KindsExtended(Top, lists, [app |-> Top', heap |-> lists'])
    BY <1>3, <1>5, <1>11 DEF KindsExtended
  <1>13. QED
    BY <1>6, <1>8, <1>10, <1>11, <1>12

\* derive, decorate and macro change nothing that the invariant is about.
LEMMA SettingKeeps ==
    ASSUME StackInv, NEW app \in Apps, SetTop(app), lists' = lists, objs' = objs,
           app.as = Top.as, app.guard = Top.guard, app.around = Top.around,
           app.given = Top.given, app.routes = Top.routes, app.hooks = Top.hooks
    PROVE  /\ StackInv' /\ ObjsGrow(objs, objs') /\ Len(stack') = Len(stack)
           /\ Top'.routes = Top.routes /\ Top'.hooks = Top.hooks
  <1>1. Top \in Apps /\ Sound(Top, lists, objs) /\ Len(stack) \in DOMAIN stack
    BY TopOfStack
  <1>2. ListsGrow(lists, lists') /\ ObjsGrow(objs, objs')
    BY ListsStay, ObjsStay DEF StackInv, StackTyped
  <1>3. Sound(app, lists', objs')
    BY <1>1 DEF Sound, HooksBelow, Given1
  <1>4. StackInv' /\ Len(stack') = Len(stack)
    BY <1>2, <1>3, TopChanges
  <1>5. Top' = app
    BY <1>1, <1>4 DEF SetTop, Top
  <1>6. QED
    BY <1>2, <1>4, <1>5

LEMMA SettingsKeep ==
    ASSUME StackInv, derive \/ decorate \/ \E m \in Macros : macro(m)
    PROVE  /\ StackInv' /\ ObjsGrow(objs, objs') /\ Len(stack') = Len(stack)
           /\ Top'.routes = Top.routes /\ Top'.hooks = Top.hooks
  <1>1. Top \in Apps
    BY TopOfStack
  <1>2. \E app \in Apps :
            /\ SetTop(app) /\ lists' = lists /\ objs' = objs
            /\ app.as = Top.as /\ app.guard = Top.guard /\ app.around = Top.around
            /\ app.given = Top.given /\ app.routes = Top.routes /\ app.hooks = Top.hooks
    <2> DEFINE t == Top
    <2>1. t \in Apps
      BY <1>1
    <2> HIDE DEF t
    <2>2. CASE derive
      <3> DEFINE app == [t EXCEPT !.derives = @ + 1]
      <3>1. /\ app \in Apps
            /\ app.as = t.as /\ app.guard = t.guard /\ app.around = t.around
            /\ app.given = t.given /\ app.routes = t.routes /\ app.hooks = t.hooks
        BY <2>1 DEF Apps
      <3>2. SetTop(app) /\ lists' = lists /\ objs' = objs
        BY <2>2 DEF derive, t
      <3> HIDE DEF app
      <3>3. QED
        BY <3>1, <3>2 DEF t
    <2>3. CASE decorate
      <3> DEFINE app == [t EXCEPT !.decorated = TRUE]
      <3>1. /\ app \in Apps
            /\ app.as = t.as /\ app.guard = t.guard /\ app.around = t.around
            /\ app.given = t.given /\ app.routes = t.routes /\ app.hooks = t.hooks
        BY <2>1 DEF Apps
      <3>2. SetTop(app) /\ lists' = lists /\ objs' = objs
        BY <2>3 DEF decorate, t
      <3> HIDE DEF app
      <3>3. QED
        BY <3>1, <3>2 DEF t
    <2>4. ASSUME NEW m \in Macros, macro(m)
          PROVE  \E app \in Apps :
            /\ SetTop(app) /\ lists' = lists /\ objs' = objs
            /\ app.as = t.as /\ app.guard = t.guard /\ app.around = t.around
            /\ app.given = t.given /\ app.routes = t.routes /\ app.hooks = t.hooks
      <3> DEFINE app == [t EXCEPT !.macros = @ \cup {m}]
      <3>1. /\ app \in Apps
            /\ app.as = t.as /\ app.guard = t.guard /\ app.around = t.around
            /\ app.given = t.given /\ app.routes = t.routes /\ app.hooks = t.hooks
        BY <2>1 DEF Apps
      <3>2. SetTop(app) /\ lists' = lists /\ objs' = objs
        BY <2>4 DEF macro, t
      <3> HIDE DEF app
      <3>3. QED
        BY <3>1, <3>2
    <2>5. QED
      BY <2>2, <2>3, <2>4 DEF t
  <1>3. QED
    BY <1>2, SettingKeeps

-----------------------------------------------------------------------------
(* Groups and guards. *)

LEMMA NoRoutesKept ==
    ASSUME NEW around, NEW heap
    PROVE  RoutesKept(around, <<>>, heap) /\ <<>> \in Seq(Routes)
  BY DEF RoutesKept

LEMMA OpenGroupKeeps ==
    ASSUME StackInv, OpenGroup
    PROVE  StackInv' /\ ObjsGrow(objs, objs') /\ Len(stack') = Len(stack) + 1
  <1> DEFINE t == Top
             app == [Application("group", Append(t.prefix, "group"), t.around) EXCEPT
                       !.hooks = t.hooks, !.derives = t.derives,
                       !.decorated = t.decorated, !.macros = t.macros]
  <1>1. t \in Apps /\ Sound(t, lists, objs)
    BY TopOfStack
  <1>2. stack' = Append(stack, app) /\ lists' = lists /\ objs' = objs
    BY DEF OpenGroup
  <1>3. ListsGrow(lists, lists') /\ ObjsGrow(objs, objs')
    BY <1>2, ListsStay, ObjsStay DEF StackInv, StackTyped
  <1> HIDE DEF t
  <1>4. Append(t.prefix, "group") \in Paths
    <2>1. t.prefix \in Seq(Names \cup Plugins) /\ "group" \in Names \cup Plugins
      BY <1>1 DEF Apps, Paths, Names
    <2>2. QED
      BY <2>1, AppendProperties DEF Paths
  <1>5. /\ app.as = "group" /\ app.around = t.around /\ app.routes = <<>> /\ app.hooks = t.hooks
        /\ app \in Apps
    <2>1. NoHooks \in [HookKinds -> Nat]
      BY DEF NoHooks
    <2> DEFINE base == Application("group", Append(t.prefix, "group"), t.around)
    <2>2. base \in Apps /\ base.as = "group" /\ base.around = t.around /\ base.routes = <<>>
      BY <1>1, <1>4, <2>1, NoRoutesKept DEF Apps, Application
    <2> HIDE DEF base
    <2>3. /\ t.hooks \in [HookKinds -> Nat] /\ t.derives \in Nat
          /\ t.decorated \in BOOLEAN /\ t.macros \in SUBSET Macros
      BY <1>1 DEF Apps
    <2>4. QED
      BY <2>2, <2>3 DEF Apps, base
  <1> HIDE DEF app
  <1>6. Sound(app, lists', objs')
    BY <1>1, <1>2, <1>5, NoRoutesKept DEF Sound, HooksBelow
  <1>7. Inside(Top, app)
    BY <1>5 DEF Inside, t
  <1>8. QED
    BY <1>2, <1>3, <1>5, <1>6, <1>7, TopPushed

LEMMA OpenGuardKeeps ==
    ASSUME StackInv, NEW g \in Guards, OpenGuard(g)
    PROVE  StackInv' /\ ObjsGrow(objs, objs') /\ Len(stack') = Len(stack) + 1
  <1> DEFINE t == Top
             hook == guardOf[g].hook
             n == Len(lists) + 1
             app == [Application("guard", t.prefix, Append(t.around, g)) EXCEPT
                       !.guard = g, !.given = n, !.hooks["beforeHandle"] = n]
  <1>1. t \in Apps /\ lists \in Seq(Hooks) /\ objs \in Seq(Hooks) /\ n \in Nat \ {0}
    BY TopOfStack, LenProperties DEF StackInv, StackTyped
  <1>2. stack' = Append(stack, app) /\ lists' = Append(lists, <<hook>>) /\ objs' = objs
    BY DEF OpenGuard
  <1>3. <<hook>> \in Hooks
    <2>1. hook \in Names
      BY GuardsAssumption DEF Names
    <2> HIDE DEF hook
    <2>2. QED
      BY <2>1 DEF Hooks
  <1> HIDE DEF hook
  <1>4. ListsGrow(lists, lists') /\ ObjsGrow(objs, objs') /\ Len(lists') = n /\ lists'[n] = <<hook>>
    BY <1>1, <1>2, <1>3, ListsAdded, ObjsStay, AppendProperties
  <1> HIDE DEF t, n
  <1>5. /\ app.as = "guard" /\ app.guard = g /\ app.given = n /\ app.around = Append(t.around, g)
        /\ app.routes = <<>> /\ app.hooks = [NoHooks EXCEPT !["beforeHandle"] = n]
        /\ app \in Apps
    <2>1. NoHooks \in [HookKinds -> Nat] /\ "beforeHandle" \in HookKinds
      BY DEF NoHooks, HookKinds
    <2>2. [NoHooks EXCEPT !["beforeHandle"] = n] \in [HookKinds -> Nat]
      BY <1>1, <2>1
    <2>3. Append(t.around, g) \in Seq(Guards) /\ t.prefix \in Paths
      BY <1>1, AppendProperties DEF Apps
    <2> DEFINE base == Application("guard", t.prefix, Append(t.around, g))
    <2>4. /\ base \in Apps /\ base.as = "guard" /\ base.around = Append(t.around, g)
          /\ base.routes = <<>> /\ base.hooks = NoHooks
      BY <2>1, <2>3, NoRoutesKept DEF Apps, Application
    <2> HIDE DEF base
    <2>5. QED
      BY <1>1, <2>2, <2>4 DEF Apps, base
  <1> HIDE DEF app
  <1>6. Sound(app, lists', objs')
    <2>1. HooksBelow(app, lists')
      BY <1>1, <1>4, <1>5 DEF HooksBelow, NoHooks
    <2>2. Given1(app, lists')
      <3>1. <<hook>> # <<>> /\ <<hook>>[1] = hook
        OBVIOUS
      <3>2. QED
        BY <1>1, <1>4, <1>5, <3>1 DEF Given1, hook
    <2>3. QED
      BY <1>5, <2>1, <2>2, NoRoutesKept DEF Sound
  <1>7. Inside(Top, app)
    BY <1>5 DEF Inside, t
  <1>8. QED
    BY <1>2, <1>4, <1>5, <1>6, <1>7, TopPushed

\* Both applications that the end of a callback is about.
LEMMA ParentAndChild ==
    ASSUME StackInv, Top.as # "app"
    PROVE  /\ Len(stack) > 1
           /\ stack[Len(stack) - 1] \in Apps
           /\ Inside(stack[Len(stack) - 1], Top)
  <1>1. Len(stack) \in Nat \ {0} /\ \A d \in 1..Len(stack) : stack[d] \in Apps
    BY TopOfStack
  <1>2. Len(stack) > 1
    BY <1>1 DEF StackInv, Nested, Top
  <1>3. Len(stack) - 1 \in 1..Len(stack) /\ Len(stack) - 1 \in 1..Len(stack) - 1
    BY <1>1, <1>2
  <1>4. QED
    BY <1>1, <1>2, <1>3 DEF StackInv, Nested, Top

LEMMA CloseGroupKeeps ==
    ASSUME StackInv, CloseGroup
    PROVE  /\ StackInv' /\ ObjsGrow(objs, objs')
           /\ Len(stack) > 1 /\ Len(stack') = Len(stack) - 1
  <1> DEFINE below == stack[Len(stack) - 1]
  <1>1. Top \in Apps /\ Sound(Top, lists, objs)
    BY TopOfStack
  <1>2. Len(stack) > 1 /\ below.around = Top.around
    BY ParentAndChild DEF CloseGroup, Inside
  <1>3. lists' = lists /\ objs' = objs
        /\ stack' = [Front(stack) EXCEPT ![Len(stack) - 1].routes = @ \o Top.routes]
    BY DEF CloseGroup, CloseInto
  <1>4. ListsGrow(lists, lists') /\ ObjsGrow(objs, objs')
    BY <1>3, ListsStay, ObjsStay DEF StackInv, StackTyped
  <1>5. Top.routes \in Seq(Routes) /\ RoutesKept(below.around, Top.routes, objs')
    BY <1>1, <1>2, <1>3 DEF Apps, Sound
  <1>6. QED
    BY <1>2, <1>3, <1>4, <1>5, TopPopped

LEMMA GuardHooksFirst ==
    ASSUME StackInv, Top.as = "guard"
    PROVE  /\ Top.guard \in Guards
           /\ GuardHooks(Top) \in Hooks /\ GuardHooks(Top) # <<>>
           /\ GuardHooks(Top)[1] = guardOf[Top.guard].hook
  <1>1. Given1(Top, lists) /\ lists \in Seq(Hooks)
    BY TopOfStack DEF Sound, StackInv, StackTyped
  <1>2. lists[Top.given] \in Hooks
    BY <1>1, ElementOfSeq DEF Given1
  <1>3. <<guardOf[Top.guard].hook>> \in Hooks
    <2> DEFINE hook == guardOf[Top.guard].hook
    <2>1. hook \in Names
      BY <1>1, GuardsAssumption DEF Given1, Names
    <2> HIDE DEF hook
    <2>2. <<hook>> \in Hooks
      BY <2>1 DEF Hooks
    <2>3. QED
      BY <2>2 DEF hook
  <1>4. CASE guardOf[Top.guard].many
    BY <1>1, <1>2, <1>4 DEF GuardHooks, Given1
  <1>5. CASE ~guardOf[Top.guard].many
    BY <1>1, <1>3, <1>5 DEF GuardHooks, Given1
  <1>6. QED
    BY <1>4, <1>5

LEMMA HooksAssociate ==
    ASSUME NEW a \in Hooks, NEW b \in Hooks, NEW c \in Hooks
    PROVE  (a \o b) \o c = a \o (b \o c)
  BY ConcatAssociative DEF Hooks

\* A route of a guard that returns: the guard's hook is before all it had.
LEMMA KeptByGuard ==
    ASSUME NEW around \in Seq(Guards), NEW g \in Guards, NEW r \in Routes, NEW o1, NEW o2,
           o1[r.obj] \in Hooks, Kept(Append(around, g), r, o1),
           NEW hooks \in Hooks, hooks # <<>>, hooks[1] = guardOf[g].hook,
           Wrapped(hooks, o1[r.obj], o2[r.obj])
    PROVE  Kept(around, r, o2)
  <1>1. PICK closed \in Seq(Guards) :
            r.under = Append(around, g) \o closed /\ Within(HooksOf(closed) \o r.own, o1[r.obj])
    BY DEF Kept
  <1> DEFINE closed2 == <<g>> \o closed
             s == HooksOf(closed) \o r.own
             t == o1[r.obj]
             hook == guardOf[g].hook
  <1>2. PICK inner \in Hooks, outer \in Hooks : o2[r.obj] = outer \o (hooks \o (inner \o t))
    BY DEF Wrapped
  <1>3. closed2 \in Seq(Guards) /\ r.under = around \o closed2
    <2>1. <<g>> \in Seq(Guards)
      OBVIOUS
    <2>2. closed2 \in Seq(Guards) /\ (around \o <<g>>) \o closed = around \o closed2
      BY <2>1, ConcatProperties, ConcatAssociative
    <2>3. Append(around, g) = around \o <<g>>
      BY AppendIsConcat
    <2>4. QED
      BY <1>1, <2>2, <2>3
  <1>4. s \in Hooks /\ t \in Hooks /\ Within(s, t) /\ HooksOf(closed) \in Hooks /\ r.own \in Hooks
    BY <1>1, HooksOfGuards, ConcatProperties DEF Routes, Hooks
  <1>5. HooksOf(closed2) = <<hook>> \o HooksOf(closed)
    <2>1. /\ Len(closed) \in Nat /\ Len(closed2) = Len(closed) + 1 /\ closed2[1] = g
          /\ \A i \in 2..Len(closed) + 1 : closed2[i] = closed[i - 1]
      OBVIOUS
    <2> DEFINE a == HooksOf(closed2)
               rest == HooksOf(closed)
    <2>2. /\ a \in Hooks /\ Len(a) = Len(closed) + 1 /\ rest \in Hooks /\ Len(rest) = Len(closed)
          /\ DOMAIN a = 1..Len(closed) + 1 /\ DOMAIN rest = 1..Len(closed)
      BY <1>3, <2>1, HooksOfGuards, LenProperties DEF Hooks
    <2>3. DOMAIN closed2 = 1..Len(closed) + 1 /\ DOMAIN closed = 1..Len(closed)
      BY <1>3, <2>1, LenProperties
    <2>4. \A i \in 1..Len(closed) + 1 : a[i] = guardOf[closed2[i]].hook
      BY <2>3 DEF HooksOf
    <2>5. \A i \in 1..Len(closed) : rest[i] = guardOf[closed[i]].hook
      BY <2>3 DEF HooksOf
    <2> HIDE DEF a, rest, closed2, hook
    <2>6. <<hook>> \in Hooks
      BY <2>1, <2>2, <2>4 DEF Hooks, hook
    <2>7. /\ <<hook>> \o rest \in Hooks /\ Len(<<hook>> \o rest) = Len(closed) + 1
          /\ \A i \in 1..Len(closed) + 1 : (<<hook>> \o rest)[i] = IF i = 1 THEN hook ELSE rest[i - 1]
      BY <2>1, <2>2, <2>6 DEF Hooks
    <2>8. \A i \in 1..Len(closed) + 1 : a[i] = (<<hook>> \o rest)[i]
      <3>1. ASSUME NEW i \in 1..Len(closed) + 1, i # 1 PROVE a[i] = rest[i - 1]
        <4>1. i \in 2..Len(closed) + 1 /\ i - 1 \in 1..Len(closed)
          BY <2>1, <3>1
        <4>2. QED
          BY <2>1, <2>4, <2>5, <4>1
      <3>2. a[1] = hook
        BY <2>1, <2>4 DEF hook
      <3>3. QED
        BY <2>7, <3>1, <3>2
    <2>9. a = <<hook>> \o rest
      <3> DEFINE c == <<hook>> \o rest
      <3>1. c \in Seq(Names) /\ a \in Seq(Names) /\ Len(a) = Len(c) /\ \A i \in 1..Len(a) : a[i] = c[i]
        BY <2>2, <2>7, <2>8 DEF Hooks
      <3> HIDE DEF c
      <3>2. a = c
        BY <3>1, SeqEqual
      <3>3. QED
        BY <3>2 DEF c
    <2>10. QED
      BY <2>9 DEF a, rest
  <1>6. HooksOf(closed2) \o r.own = <<hook>> \o s
    <2> DEFINE rest == HooksOf(closed)
    <2>1. <<hook>> \in Hooks
      <3> HIDE DEF hook
      <3>1. hooks[1] \in Names
        BY DEF Hooks
      <3>2. QED
        BY <3>1 DEF Hooks, hook
    <2>2. rest \in Hooks /\ r.own \in Hooks
      BY <1>4
    <2>3. (<<hook>> \o rest) \o r.own = <<hook>> \o (rest \o r.own)
      <3> HIDE DEF rest, hook
      <3>1. QED
        BY <2>1, <2>2, HooksAssociate, Zenon
    <2>4. QED
      BY <1>5, <2>3 DEF rest
  <1>7. Within(<<hook>> \o s, o2[r.obj])
    <2> HIDE DEF s, t
    <2>1. Within(s, inner \o t) /\ inner \o t \in Hooks
      BY <1>4, WithinLater, ConcatProperties DEF Hooks
    <2>2. Within(<<hook>> \o s, hooks \o (inner \o t))
      <3>1. Within(<<hooks[1]>> \o s, hooks \o (inner \o t))
        BY <1>4, <2>1, WithinBehind
      <3>2. QED
        BY <3>1
    <2>3. <<hook>> \o s \in Hooks /\ hooks \o (inner \o t) \in Hooks
      <3>1. <<hook>> \in Hooks
        <4> HIDE DEF hook
        <4>1. hooks[1] \in Names
          BY DEF Hooks
        <4>2. QED
          BY <4>1 DEF Hooks, hook
      <3> HIDE DEF hook
      <3>2. QED
        BY <1>4, <2>1, <3>1, ConcatProperties DEF Hooks
    <2> HIDE DEF hook
    <2>4. QED
      BY <1>2, <2>2, <2>3, WithinLater
  <1>8. QED
    BY <1>3, <1>6, <1>7 DEF Kept

LEMMA ListOfRoutes ==
    ASSUME NEW n \in Nat, NEW routes, routes = [i \in 1..n |-> routes[i]],
           \A i \in 1..n : routes[i] \in Routes
    PROVE  routes \in Seq(Routes)
  <1>1. routes \in [1..n -> Routes]
    OBVIOUS
  <1>2. QED
    BY <1>1, SeqDef

LEMMA CloseGuardKeeps ==
    ASSUME StackInv, CloseGuard
    PROVE  /\ StackInv' /\ ObjsGrow(objs, objs')
           /\ Len(stack) > 1 /\ Len(stack') = Len(stack) - 1
  <1> DEFINE below == stack[Len(stack) - 1]
             t == Top
             hooks == GuardHooks(t)
             routes == [i \in DOMAIN t.routes |-> GuardSchema(t, t.routes[i])]
  <1>1. t \in Apps /\ Sound(t, lists, objs) /\ t.as = "guard" /\ lists \in Seq(Hooks) /\ objs \in Seq(Hooks)
    BY TopOfStack DEF CloseGuard, StackInv, StackTyped
  <1>2. Len(stack) > 1 /\ below \in Apps /\ t.around = Append(below.around, t.guard)
    BY <1>1, ParentAndChild DEF Inside
  <1>3. t.guard \in Guards /\ hooks \in Hooks /\ hooks # <<>> /\ hooks[1] = guardOf[t.guard].hook
    BY <1>1, GuardHooksFirst
  <1>4. /\ lists' = lists /\ objs' = Guarded(objs, hooks, t.routes)
        /\ stack' = [Front(stack) EXCEPT ![Len(stack) - 1].routes = @ \o routes]
    BY DEF CloseGuard, CloseInto
  <1> HIDE DEF below, hooks, t
  <1>5. /\ t.routes \in Seq(Routes) /\ Len(t.routes) \in Nat /\ DOMAIN t.routes = 1..Len(t.routes)
        /\ \A i \in 1..Len(t.routes) :
             /\ t.routes[i] \in Routes /\ t.routes[i].obj \in 1..Len(objs)
             /\ Kept(t.around, t.routes[i], objs)
    <2>1. t.routes \in Seq(Routes)
      BY <1>1 DEF Apps
    <2>2. /\ Len(t.routes) \in Nat /\ DOMAIN t.routes = 1..Len(t.routes)
          /\ \A i \in 1..Len(t.routes) : t.routes[i] \in Routes
      BY <2>1, LenProperties, ElementOfSeq
    <2>3. QED
      BY <1>1, <2>1, <2>2 DEF Sound, RoutesKept
  <1>6. GuardedSoFar(objs, hooks, t.routes, Len(t.routes), objs')
    BY <1>1, <1>3, <1>4, <1>5, GuardedWraps
  <1>7. ObjsGrow(objs, objs') /\ ListsGrow(lists, lists')
    BY <1>1, <1>4, <1>6, ListsStay, LenProperties DEF GuardedSoFar, ObjsGrow
  <1>8. ASSUME NEW i \in 1..Len(t.routes)
        PROVE  /\ routes[i] \in Routes /\ routes[i].obj \in 1..Len(objs')
               /\ Kept(below.around, routes[i], objs')
    <2> DEFINE r == t.routes[i]
    <2>1. r \in Routes /\ r.obj \in 1..Len(objs) /\ Kept(Append(below.around, t.guard), r, objs)
      BY <1>2, <1>5
    <2>2. Wrapped(hooks, objs[r.obj], objs'[r.obj]) /\ Len(objs') = Len(objs)
      BY <1>6 DEF GuardedSoFar
    <2> HIDE DEF r
    <2>3. objs[r.obj] \in Hooks /\ below.around \in Seq(Guards)
      BY <1>1, <1>2, <2>1, ElementOfSeq DEF Apps
    <2>4. Kept(below.around, r, objs')
      BY <1>3, <2>1, <2>2, <2>3, KeptByGuard
    <2>5. routes[i] = [r EXCEPT !.schema = Merged(r.schema, guardOf[t.guard].schema)]
      BY <1>5 DEF GuardSchema, r
    <2>6. Merged(r.schema, guardOf[t.guard].schema) \in Schemas
      BY <1>3, <2>1, SchemaOfGuards DEF Routes
    <2> HIDE DEF routes
    <2>7. /\ routes[i] \in Routes /\ routes[i].obj = r.obj
          /\ routes[i].under = r.under /\ routes[i].own = r.own
      BY <2>1, <2>5, <2>6 DEF Routes
    <2>8. Kept(below.around, routes[i], objs')
      BY <2>4, <2>7 DEF Kept
    <2>9. QED
      BY <2>1, <2>2, <2>7, <2>8
  <1>9. routes \in Seq(Routes) /\ RoutesKept(below.around, routes, objs')
    <2> DEFINE n == Len(t.routes)
    <2>1. DOMAIN routes = 1..n /\ routes = [i \in 1..n |-> routes[i]] /\ n \in Nat
      BY <1>5
    <2>2. \A i \in 1..n : /\ routes[i] \in Routes /\ routes[i].obj \in 1..Len(objs')
                           /\ Kept(below.around, routes[i], objs')
      BY <1>8
    <2> HIDE DEF routes, n
    <2>4. routes \in Seq(Routes)
      BY <2>1, <2>2, ListOfRoutes
    <2>5. QED
      BY <2>1, <2>2, <2>4 DEF RoutesKept
  <1> HIDE DEF routes
  <1>10. QED
    BY <1>2, <1>4, <1>7, <1>9, TopPopped DEF below

-----------------------------------------------------------------------------
(* Plugins. *)

\* The hooks objects of a plugin that is used, wherever they begin.
LEMMA PluginHeap ==
    ASSUME StackInv, SharedKept, NEW p \in Plugins, use(p)
    PROVE  \E first \in Nat \ {0} :
            /\ objs' = IF first = Len(objs) + 1 THEN objs \o pluginOf[p].routes ELSE objs
            /\ SetTop([mergeRoutes(mergeHooks(Top, lists, p, "scoped").app, PluginRoutes(p, first)) EXCEPT
                         !.applied = @ \cup {pluginKey(p)},
                         !.macros = @ \cup pluginOf[p].macros,
                         !.derives = @ + pluginOf[p].derives,
                         !.decorated = @ \/ pluginOf[p].decorates])
            /\ \A i \in DOMAIN pluginOf[p].routes :
                  /\ first + i - 1 \in 1..Len(objs')
                  /\ Within(pluginOf[p].routes[i], objs'[first + i - 1])
            /\ ObjsGrow(objs, objs')
            /\ SharedKept'
  <1> DEFINE fresh == pluginOf[p].perUse
             first == IF fresh \/ p \notin DOMAIN shared THEN Len(objs) + 1 ELSE shared[p]
             own == pluginOf[p].routes
  <1>1. objs \in Seq(Hooks) /\ Len(objs) \in Nat /\ StackTyped
    BY LenProperties DEF StackInv, StackTyped
  <1>2. /\ own \in Seq(Hooks) /\ Len(own) \in Nat /\ DOMAIN own = 1..Len(own)
        /\ \A i \in DOMAIN own : own[i] \in Hooks
    <2>1. own \in Seq(Seq(STRING))
      BY PluginsAssumption
    <2> HIDE DEF own
    <2>2. own \in Seq(Hooks)
      <3>1. Seq(STRING) \subseteq Hooks
        BY StringsAreNames
      <3>2. QED
        BY <2>1, <3>1, SeqMonotonic
    <2>3. QED
      BY <2>2, LenProperties, ElementOfSeq
  <1>3. /\ objs' = IF first = Len(objs) + 1 THEN objs \o own ELSE objs
        /\ SetTop([mergeRoutes(mergeHooks(Top, lists, p, "scoped").app, PluginRoutes(p, first)) EXCEPT
                     !.applied = @ \cup {pluginKey(p)},
                     !.macros = @ \cup pluginOf[p].macros,
                     !.derives = @ + pluginOf[p].derives,
                     !.decorated = @ \/ pluginOf[p].decorates])
        /\ shared' = IF fresh \/ p \in DOMAIN shared THEN shared
                     ELSE [q \in DOMAIN shared \cup {p} |-> IF q = p THEN first ELSE shared[q]]
    BY DEF use
  <1>4. p \in DOMAIN shared => /\ shared[p] \in Nat \ {0}
                               /\ \A i \in DOMAIN own : /\ shared[p] + i - 1 \in 1..Len(objs)
                                                        /\ Within(own[i], objs[shared[p] + i - 1])
    BY DEF SharedKept
  <1>5. first \in Nat \ {0}
    BY <1>1, <1>4
  <1>6. ObjsGrow(objs, objs')
    BY <1>1, <1>2, <1>3, ObjsAdded, ObjsStay
  <1>7. ASSUME NEW i \in DOMAIN own
        PROVE  first + i - 1 \in 1..Len(objs') /\ Within(own[i], objs'[first + i - 1])
    <2>1. CASE fresh \/ p \notin DOMAIN shared
      <3>1. first = Len(objs) + 1 /\ objs' = objs \o own
        BY <1>3, <2>1
      <3>2. first + i - 1 = Len(objs) + i /\ Len(objs) + i \in 1..Len(objs) + Len(own)
        <4> HIDE DEF first, own
        <4>1. QED
          BY <1>1, <1>2, <3>1
      <3> HIDE DEF first, own
      <3>3. Len(objs') = Len(objs) + Len(own) /\ objs'[Len(objs) + i] = own[i]
        BY <1>1, <1>2, <3>1, <3>2, ConcatProperties
      <3>4. QED
        BY <1>2, <3>2, <3>3, WithinItself
    <2>2. CASE ~(fresh \/ p \notin DOMAIN shared)
      <3>1. /\ first = shared[p] /\ first + i - 1 \in 1..Len(objs)
            /\ Within(own[i], objs[first + i - 1])
        BY <1>4, <2>2
      <3>2. first # Len(objs) + 1
        <4> HIDE DEF first, own
        <4>1. QED
          BY <1>1, <1>2, <1>5, <3>1
      <3>3. objs' = objs
        BY <1>3, <3>2
      <3>4. QED
        BY <3>1, <3>3
    <2>3. QED
      BY <2>1, <2>2
  <1>8. SharedKept'
    <2>1. CASE fresh \/ p \in DOMAIN shared
      BY <1>1, <1>3, <1>6, <2>1, SharedGrows
    <2>2. CASE ~(fresh \/ p \in DOMAIN shared)
      <3> DEFINE new == [q \in DOMAIN shared \cup {p} |-> IF q = p THEN first ELSE shared[q]]
      <3>1. shared' = new
        BY <1>3, <2>2
      <3>2. ASSUME NEW q \in DOMAIN shared
            PROVE  /\ q \in Plugins
                   /\ shared[q] \in Nat \ {0}
                   /\ \A i \in DOMAIN pluginOf[q].routes :
                        /\ shared[q] + i - 1 \in 1..Len(objs')
                        /\ Within(pluginOf[q].routes[i], objs'[shared[q] + i - 1])
        <4>1. q \in Plugins /\ shared[q] \in Nat \ {0}
          BY DEF SharedKept
        <4>2. ASSUME NEW i \in DOMAIN pluginOf[q].routes
              PROVE  /\ shared[q] + i - 1 \in 1..Len(objs')
                     /\ Within(pluginOf[q].routes[i], objs'[shared[q] + i - 1])
          <5> DEFINE n == shared[q] + i - 1
                     hooks == pluginOf[q].routes[i]
          <5>1. n \in 1..Len(objs) /\ Within(hooks, objs[n])
            BY DEF SharedKept
          <5>2. hooks \in Hooks
            <6> DEFINE all == pluginOf[q].routes
            <6>1. all \in Seq(Seq(STRING))
              BY <4>1, PluginsAssumption
            <6> HIDE DEF all
            <6>2. \A j \in DOMAIN all : all[j] \in Seq(STRING)
              BY <6>1, LenProperties, ElementOfSeq
            <6>3. QED
              BY <6>2, StringsAreNames DEF all
          <5> HIDE DEF n, hooks
          <5>3. objs[n] \in Hooks /\ n \in 1..Len(objs')
            BY <1>1, <1>6, <5>1, ElementOfSeq, LenProperties DEF ObjsGrow
          <5>4. PICK more \in Hooks : objs'[n] = more \o objs[n]
            BY <1>6, <5>1 DEF ObjsGrow, Prefixed
          <5>5. Within(hooks, objs'[n])
            BY <5>1, <5>2, <5>3, <5>4, WithinLater
          <5>6. QED
            BY <5>3, <5>5 DEF n, hooks
        <4>3. QED
          BY <4>1, <4>2
      <3>3. ASSUME NEW q \in DOMAIN new
            PROVE  /\ q \in Plugins
                   /\ new[q] \in Nat \ {0}
                   /\ \A i \in DOMAIN pluginOf[q].routes :
                        /\ new[q] + i - 1 \in 1..Len(objs')
                        /\ Within(pluginOf[q].routes[i], objs'[new[q] + i - 1])
        <4>1. CASE q = p
          <5>1. new[q] = first
            BY <4>1
          <5> HIDE DEF first, new
          <5>2. QED
            BY <1>5, <1>7, <4>1, <5>1
        <4>2. CASE q # p
          <5>1. q \in DOMAIN shared /\ new[q] = shared[q]
            BY <4>2
          <5> HIDE DEF new
          <5>2. QED
            BY <3>2, <5>1
        <4>3. QED
          BY <4>1, <4>2
      <3> HIDE DEF new
      <3>4. QED
        BY <3>1, <3>3 DEF SharedKept
    <2>3. QED
      BY <2>1, <2>2
  <1> HIDE DEF first
  <1>9. QED
    BY <1>3, <1>5, <1>6, <1>7, <1>8

\* The routes of a plugin are under all the guards that use() is called in.
LEMMA RoutesOfPlugin ==
    ASSUME NEW app \in Apps, NEW p \in Plugins, NEW first \in Nat \ {0}, NEW heap,
           \A i \in DOMAIN pluginOf[p].routes :
               /\ first + i - 1 \in 1..Len(heap)
               /\ Within(pluginOf[p].routes[i], heap[first + i - 1])
    PROVE  \E routes \in Seq(Routes) :
               /\ mergeRoutes(app, PluginRoutes(p, first)) = [app EXCEPT !.routes = @ \o routes]
               /\ RoutesKept(app.around, routes, heap)
  <1> DEFINE own == pluginOf[p].routes
             brought == PluginRoutes(p, first)
             routes == [i \in DOMAIN brought |-> [brought[i] EXCEPT !.under = app.around \o @]]
             n == Len(own)
  <1>1. n \in Nat /\ DOMAIN own = 1..n /\ \A i \in 1..n : own[i] \in Hooks
    <2>1. own \in Seq(Seq(STRING))
      BY PluginsAssumption
    <2> HIDE DEF own
    <2>2. Len(own) \in Nat /\ DOMAIN own = 1..Len(own) /\ \A i \in 1..Len(own) : own[i] \in Seq(STRING)
      BY <2>1, LenProperties, ElementOfSeq
    <2>3. QED
      BY <2>2, StringsAreNames
  <1>2. app.around \in Seq(Guards) /\ app.around \o <<>> = app.around
    <2>1. app.around \in Seq(Guards)
      BY DEF Apps
    <2>2. QED
      BY <2>1, ConcatEmptySeq
  <1>3. DOMAIN brought = 1..n /\ DOMAIN routes = 1..n /\ routes = [i \in 1..n |-> routes[i]]
    BY <1>1 DEF PluginRoutes
  <1>4. ASSUME NEW i \in 1..n
        PROVE  /\ routes[i] \in Routes /\ routes[i].obj \in 1..Len(heap)
               /\ Kept(app.around, routes[i], heap)
    <2> DEFINE r == routes[i]
    <2>1. r = [path |-> <<p>>, obj |-> first + i - 1, schema |-> <<>>, under |-> app.around,
               own |-> own[i]]
      BY <1>1, <1>2, <1>3 DEF PluginRoutes
    <2>2. own[i] \in Hooks /\ first + i - 1 \in 1..Len(heap) /\ Within(own[i], heap[first + i - 1])
      BY <1>1
    <2>3. <<p>> \in Paths
      BY DEF Paths
    <2>4. <<>> \in Schemas
      <3>1. <<>> \in [{} -> STRING]
        OBVIOUS
      <3>2. QED
        BY <3>1 DEF Schemas
    <2> HIDE DEF routes, own
    <2>5. first + i - 1 \in Nat \ {0}
      BY <1>1
    <2>6. r \in Routes
      BY <1>2, <2>1, <2>2, <2>3, <2>4, <2>5 DEF Routes
    <2>7. r.under = app.around /\ r.own \in Hooks /\ Within(r.own, heap[r.obj]) /\ r.obj \in 1..Len(heap)
      BY <2>1, <2>2
    <2> HIDE DEF r
    <2>8. Kept(app.around, r, heap)
      BY <1>2, <2>7, KeptAtFirst
    <2>9. QED
      BY <2>6, <2>7, <2>8 DEF r
  <1>5. mergeRoutes(app, brought) = [app EXCEPT !.routes = @ \o routes]
    BY DEF mergeRoutes
  <1> HIDE DEF routes, brought, n, own
  <1>6. routes \in Seq(Routes)
    BY <1>1, <1>3, <1>4, ListOfRoutes
  <1>7. RoutesKept(app.around, routes, heap)
    BY <1>3, <1>4 DEF RoutesKept
  <1>8. QED
    BY <1>5, <1>6, <1>7 DEF brought

\* What use() sets besides the hooks and the routes.
Settled(app, p) == [app EXCEPT !.applied = @ \cup {pluginKey(p)},
                               !.macros = @ \cup pluginOf[p].macros,
                               !.derives = @ + pluginOf[p].derives,
                               !.decorated = @ \/ pluginOf[p].decorates]
LEMMA SoundWithSettings ==
    ASSUME NEW app \in Apps, NEW l, NEW o, Sound(app, l, o), NEW p \in Plugins
    PROVE  /\ Settled(app, p) \in Apps /\ Sound(Settled(app, p), l, o)
           /\ Settled(app, p).as = app.as /\ Settled(app, p).guard = app.guard
           /\ Settled(app, p).around = app.around
  <1> DEFINE new == Settled(app, p)
  <1>1. /\ app.applied \cup {pluginKey(p)} \in SUBSET {pluginKey(q) : q \in Plugins}
        /\ app.macros \cup pluginOf[p].macros \in SUBSET Macros
        /\ app.derives + pluginOf[p].derives \in Nat
    BY PluginsAssumption DEF Apps
  <1>2. (app.decorated \/ pluginOf[p].decorates) \in BOOLEAN
    BY Zenon
  <1>3. new \in Apps
    <2> DEFINE base == [app EXCEPT !.decorated = app.decorated \/ pluginOf[p].decorates]
    <2>1. base \in Apps
      BY <1>2 DEF Apps
    <2>2. /\ new = [base EXCEPT !.applied = app.applied \cup {pluginKey(p)},
                                !.macros = app.macros \cup pluginOf[p].macros,
                                !.derives = app.derives + pluginOf[p].derives]
      BY DEF Apps, Settled
    <2> HIDE DEF base
    <2>3. QED
      BY <1>1, <2>1, <2>2 DEF Apps
  <1>4. /\ new.as = app.as /\ new.guard = app.guard /\ new.around = app.around
        /\ new.given = app.given /\ new.routes = app.routes /\ new.hooks = app.hooks
    BY DEF Apps, Settled
  <1>5. Sound(new, l, o)
    BY <1>4 DEF Sound, HooksBelow, Given1
  <1>6. QED
    BY <1>3, <1>4, <1>5

LEMMA UseKeeps ==
    ASSUME StackInv, SharedKept, NEW p \in Plugins, use(p)
    PROVE  /\ StackInv' /\ SharedKept' /\ ObjsGrow(objs, objs')
           /\ Len(stack') = Len(stack)
  <1> DEFINE hooked == mergeHooks(Top, lists, p, "scoped")
  <1>1. /\ Top \in Apps /\ Sound(Top, lists, objs)
        /\ lists \in Seq(Hooks) /\ objs \in Seq(Hooks)
    BY TopOfStack DEF StackInv, StackTyped
  <1>2. HooksAdded(Top, lists, hooked)
    BY <1>1, PluginHooksAdded DEF Sound
  <1>3. lists' = hooked.heap
    BY DEF use
  <1> HIDE DEF hooked
  <1>4. PICK first \in Nat \ {0} :
          /\ SetTop([mergeRoutes(hooked.app, PluginRoutes(p, first)) EXCEPT
                       !.applied = @ \cup {pluginKey(p)},
                       !.macros = @ \cup pluginOf[p].macros,
                       !.derives = @ + pluginOf[p].derives,
                       !.decorated = @ \/ pluginOf[p].decorates])
          /\ \A i \in DOMAIN pluginOf[p].routes :
                /\ first + i - 1 \in 1..Len(objs')
                /\ Within(pluginOf[p].routes[i], objs'[first + i - 1])
          /\ ObjsGrow(objs, objs')
          /\ SharedKept'
    BY PluginHeap DEF hooked
  <1>5. ListsGrow(lists, lists') /\ HooksBelow(hooked.app, lists')
    BY <1>2, <1>3 DEF HooksAdded
  <1>6. /\ hooked.app \in Apps
        /\ hooked.app.as = Top.as /\ hooked.app.guard = Top.guard /\ hooked.app.around = Top.around
        /\ hooked.app.given = Top.given /\ hooked.app.routes = Top.routes
    <2>1. PICK hooks \in [HookKinds -> Nat] : hooked.app = [Top EXCEPT !.hooks = hooks]
      BY <1>2 DEF HooksAdded
    <2>2. QED
      BY <1>1, <2>1 DEF Apps
  <1>7. Sound(hooked.app, lists', objs')
    <2>1. Sound(Top, lists', objs')
      BY <1>1, <1>4, <1>5, SoundGrows
    <2>2. QED
      BY <1>5, <1>6, <2>1 DEF Sound, Given1
  <1>8. PICK routes \in Seq(Routes) :
          /\ mergeRoutes(hooked.app, PluginRoutes(p, first)) = [hooked.app EXCEPT !.routes = @ \o routes]
          /\ RoutesKept(hooked.app.around, routes, objs')
    BY <1>4, <1>6, RoutesOfPlugin
  <1> DEFINE merged == [hooked.app EXCEPT !.routes = @ \o routes]
             new == Settled(merged, p)
  <1>9. merged \in Apps /\ Sound(merged, lists', objs')
    BY <1>6, <1>7, <1>8, SoundWithRoutes
  <1>10. merged.as = Top.as /\ merged.guard = Top.guard /\ merged.around = Top.around
    BY <1>6 DEF Apps
  <1>11. SetTop(new)
    BY <1>4, <1>8 DEF Settled
  <1> HIDE DEF merged
  <1>12. /\ new \in Apps /\ Sound(new, lists', objs')
         /\ new.as = Top.as /\ new.guard = Top.guard /\ new.around = Top.around
    BY <1>9, <1>10, SoundWithSettings
  <1> HIDE DEF new
  <1>13. QED
    BY <1>4, <1>5, <1>11, <1>12, TopChanges

-----------------------------------------------------------------------------
(* Every step, and the type of what is served. *)

\* What is frozen for requests, of an application that is sound.
LEMMA ServedSnapshot ==
    ASSUME StackInv, ServedTyped
    PROVE  Served(stack[1]) \in Snapshots
  <1> DEFINE app == stack[1]
             n == Len(app.routes)
             frozen(r) == [path |-> r.path, local |-> objs[r.obj], schema |-> r.schema]
             routes == [i \in DOMAIN app.routes |-> frozen(app.routes[i])]
  <1>1. /\ app \in Apps /\ Sound(app, lists, objs)
        /\ lists \in Seq(Hooks) /\ objs \in Seq(Hooks)
    BY TopOfStack DEF StackInv, StackTyped
  <1>2. HooksIn(app, lists) \in [HookKinds -> Hooks]
    BY <1>1, HooksTyped DEF Sound
  <1>3. app.routes \in Seq(Routes) /\ app.derives \in Nat /\ app.decorated \in BOOLEAN
    BY <1>1 DEF Apps
  <1> HIDE DEF app
  <1>4. /\ n \in Nat /\ DOMAIN app.routes = 1..n
        /\ \A i \in 1..n : app.routes[i] \in Routes /\ app.routes[i].obj \in 1..Len(objs)
    BY <1>1, <1>3, LenProperties, ElementOfSeq DEF Sound, RoutesKept
  <1>5. \A i \in 1..n : routes[i] \in ServedRoutes
    <2>1. \A i \in 1..Len(objs) : objs[i] \in Hooks
      BY <1>1, ElementOfSeq
    <2>2. QED
      BY <1>4, <2>1 DEF Routes, ServedRoutes
  <1>6. routes \in [1..n -> ServedRoutes]
    BY <1>4, <1>5
  <1>7. Served(app) = [hooks |-> HooksIn(app, lists), derives |-> app.derives,
                       decorated |-> app.decorated, limit |-> bodyLimit, routes |-> routes]
    BY DEF Served
  <1> HIDE DEF n, routes
  <1>8. routes \in Seq(ServedRoutes)
    BY <1>4, <1>6, SeqDef
  <1>9. Served(app) \in Snapshots
    BY <1>2, <1>3, <1>7, <1>8 DEF ServedTyped, Snapshots
  <1>10. QED
    BY <1>9 DEF app

LEMMA RegistryTyped ==
    ASSUME NEW s \in Snapshots
    PROVE  RegistryOf(s) \in Seq(Paths)
  <1> DEFINE routes == s.routes
             n == Len(routes)
             paths == [i \in DOMAIN routes |-> routes[i].path]
  <1>1. routes \in Seq(ServedRoutes)
    BY DEF Snapshots
  <1>2. RegistryOf(s) = paths
    BY DEF RegistryOf
  <1> HIDE DEF routes
  <1>3. n \in Nat /\ DOMAIN routes = 1..n /\ \A i \in 1..n : routes[i] \in ServedRoutes
    BY <1>1, LenProperties, ElementOfSeq
  <1>4. paths \in [1..n -> Paths]
    BY <1>3 DEF ServedRoutes
  <1> HIDE DEF n, paths
  <1>5. QED
    BY <1>2, <1>3, <1>4, SeqDef

LEMMA InitInv == Init => BuilderInv
  <1> SUFFICES ASSUME Init PROVE BuilderInv
    OBVIOUS
  <1> DEFINE app == Application("app", <<>>, <<>>)
  <1>1. app \in Apps
    <2>1. <<>> \in Paths /\ <<>> \in Seq(Guards) /\ <<>> \in Seq(Routes)
      BY DEF Paths
    <2>2. NoHooks \in [HookKinds -> Nat]
      BY DEF NoHooks
    <2>3. QED
      BY <2>1, <2>2 DEF Application, Apps
  <1>2. stack = <<app>> /\ stack \in Seq(Apps) /\ Len(stack) = 1 /\ stack[1] = app
    <2>1. stack = <<app>>
      BY DEF Init
    <2> HIDE DEF app
    <2>2. QED
      BY <1>1, <2>1
  <1>3. app.as = "app" /\ app.around = <<>> /\ app.routes = <<>> /\ app.hooks = NoHooks
    BY DEF Application
  <1>4. StackTyped
    <2>1. <<>> \in Seq(Hooks)
      OBVIOUS
    <2> HIDE DEF app
    <2>2. QED
      BY <1>2, <2>1 DEF Init, StackTyped
  <1>5. Sound(app, lists, objs)
    BY <1>3 DEF Sound, HooksBelow, RoutesKept, NoHooks, Init
  <1> HIDE DEF app
  <1>6. AllSound /\ Nested
    BY <1>2, <1>3, <1>5 DEF AllSound, Nested
  <1>7. SharedKept
    BY DEF Init, SharedKept
  <1>8. ServedTyped
    BY BuilderBounds DEF Init, ServedTyped
  <1>9. QED
    BY <1>4, <1>6, <1>7, <1>8 DEF BuilderInv, StackInv

\* The calls that touch neither the stack nor the heaps.
LEMMA NothingBuilt ==
    ASSUME StackInv, SharedKept, UNCHANGED <<stack, lists, objs, shared>>
    PROVE  StackInv' /\ SharedKept'
  BY DEF StackInv, StackTyped, AllSound, Nested, SharedKept, Sound, HooksBelow, Given1, RoutesKept,
         Kept

LEMMA OwnHooks == {<<>>, <<"own">>} \subseteq Hooks
  <1>1. "own" \in Names
    BY DEF Names
  <1>2. <<>> \in Seq(Names) /\ <<"own">> \in Seq(Names)
    BY <1>1
  <1>3. QED
    BY <1>2 DEF Hooks

LEMMA StepKeeps == StackInv /\ SharedKept /\ [Next]_vars => StackInv' /\ SharedKept'
  <1> SUFFICES ASSUME StackInv, SharedKept, [Next]_vars
               PROVE  StackInv' /\ SharedKept'
    OBVIOUS
  <1> USE DEF StackInv
  <1>1. ASSUME NEW flags \in SUBSET Macros, NEW own \in {<<>>, <<"own">>}, register(flags, own)
        PROVE  StackInv' /\ SharedKept'
    <2>1. own \in Hooks
      BY OwnHooks
    <2>2. StackInv' /\ ObjsGrow(objs, objs')
      BY <1>1, <2>1, RegisterKeeps
    <2>3. shared' = shared
      BY <1>1 DEF register
    <2>4. QED
      BY <2>2, <2>3, SharedGrows
  <1>2. ASSUME NEW kind \in HookKinds, on(kind)
        PROVE  StackInv' /\ SharedKept'
    <2>1. shared' = shared
      BY <1>2 DEF on
    <2>2. QED
      BY <1>2, <2>1, OnKeeps, SharedGrows
  <1>3. ASSUME derive \/ decorate \/ \E m \in Macros : macro(m)
        PROVE  StackInv' /\ SharedKept'
    <2>1. shared' = shared
      BY <1>3 DEF derive, decorate, macro
    <2>2. QED
      BY <1>3, <2>1, SettingsKeep, SharedGrows
  <1>4. CASE OpenGroup
    <2>1. shared' = shared
      BY <1>4 DEF OpenGroup
    <2>2. QED
      BY <1>4, <2>1, OpenGroupKeeps, SharedGrows
  <1>5. CASE CloseGroup
    <2>1. shared' = shared
      BY <1>5 DEF CloseGroup, CloseInto
    <2>2. QED
      BY <1>5, <2>1, CloseGroupKeeps, SharedGrows
  <1>6. ASSUME NEW g \in Guards, OpenGuard(g)
        PROVE  StackInv' /\ SharedKept'
    <2>1. shared' = shared
      BY <1>6 DEF OpenGuard
    <2>2. QED
      BY <1>6, <2>1, OpenGuardKeeps, SharedGrows
  <1>7. CASE CloseGuard
    <2>1. shared' = shared
      BY <1>7 DEF CloseGuard, CloseInto
    <2>2. QED
      BY <1>7, <2>1, CloseGuardKeeps, SharedGrows
  <1>8. ASSUME NEW p \in Plugins, use(p)
        PROVE  StackInv' /\ SharedKept'
    BY <1>8, UseKeeps
  <1>9. ASSUME NEW p \in Plugins, UseAgain(p)
        PROVE  StackInv' /\ SharedKept'
    BY <1>9, NothingBuilt DEF UseAgain
  <1>10. CASE handle
    BY <1>10, NothingBuilt DEF handle
  <1>11. ASSUME NEW limit \in Limits, listen(limit)
         PROVE  StackInv' /\ SharedKept'
    BY <1>11, NothingBuilt DEF listen
  <1>12. CASE stop \/ reload
    BY <1>12, NothingBuilt DEF stop, reload
  <1>13. CASE UNCHANGED vars
    BY <1>13, NothingBuilt DEF vars
  <1>14. QED
    BY <1>1, <1>2, <1>3, <1>4, <1>5, <1>6, <1>7, <1>8, <1>9, <1>10, <1>11, <1>12, <1>13 DEF Next

LEMMA StepServes == BuilderInv /\ [Next]_vars => ServedTyped'
  <1> SUFFICES ASSUME BuilderInv, [Next]_vars
               PROVE  ServedTyped'
    OBVIOUS
  <1>1. ServedTyped /\ Served(stack[1]) \in Snapshots
    BY ServedSnapshot DEF BuilderInv
  <1>2. Compile \in Snapshots
    BY <1>1 DEF Compile, ServedTyped
  <1> DEFINE Snaps == {None, Compile, Served(stack[1])}
  <1>3. /\ compiled' \in {compiled} \cup Snaps /\ server' \in {server} \cup Snaps
        /\ registry' \in {registry, RegistryOf(Compile), RegistryOf(Served(stack[1]))}
        /\ bodyLimit' \in {bodyLimit} \cup Limits
    <2>1. ASSUME NEW flags \in SUBSET Macros, NEW own \in {<<>>, <<"own">>}, register(flags, own)
          PROVE  compiled' \in {compiled, None} /\ UNCHANGED <<server, registry, bodyLimit>>
      BY <2>1 DEF register
    <2>2. ASSUME NEW kind \in HookKinds, on(kind)
          PROVE  UNCHANGED <<compiled, server, registry, bodyLimit>>
      BY <2>2 DEF on
    <2>3. CASE derive \/ decorate \/ \E m \in Macros : macro(m)
      BY <2>3 DEF derive, decorate, macro
    <2>4. CASE OpenGroup \/ \E g \in Guards : OpenGuard(g)
      BY <2>4 DEF OpenGroup, OpenGuard
    <2>5. CASE CloseGroup \/ CloseGuard
      BY <2>5 DEF CloseGroup, CloseGuard, CloseInto
    <2>6. ASSUME NEW p \in Plugins, use(p) \/ UseAgain(p)
          PROVE  compiled' \in {compiled, None} /\ UNCHANGED <<server, registry, bodyLimit>>
      BY <2>6 DEF use, UseAgain
    <2>7. CASE handle \/ stop \/ reload
      BY <2>7 DEF handle, stop, reload
    <2>8. ASSUME NEW limit \in Limits, listen(limit)
          PROVE  /\ compiled' = Compile /\ server' = Compile /\ bodyLimit' \in Limits
                 /\ registry' \in {registry, RegistryOf(Compile)}
      BY <2>8 DEF listen
    <2>9. CASE UNCHANGED vars
      BY <2>9 DEF vars
    <2>10. QED
      BY <2>1, <2>2, <2>3, <2>4, <2>5, <2>6, <2>7, <2>8, <2>9 DEF Next
  <1>4. Calls \/ calls' = calls
    BY DEF Next, register, on, derive, decorate, macro, OpenGroup, OpenGuard, CloseGroup, CloseGuard,
       CloseInto, use, UseAgain, handle, listen, stop, reload, vars
  <1>5. calls' \in 0..MaxCalls
    BY <1>1, <1>4, BuilderBounds DEF Calls, ServedTyped
  <1>6. RegistryOf(Compile) \in Seq(Paths) /\ RegistryOf(Served(stack[1])) \in Seq(Paths)
    BY <1>1, <1>2, RegistryTyped
  <1>7. QED
    BY <1>1, <1>2, <1>3, <1>5, <1>6 DEF ServedTyped

\* Every application that can be built is sound, at every depth of callbacks.
THEOREM BuilderStaysSound == Spec => []BuilderInv
  <1>1. BuilderInv /\ [Next]_vars => BuilderInv'
    BY StepKeeps, StepServes DEF BuilderInv
  <1>2. QED
    BY InitInv, <1>1, PTL DEF Spec

THEOREM BuilderTypeOK == Spec => []TypeOK
  <1>1. BuilderInv => TypeOK
    BY DEF BuilderInv, StackInv, TypeOK
  <1>2. QED
    BY BuilderStaysSound, <1>1, PTL

-----------------------------------------------------------------------------
(* Guards. *)

\* The outermost application is in no callback, so that all the guards a route
\* of it is under have returned.
LEMMA GuardsHaveReturned == StackInv => GuardsKeepTheirRoutes
  <1> SUFFICES ASSUME StackInv, NEW r \in ToSet(stack[1].routes)
               PROVE  Within([i \in DOMAIN r.under |-> guardOf[r.under[i]].hook] \o r.own, objs[r.obj])
    BY DEF GuardsKeepTheirRoutes
  <1>1. stack[1] \in Apps /\ Sound(stack[1], lists, objs) /\ stack[1].around = <<>>
    BY TopOfStack DEF StackInv, Nested
  <1>2. PICK i \in DOMAIN stack[1].routes : r = stack[1].routes[i]
    BY DEF ToSet
  <1>3. Kept(<<>>, r, objs)
    BY <1>1, <1>2 DEF Sound, RoutesKept
  <1>4. PICK closed \in Seq(Guards) :
          r.under = <<>> \o closed /\ Within(HooksOf(closed) \o r.own, objs[r.obj])
    BY <1>3 DEF Kept
  <1>5. r.under = closed
    BY <1>4, ConcatEmptySeq
  <1>6. QED
    BY <1>4, <1>5 DEF HooksOf

\* A route registered in the callback of a guard keeps the hooks of every guard
\* around it, outermost first and before its own, whatever plugins, groups and
\* guards come between them and whenever the callbacks return.
THEOREM GuardsKeepRoutes == Spec => []GuardsKeepTheirRoutes
  <1>1. BuilderInv => GuardsKeepTheirRoutes
    BY GuardsHaveReturned DEF BuilderInv
  <1>2. QED
    BY BuilderStaysSound, <1>1, PTL

-----------------------------------------------------------------------------
(* What requests are served with, between two calls. *)

LEMMA PrefixOf ==
    ASSUME NEW s \in Hooks, NEW t \in Hooks
    PROVE  IsPrefix(s, t) <=> Len(s) <= Len(t) /\ \A i \in 1..Len(s) : s[i] = t[i]
  <1>1. /\ Len(s) \in Nat /\ Len(t) \in Nat
        /\ \A i \in 1..Len(s) : s[i] \in Names
        /\ \A i \in 1..Len(t) : t[i] \in Names
    BY LenProperties, ElementOfSeq DEF Hooks
  <1>2. CASE Len(s) <= Len(t)
    <2> DEFINE n == Len(s)
               a == SubSeq(s, 1, n)
               b == SubSeq(t, 1, n)
    <2>1. /\ a \in Seq(Names) /\ Len(a) = n /\ \A i \in 1..n : a[i] = s[i]
          /\ b \in Seq(Names) /\ Len(b) = n /\ \A i \in 1..n : b[i] = t[i]
      <3>1. \A i \in 1..n : s[i] \in Names /\ t[i] \in Names
        BY <1>1, <1>2
      <3>2. /\ a \in Seq(Names) /\ Len(a) = IF 1 <= n THEN n - 1 + 1 ELSE 0
            /\ \A i \in 1..n - 1 + 1 : a[i] = s[1 + i - 1]
        BY <1>1, <3>1, SubSeqProperties
      <3>3. /\ b \in Seq(Names) /\ Len(b) = IF 1 <= n THEN n - 1 + 1 ELSE 0
            /\ \A i \in 1..n - 1 + 1 : b[i] = t[1 + i - 1]
        BY <1>1, <3>1, SubSeqProperties
      <3> HIDE DEF a, b
      <3>4. QED
        BY <1>1, <3>2, <3>3
    <2>2. IsPrefix(s, t) <=> a = b
      BY <1>2 DEF IsPrefix
    <2> HIDE DEF a, b
    <2>3. a = b <=> \A i \in 1..n : a[i] = b[i]
      BY <1>1, <2>1, SeqEqual
    <2>4. QED
      BY <1>2, <2>1, <2>2, <2>3
  <1>3. CASE ~(Len(s) <= Len(t))
    BY <1>3 DEF IsPrefix
  <1>4. QED
    BY <1>2, <1>3

LEMMA PrefixExtended ==
    ASSUME NEW s \in Hooks, NEW t \in Hooks, NEW u, IsPrefix(s, t), Extended(t, u)
    PROVE  IsPrefix(s, u)
  <1>1. PICK more \in Hooks : u = t \o more
    BY DEF Extended
  <1>2. /\ u \in Hooks /\ Len(u) = Len(t) + Len(more)
        /\ \A i \in 1..Len(t) : u[i] = t[i]
    BY <1>1, ConcatProperties DEF Hooks
  <1>3. Len(s) \in Nat /\ Len(t) \in Nat /\ Len(more) \in Nat
    BY LenProperties DEF Hooks
  <1>4. Len(s) <= Len(t) /\ \A i \in 1..Len(s) : s[i] = t[i]
    BY PrefixOf
  <1>5. Len(s) <= Len(u) /\ \A i \in 1..Len(s) : s[i] = u[i]
    BY <1>2, <1>3, <1>4
  <1>6. QED
    BY <1>2, <1>5, PrefixOf

LEMMA PrefixOfItself ==
    ASSUME NEW s \in Hooks
    PROVE  IsPrefix(s, s)
  BY LenProperties, PrefixOf DEF Hooks

\* The parts of a snapshot that the property compares.
FrozenRoutes(routes, heap) ==
    [i \in DOMAIN routes |->
        [path |-> routes[i].path, local |-> heap[routes[i].obj], schema |-> routes[i].schema]]

LEMMA ServedParts ==
    ASSUME NEW app
    PROVE  /\ Served(app).routes = FrozenRoutes(app.routes, objs)
           /\ Served(app).hooks = HooksIn(app, lists)
  BY DEF Served, FrozenRoutes

\* The same, of a snapshot made in the next state.
LEMMA ServedPartsNext ==
    /\ Served(stack[1])'.routes = FrozenRoutes(stack'[1].routes, objs')
    /\ Served(stack[1])'.hooks = HooksIn(stack'[1], lists')
  BY DEF Served, FrozenRoutes

\* While the routes stay and hooks are only added, what is served stays current.
LEMMA CurrentStays ==
    ASSUME BuilderInv, ServedIsCurrent, ~Building, compiled' = compiled, registry' = registry,
           stack'[1].routes = stack[1].routes, objs' = objs,
           KindsExtended(stack[1], lists, [app |-> stack'[1], heap |-> lists'])
    PROVE  ServedIsCurrent'
  <1> SUFFICES ASSUME compiled # None
               PROVE  LET now == Served(stack[1])'
                      IN  /\ compiled.routes = now.routes
                          /\ \A k \in HookKinds : IsPrefix(compiled.hooks[k], now.hooks[k])
                          /\ registry = RegistryOf(compiled)
    BY DEF ServedIsCurrent
  <1>1. /\ compiled.routes = Served(stack[1]).routes
        /\ \A k \in HookKinds : IsPrefix(compiled.hooks[k], Served(stack[1]).hooks[k])
        /\ registry = RegistryOf(compiled)
    BY DEF ServedIsCurrent
  <1>2. compiled.hooks \in [HookKinds -> Hooks]
    BY DEF BuilderInv, ServedTyped, Snapshots
  <1>3. HooksIn(stack[1], lists) \in [HookKinds -> Hooks]
    <2>1. StackInv
      BY DEF BuilderInv
    <2>2. QED
      BY <2>1, TopOfStack, HooksTyped DEF StackInv, StackTyped, Sound
  <1>4. Served(stack[1])'.routes = Served(stack[1]).routes
    BY ServedParts, ServedPartsNext
  <1>5. ASSUME NEW k \in HookKinds
        PROVE  IsPrefix(compiled.hooks[k], HooksIn(stack'[1], lists')[k])
    <2>1. Extended(HooksIn(stack[1], lists)[k], HooksIn(stack'[1], lists')[k])
      BY DEF KindsExtended
    <2>2. IsPrefix(compiled.hooks[k], HooksIn(stack[1], lists)[k])
      BY <1>1, ServedParts
    <2>3. QED
      BY <1>2, <1>3, <2>1, <2>2, PrefixExtended
  <1>6. QED
    BY <1>1, <1>4, <1>5, ServedPartsNext

LEMMA HooksStay ==
    ASSUME NEW app \in Apps, NEW heap \in Seq(Hooks), HooksBelow(app, heap), NEW app1,
           app1.hooks = app.hooks
    PROVE  KindsExtended(app, heap, [app |-> app1, heap |-> heap])
  <1>1. HooksIn(app1, heap) = HooksIn(app, heap)
    BY DEF HooksIn
  <1>2. \A k \in HookKinds : HooksIn(app, heap)[k] \in Hooks
    BY HooksTyped
  <1>3. QED
    BY <1>1, <1>2, ExtendedItself DEF KindsExtended

\* A compile makes it current.
LEMMA CurrentMade ==
    ASSUME BuilderInv, UNCHANGED <<stack, lists, objs>>,
           compiled' = Served(stack[1]), registry' = RegistryOf(Served(stack[1]))
    PROVE  ServedIsCurrent'
  <1>1. HooksIn(stack[1], lists) \in [HookKinds -> Hooks]
    <2>1. StackInv
      BY DEF BuilderInv
    <2>2. QED
      BY <2>1, TopOfStack, HooksTyped DEF StackInv, StackTyped, Sound
  <1>2. /\ Served(stack[1])'.routes = Served(stack[1]).routes
        /\ Served(stack[1])'.hooks = Served(stack[1]).hooks
        /\ Served(stack[1]).hooks = HooksIn(stack[1], lists)
    BY ServedParts, ServedPartsNext
  <1>3. \A k \in HookKinds : IsPrefix(Served(stack[1]).hooks[k], Served(stack[1])'.hooks[k])
    BY <1>1, <1>2, PrefixOfItself
  <1>4. QED
    BY <1>2, <1>3 DEF ServedIsCurrent

LEMMA StepKeepsCurrent == BuilderInv /\ ServedIsCurrent /\ [Next]_vars => ServedIsCurrent'
  <1> SUFFICES ASSUME BuilderInv, ServedIsCurrent, [Next]_vars
               PROVE  ServedIsCurrent'
    OBVIOUS
  <1>1. /\ StackInv /\ SharedKept
        /\ stack[1] \in Apps /\ HooksBelow(stack[1], lists) /\ lists \in Seq(Hooks)
        /\ Len(stack) \in Nat \ {0}
    <2>1. StackInv /\ SharedKept
      BY DEF BuilderInv
    <2>2. QED
      BY <2>1, TopOfStack DEF StackInv, StackTyped, Sound
  \* Routes, hooks of routes: reset, unless a callback goes on.
  <1>2. ASSUME Len(stack') = Len(stack), compiled' = IF Len(stack) = 1 THEN None ELSE compiled
        PROVE  ServedIsCurrent'
    BY <1>1, <1>2 DEF ServedIsCurrent, Building
  <1>3. ASSUME Len(stack) > 1, Len(stack') = Len(stack) - 1,
               compiled' = IF Len(stack) = 2 THEN None ELSE compiled
        PROVE  ServedIsCurrent'
    BY <1>1, <1>3 DEF ServedIsCurrent, Building
  <1>4. ASSUME Len(stack') > 1
        PROVE  ServedIsCurrent'
    BY <1>4 DEF ServedIsCurrent, Building
  \* Calls that change the application at the top, if anything.
  <1>5. ASSUME Len(stack') = Len(stack), compiled' = compiled, registry' = registry, objs' = objs,
               Top'.routes = Top.routes,
               KindsExtended(Top, lists, [app |-> Top', heap |-> lists'])
        PROVE  ServedIsCurrent'
    <2>1. CASE Len(stack) = 1
      <3>1. Top = stack[1] /\ Top' = stack'[1] /\ ~Building
        BY <1>5, <2>1 DEF Top, Building
      <3>2. QED
        BY <1>5, <3>1, CurrentStays
    <2>2. CASE Len(stack) # 1
      BY <1>1, <1>4, <1>5, <2>2
    <2>3. QED
      BY <2>1, <2>2
  <1>6. ASSUME compiled' = compiled, registry' = registry, UNCHANGED <<stack, lists, objs>>
        PROVE  ServedIsCurrent'
    <2>1. Top \in Apps /\ HooksBelow(Top, lists) /\ Top' = Top /\ Len(stack') = Len(stack)
      BY <1>1, <1>6, TopOfStack DEF Top, Sound
    <2>2. KindsExtended(Top, lists, [app |-> Top', heap |-> lists'])
      BY <1>1, <1>6, <2>1, HooksStay
    <2>3. QED
      BY <1>5, <1>6, <2>1, <2>2
  <1>7. ASSUME UNCHANGED <<stack, lists, objs>>, compiled' = Compile,
               registry' = IF compiled = None THEN RegistryOf(Compile) ELSE registry
        PROVE  ServedIsCurrent'
    <2>1. CASE compiled = None
      <3>1. Compile = Served(stack[1])
        BY <2>1 DEF Compile
      <3>2. QED
        BY <1>7, <2>1, <3>1, CurrentMade
    <2>2. CASE compiled # None
      <3>1. compiled' = compiled /\ registry' = registry
        BY <1>7, <2>2 DEF Compile
      <3>2. QED
        BY <1>6, <1>7, <3>1
    <2>3. QED
      BY <2>1, <2>2
  <1>8. ASSUME NEW flags \in SUBSET Macros, NEW own \in {<<>>, <<"own">>}, register(flags, own)
        PROVE  ServedIsCurrent'
    BY <1>1, <1>2, <1>8, OwnHooks, RegisterKeeps DEF register
  <1>9. ASSUME NEW kind \in HookKinds, on(kind)
        PROVE  ServedIsCurrent'
    <2>1. compiled' = compiled /\ registry' = registry /\ objs' = objs
      BY <1>9 DEF on
    <2>2. QED
      BY <1>1, <1>5, <1>9, <2>1, OnKeeps
  <1>10. ASSUME derive \/ decorate \/ \E m \in Macros : macro(m)
         PROVE  ServedIsCurrent'
    <2>1. compiled' = compiled /\ registry' = registry /\ objs' = objs /\ lists' = lists
      BY <1>10 DEF derive, decorate, macro
    <2>2. Len(stack') = Len(stack) /\ Top'.routes = Top.routes /\ Top'.hooks = Top.hooks
      BY <1>1, <1>10, SettingsKeep
    <2>3. Top \in Apps /\ HooksBelow(Top, lists)
      BY <1>1, TopOfStack DEF Sound
    <2>4. KindsExtended(Top, lists, [app |-> Top', heap |-> lists'])
      BY <1>1, <2>1, <2>2, <2>3, HooksStay
    <2>5. QED
      BY <1>5, <2>1, <2>2, <2>4
  <1>11. CASE OpenGroup
    BY <1>1, <1>4, <1>11, OpenGroupKeeps
  <1>12. ASSUME NEW g \in Guards, OpenGuard(g)
         PROVE  ServedIsCurrent'
    BY <1>1, <1>4, <1>12, OpenGuardKeeps
  <1>13. CASE CloseGroup
    BY <1>1, <1>3, <1>13, CloseGroupKeeps DEF CloseGroup, CloseInto
  <1>14. CASE CloseGuard
    BY <1>1, <1>3, <1>14, CloseGuardKeeps DEF CloseGuard, CloseInto
  <1>15. ASSUME NEW p \in Plugins, use(p)
         PROVE  ServedIsCurrent'
    <2>1. compiled' = IF Len(stack) = 1 THEN None ELSE compiled
      BY <1>15 DEF use
    <2>2. QED
      BY <1>1, <1>2, <1>15, <2>1, UseKeeps
  <1>16. ASSUME NEW p \in Plugins, UseAgain(p)
         PROVE  ServedIsCurrent'
    BY <1>6, <1>16 DEF UseAgain
  <1>17. CASE handle
    BY <1>7, <1>17 DEF handle
  <1>18. ASSUME NEW limit \in Limits, listen(limit)
         PROVE  ServedIsCurrent'
    BY <1>7, <1>18 DEF listen
  <1>19. CASE stop
    BY <1>6, <1>19 DEF stop
  <1>20. CASE reload
    BY <1>20, CurrentMade DEF reload
  <1>21. CASE UNCHANGED vars
    BY <1>6, <1>21 DEF vars
  <1>22. QED
    BY <1>8, <1>9, <1>10, <1>11, <1>12, <1>13, <1>14, <1>15, <1>16, <1>17, <1>18, <1>19, <1>20,
       <1>21 DEF Next

\* Between two calls the routes served are the routes there are, with the hooks
\* they have, and the registry names them: no call that adds a route or changes
\* the hooks of one leaves an earlier compile in place.
THEOREM ServedStaysCurrent == Spec => []ServedIsCurrent
  <1>1. Init => ServedIsCurrent
    BY DEF Init, ServedIsCurrent
  <1>2. QED
    BY BuilderStaysSound, <1>1, StepKeepsCurrent, PTL DEF Spec

-----------------------------------------------------------------------------
(* The forms. *)

\* What the form is chosen from, and what the handler asks for, of a route of
\* these traits with this handler.
LEMMA PartsOfRoute ==
    ASSUME NEW h \in Handlers, NEW t \in AllTraits
    PROVE  LET r == With(h, t)
           IN  /\ r.kinds = t.kinds /\ r.local = t.local /\ r.schema = t.schema \cup h.schema
               /\ r.derives = t.derives /\ r.decorated = t.decorated
               /\ r.method = h.method /\ r.dynamic = h.dynamic /\ r.given = h.given
               /\ r.transfer = h.transfer
               /\ r.arity = h.arity /\ r.arg = h.arg /\ r.async = h.async /\ r.text = h.text
               /\ r.sample = h.sample /\ r.hookText = h.hookText
  <1> DEFINE f == [t EXCEPT !.schema = @ \cup h.schema]
             r == With(h, t)
  <1>1. /\ h = [method |-> h.method, dynamic |-> h.dynamic, schema |-> h.schema,
                transfer |-> h.transfer, given |-> h.given,
                arity |-> h.arity, arg |-> h.arg, async |-> h.async, text |-> h.text,
                sample |-> h.sample, hookText |-> h.hookText]
    BY HandlersAssumption
  <1>2. f = [kinds |-> t.kinds, local |-> t.local, schema |-> t.schema \cup h.schema,
             derives |-> t.derives, decorated |-> t.decorated]
    BY DEF AllTraits
  <1>3. DOMAIN f = {"kinds", "local", "schema", "derives", "decorated"}
    BY <1>2
  <1>4. DOMAIN h = {"method", "dynamic", "schema", "transfer", "given", "arity", "arg", "async", "text",
                    "sample", "hookText"}
    BY <1>1
  <1>5. r = [x \in DOMAIN f \cup DOMAIN h |-> IF x \in DOMAIN f THEN f[x] ELSE h[x]]
    BY DEF With, Merged
  <1> HIDE DEF f, r
  <1>6. r.kinds = f.kinds /\ r.local = f.local /\ r.schema = f.schema
        /\ r.derives = f.derives /\ r.decorated = f.decorated
    BY <1>3, <1>5
  <1>7. /\ r.method = h.method /\ r.dynamic = h.dynamic /\ r.given = h.given
        /\ r.transfer = h.transfer
        /\ r.arity = h.arity /\ r.arg = h.arg /\ r.async = h.async /\ r.text = h.text
        /\ r.sample = h.sample /\ r.hookText = h.hookText
    BY <1>3, <1>4, <1>5
  <1>8. QED
    BY <1>2, <1>6, <1>7 DEF r

\* The first condition that holds decides.
LEMMA FormIsFirst ==
    ASSUME NEW r
    PROVE  \E i \in 1..13 : /\ Form(r) = Candidates(r)[i][2]
                            /\ Candidates(r)[i][1]
                            /\ \A j \in 1..i - 1 : ~Candidates(r)[j][1]
  <1> DEFINE T == {i \in DOMAIN Candidates(r) : Candidates(r)[i][1]}
  <1>1. DOMAIN Candidates(r) = 1..13
    BY DEF Candidates
  <1>2. Candidates(r)[13][1]
    BY DEF Candidates
  <1>3. T \subseteq Nat /\ 13 \in T
    BY <1>1, <1>2
  <1>4. Form(r) = Candidates(r)[Min(T)][2]
    BY DEF Form
  <1>5. Min(T) \in T /\ \A j \in T : Min(T) <= j
    <2> HIDE DEF T
    <2>1. \E m \in T : \A n \in T : m <= n
      BY <1>3, LeastNatural
    <2>2. QED
      BY <2>1 DEF Min
  <1>6. \A j \in 1..Min(T) - 1 : ~Candidates(r)[j][1]
    BY <1>1, <1>5
  <1>7. QED
    BY <1>1, <1>4, <1>5, <1>6

\* What the cases below need of the route.
IsRoute(r) ==
    /\ r.kinds \in SUBSET HookKinds
    /\ r.local \in BOOLEAN /\ r.derives \in BOOLEAN /\ r.dynamic \in BOOLEAN
    /\ r.arg \in Args
    /\ r.arity = 0 <=> r.arg = "none"

LEMMA WithIsRoute ==
    ASSUME NEW h \in Handlers, NEW t \in AllTraits
    PROVE  IsRoute(With(h, t))
  <1> DEFINE r == With(h, t)
  <1>1. /\ r.kinds = t.kinds /\ r.local = t.local /\ r.derives = t.derives
        /\ r.dynamic = h.dynamic /\ r.arity = h.arity /\ r.arg = h.arg
    BY PartsOfRoute
  <1>2. /\ t.kinds \in SUBSET HookKinds /\ t.local \in BOOLEAN /\ t.derives \in BOOLEAN
    BY DEF AllTraits
  <1>3. h.dynamic \in BOOLEAN /\ h.arg \in Args /\ (h.arity = 0 <=> h.arg = "none")
    BY HandlersAssumption
  <1> HIDE DEF r
  <1>4. IsRoute(r)
    BY <1>1, <1>2, <1>3 DEF IsRoute
  <1>5. QED
    BY <1>4 DEF r

\* Whether the handler, if it is called, is called with what it may be.
HandsOver(r, form) ==
    form.answer = "handler" =>
        /\ form.heeds = "answers"
        /\ ~KnownGap(r) => Asks(r) \subseteq form.fields
        /\ ~IsGet(r) /\ "body" \in form.fields => form.limit

\* Without hooks, validators and derive functions nothing else can be left out.
LEMMA SimpleLeavesOut ==
    ASSUME NEW r, isSimpleRoute(r), Form(r).answer # "accepted", HandsOver(r, Form(r))
    PROVE  LeavesNothingOut(r)
  BY DEF isSimpleRoute, hasHooks, Undecorated, LeavesNothingOut, HandsOver

LEMMA FixedHands ==
    ASSUME NEW r, NEW what, what # "handler"
    PROVE  HandsOver(r, Fixed(what)) /\ Fixed(what).answer = what
  BY DEF HandsOver, Fixed, Plain

\* What a handler can ask for.
LEMMA AsksFor ==
    ASSUME NEW r, IsRoute(r)
    PROVE  /\ r.arg = "none" => Asks(r) = {}
           /\ r.arg = "request" => Asks(r) = RequestItself
           /\ r.arg = "{request}" => Asks(r) = {"request"}
           /\ r.arg = "{params}" => Asks(r) = IF r.dynamic THEN {"params"} ELSE {}
           /\ usesBareRequest(r) \/ Asks(r) \subseteq
                (IF r.dynamic THEN {"params"} ELSE {}) \cup {"request", "rest"} \cup (r.schema \cap {"body"})
  BY DEF Asks, IsRoute, Args, usesBareRequest

LEMMA AsksOfContext ==
    ASSUME NEW r, IsRoute(r), ~usesBareRequest(r)
    PROVE  Asks(r) \subseteq Full(r)
  BY AsksFor DEF Full, ContextFields

\* What is asked of the forms that call with the request.
LEMMA AsksRequest ==
    ASSUME NEW r, IsRoute(r), usesRequestOnly(r)
    PROVE  Asks(r) = Requested(r).fields
  BY AsksFor DEF usesRequestOnly, usesBareRequest, Requested, Plain

LEMMA RequestedHands ==
    ASSUME NEW r, IsRoute(r), usesRequestOnly(r)
    PROVE  /\ HandsOver(r, Requested(r)) /\ Requested(r).answer # "accepted"
           /\ "body" \notin Requested(r).fields
           /\ Requested(r).heeds = "answers" /\ Requested(r).answer = "handler"
  BY AsksRequest DEF HandsOver, Requested, Plain, RequestItself

\* A handler is asked for an answer only if none was given or found.
LEMMA GivenIsSimple ==
    ASSUME NEW r, r.given = "none", Found(r) # "none"
    PROVE  Found(r) = "found" /\ isSimpleRoute(r) /\ ~r.dynamic
  BY DEF Found

LEMMA FirstForms ==
    ASSUME NEW r, IsRoute(r), r.given = "none", NEW i \in 1..6,
           Form(r) = Candidates(r)[i][2], Candidates(r)[i][1]
    PROVE  LeavesNothingOut(r)
  <1>1. CASE i = 1
    <2>1. isBodySchemaOnlyRoute(r) /\ Form(r) = bodySchema(r)
      BY <1>1 DEF Candidates
    <2>2. /\ Form(r).hooks = {}
          /\ TakenForTransfer(r) => Form(r).answer = "accepted"
          /\ ~TakenForTransfer(r) => /\ Form(r).validates = {"body"} /\ Form(r).answer = "handler"
                                     /\ Form(r).limit /\ Form(r).heeds = "answers"
      BY <2>1 DEF bodySchema, Plain, Fixed, TakenForTransfer
    <2>3. r.schema = {"body"} /\ ~r.local /\ ~r.derives /\ r.kinds = {} /\ KnownGap(r)
      BY <2>1 DEF isBodySchemaOnlyRoute, hasNonBeforeHooks, hasBeforeHooks, Undecorated, KnownGap
    <2>4. QED
      BY <2>2, <2>3 DEF LeavesNothingOut
  <1>2. CASE i = 2
    <2>1. (discardsBody(r) \/ mapsPostedJson(r)) /\ Form(r) = Fixed("given")
      BY <1>2 DEF Candidates
    <2>2. Found(r) # "none"
      BY <2>1 DEF discardsBody, mapsPostedJson, GivenResponse
    <2>3. QED
      BY <2>1, <2>2, GivenIsSimple, FixedHands, SimpleLeavesOut
  <1>3. CASE i = 3
    <2>1. takesBareJson(r) /\ Form(r) = Requested(r)
      BY <1>3 DEF Candidates, bareJsonPost
    <2>2. isSimpleRoute(r) /\ usesRequestOnly(r)
      BY <2>1 DEF takesBareJson, usesBareRequest, usesRequestOnly
    <2>3. QED
      BY <2>1, <2>2, RequestedHands, SimpleLeavesOut
  <1>4. CASE i = 4
    <2>1. awaitsThenStatic(r) /\ Form(r) = [Fixed("given") EXCEPT !.fields = RequestItself]
      BY <1>4 DEF Candidates
    <2>2. Found(r) # "none"
      BY <2>1 DEF awaitsThenStatic, GivenResponse
    <2>3. Form(r).answer = "given"
      BY <2>1 DEF Fixed, Plain
    <2>4. QED
      BY <2>2, <2>3, GivenIsSimple, SimpleLeavesOut DEF HandsOver
  <1>5. CASE i = 5
    <2>1. branchesOnHeader(r) /\ Form(r) = Fixed("kept")
      BY <1>5 DEF Candidates
    <2>2. QED
      BY <2>1, FixedHands, SimpleLeavesOut DEF branchesOnHeader
  <1>6. CASE i = 6
    <2>1. callsOnRequest(r) /\ Form(r) = Requested(r)
      BY <1>6 DEF Candidates
    <2>2. isSimpleRoute(r) /\ usesRequestOnly(r)
      BY <2>1 DEF callsOnRequest
    <2>3. QED
      BY <2>1, <2>2, RequestedHands, SimpleLeavesOut
  <1>7. QED
    BY <1>1, <1>2, <1>3, <1>4, <1>5, <1>6

LEMMA SimpleStaticForm ==
    ASSUME NEW r, IsRoute(r), r.given = "none", ~r.dynamic, isSimpleRoute(r),
           Form(r) = simpleStatic(r)
    PROVE  LeavesNothingOut(r)
  <1>1. HandsOver(r, Form(r)) /\ Form(r).answer # "accepted"
    <2>1. CASE Found(r) # "none"
      BY <2>1, FixedHands DEF simpleStatic
    <2>2. CASE Found(r) = "none" /\ (Cached(r) \/ (r.arity = 0 /\ isSyncHandler(r) /\ r.sample = "response"))
      BY <2>2, FixedHands DEF simpleStatic
    <2>3. CASE /\ Found(r) = "none"
               /\ ~(Cached(r) \/ (r.arity = 0 /\ isSyncHandler(r) /\ r.sample = "response"))
      <3>1. CASE r.arity = 0
        <4>1. Form(r) = Plain /\ Asks(r) = {}
          BY <2>3, <3>1, AsksFor DEF IsRoute, simpleStatic
        <4>2. QED
          BY <4>1 DEF HandsOver, Plain
      <3>2. CASE r.arity # 0 /\ usesRequestOnly(r)
        <4>1. /\ Form(r).fields = Requested(r).fields /\ Form(r).answer = Requested(r).answer
              /\ Form(r).heeds = Requested(r).heeds
          BY <2>3, <3>2 DEF simpleStatic, Requested, Plain
        <4>2. QED
          BY <3>2, <4>1, RequestedHands, AsksRequest DEF HandsOver
      <3>3. CASE r.arity # 0 /\ ~usesRequestOnly(r)
        <4>1. /\ Form(r).fields = Full(r) /\ Form(r).limit = ~IsGet(r) /\ Form(r).heeds = "answers"
              /\ Form(r).answer = "handler"
          BY <2>3, <3>3 DEF simpleStatic, Plain
        <4>2. Asks(r) \subseteq Full(r)
          BY <3>3, AsksOfContext DEF usesRequestOnly, usesBareRequest
        <4>3. QED
          BY <4>1, <4>2 DEF HandsOver
      <3>4. QED
        BY <3>1, <3>2, <3>3
    <2>4. QED
      BY <2>1, <2>2, <2>3
  <1>2. QED
    BY <1>1, SimpleLeavesOut

LEMMA BeforeHandleForm ==
    ASSUME NEW r, IsRoute(r), isBeforeHandleOnlyRoute(r), Form(r) = beforeHandleForm(r)
    PROVE  LeavesNothingOut(r)
  <1>1. r.schema = {} /\ r.kinds \subseteq {"beforeHandle"} /\ ~r.derives /\ ~isSimpleRoute(r)
    BY DEF isBeforeHandleOnlyRoute, hasNonBeforeHooks, hasBeforeHooks, Undecorated, isSimpleRoute, hasHooks
  <1>2. Form(r).hooks = {"beforeHandle"}
    BY DEF beforeHandleForm, Plain
  <1>3. Form(r).answer \in {"handler", "kept"}
    BY DEF beforeHandleForm, Plain
  <1>4. ASSUME Form(r).answer = "handler"
        PROVE  /\ Form(r).heeds = "answers" /\ Form(r).limit = ~IsGet(r)
               /\ "request" \in Form(r).fields
               /\ ~(r.arity = 0 \/ usesRequestOnly(r)) => Form(r).fields = ContextFields \ {"params"}
    <2>1. ~(Cached(r) \/ r.given = "raw")
      BY <1>4 DEF beforeHandleForm, Plain
    <2>2. QED
      BY <2>1 DEF beforeHandleForm, Plain, ContextFields
  <1>5. ASSUME Form(r).answer = "handler", ~KnownGap(r)
        PROVE  Asks(r) \subseteq Form(r).fields
    <2>1. ~r.dynamic /\ ~usesBareRequest(r)
      BY <1>1, <1>5 DEF KnownGap
    <2>2. CASE r.arity = 0 \/ usesRequestOnly(r)
      <3>1. Asks(r) \subseteq {"request"}
        BY <2>1, <2>2, AsksFor DEF IsRoute, usesRequestOnly, usesBareRequest
      <3>2. QED
        BY <1>4, <1>5, <3>1
    <2>3. CASE ~(r.arity = 0 \/ usesRequestOnly(r))
      <3>1. Asks(r) \subseteq ContextFields \ {"params"}
        BY <2>1, AsksOfContext DEF Full
      <3>2. QED
        BY <1>4, <1>5, <2>3, <3>1
    <2>4. QED
      BY <2>2, <2>3
  <1>6. HandsOver(r, Form(r))
    BY <1>4, <1>5 DEF HandsOver
  <1>7. QED
    BY <1>1, <1>2, <1>3, <1>6 DEF LeavesNothingOut, HandsOver

LEMMA DynamicForms ==
    ASSUME NEW r, IsRoute(r), r.given = "none", r.dynamic, isSimpleRoute(r),
           \/ Form(r) = Fixed("param")
           \/ usesParamsOnly(r) /\ Form(r) = paramsOnly(r)
           \/ Form(r) = simpleDynamic(r)
    PROVE  LeavesNothingOut(r)
  <1>1. r.schema = {} /\ Found(r) = "none"
    BY GivenIsSimple DEF isSimpleRoute
  <1>2. CASE Form(r) = Fixed("param")
    BY <1>2, FixedHands, SimpleLeavesOut
  <1>3. CASE usesParamsOnly(r) /\ Form(r) = paramsOnly(r)
    <2>1. Form(r).fields = {"params"} /\ Form(r).answer = "handler" /\ Form(r).heeds = "answers"
      BY <1>3 DEF paramsOnly, Plain
    <2>2. r.arg = "{params}" => Asks(r) = {"params"}
      BY AsksFor
    <2>3. r.arg = "ctx{params}" => KnownGap(r)
      BY DEF KnownGap
    <2>4. HandsOver(r, Form(r))
      BY <1>3, <2>1, <2>2, <2>3 DEF HandsOver, usesParamsOnly
    <2>5. QED
      BY <2>1, <2>4, SimpleLeavesOut
  <1>4. CASE Form(r) = simpleDynamic(r)
    <2>1. CASE r.arity = 0
      <3>1. Asks(r) = {} /\ Form(r) = Plain
        BY <1>1, <1>4, <2>1, AsksFor DEF IsRoute, simpleDynamic
      <3>2. QED
        BY <3>1, SimpleLeavesOut DEF HandsOver, Plain
    <2>2. CASE r.arity # 0
      <3>1. /\ Form(r).fields = Full(r) /\ Form(r).limit = ~IsGet(r)
            /\ Form(r).answer = "handler" /\ Form(r).heeds = "answers"
        BY <1>1, <1>4, <2>2 DEF simpleDynamic, Plain
      <3>2. KnownGap(r) \/ Asks(r) \subseteq Full(r)
        BY AsksOfContext DEF KnownGap
      <3>3. QED
        BY <3>1, <3>2, SimpleLeavesOut DEF HandsOver
    <2>3. QED
      BY <2>1, <2>2
  <1>5. QED
    BY <1>2, <1>3, <1>4

LEMMA FallbackForm ==
    ASSUME NEW r, IsRoute(r), Found(r) = "none", Form(r) = pipelineFallback(r),
           r.dynamic \/ ~isSimpleRoute(r)
    PROVE  LeavesNothingOut(r)
  <1>1. /\ Form(r).fields = Full(r) /\ Form(r).hooks = RequestHooks
        /\ Form(r).validates = r.schema /\ Form(r).derives = TRUE
        /\ Form(r).answer = "handler" /\ Form(r).heeds = "answers"
        /\ ~IsGet(r) => Form(r).limit
    BY DEF pipelineFallback, Plain
  <1>2. KnownGap(r) \/ Asks(r) \subseteq Full(r)
    BY AsksOfContext DEF KnownGap
  <1>3. "beforeHandle" \in RequestHooks
    BY DEF RequestHooks
  <1>4. QED
    BY <1>1, <1>2, <1>3 DEF LeavesNothingOut

\* The choice of forms: none of them leaves out what the route has.
LEMMA NothingLeftOut ==
    ASSUME NEW r, IsRoute(r)
    PROVE  LeavesNothingOut(r)
  <1> SUFFICES ASSUME r.given = "none" PROVE LeavesNothingOut(r)
    BY DEF LeavesNothingOut
  <1>1. PICK i \in 1..13 : /\ Form(r) = Candidates(r)[i][2]
                           /\ Candidates(r)[i][1]
                           /\ \A j \in 1..i - 1 : ~Candidates(r)[j][1]
    BY FormIsFirst
  <1>2. CASE i \in 1..6
    BY <1>1, <1>2, FirstForms
  <1>3. CASE i = 7
    <2>1. ~r.dynamic /\ isSimpleRoute(r) /\ Form(r) = simpleStatic(r)
      BY <1>1, <1>3 DEF Candidates
    <2>2. QED
      BY <2>1, SimpleStaticForm
  <1>4. CASE i = 8
    <2>1. isBeforeHandleOnlyRoute(r) /\ Form(r) = beforeHandleForm(r)
      BY <1>1, <1>4 DEF Candidates
    <2>2. QED
      BY <2>1, BeforeHandleForm
  <1>5. CASE i \in 9..12
    <2>1. /\ r.dynamic /\ isSimpleRoute(r)
          /\ \/ Form(r) = Fixed("param")
             \/ usesParamsOnly(r) /\ Form(r) = paramsOnly(r)
             \/ Form(r) = simpleDynamic(r)
      <3>1. CASE i = 9
        BY <1>1, <3>1 DEF Candidates
      <3>2. CASE i = 10
        BY <1>1, <3>2 DEF Candidates, isParamsFn, usesParamsOnly
      <3>3. CASE i = 11
        BY <1>1, <3>3 DEF Candidates
      <3>4. CASE i = 12
        BY <1>1, <3>4 DEF Candidates
      <3>5. QED
        BY <1>5, <3>1, <3>2, <3>3, <3>4
    <2>2. QED
      BY <2>1, DynamicForms
  <1>6. CASE i = 13
    <2>1. Form(r) = pipelineFallback(r)
      BY <1>1, <1>6 DEF Candidates
    <2>2. ~(~r.dynamic /\ isSimpleRoute(r))
      <3>1. ~Candidates(r)[7][1]
        BY <1>1, <1>6
      <3>2. QED
        BY <3>1 DEF Candidates
    <2>3. Found(r) = "none"
      BY <2>2, GivenIsSimple
    <2>4. QED
      BY <2>1, <2>2, <2>3, FallbackForm
  <1>7. QED
    BY <1>2, <1>3, <1>4, <1>5, <1>6

LEMMA EveryTraitIsComplete == AllTraits \subseteq Complete
  <1> SUFFICES ASSUME NEW t \in AllTraits PROVE t \in Complete
    OBVIOUS
  <1>1. \A h \in Handlers : LeavesNothingOut(With(h, t))
    BY WithIsRoute, NothingLeftOut
  <1>2. QED
    BY <1>1 DEF Complete

\* The traits of a route that is served.
LEMMA TraitsOfServed ==
    ASSUME NEW snapshot \in Snapshots, NEW route \in ToSet(snapshot.routes)
    PROVE  Traits(route, snapshot) \in AllTraits
  <1>1. route \in ServedRoutes
    <2>1. snapshot.routes \in Seq(ServedRoutes)
      BY DEF Snapshots
    <2>2. QED
      BY <2>1, LenProperties, ElementOfSeq DEF ToSet
  <1>2. DOMAIN route.schema \in SUBSET GivenKeys
    BY <1>1 DEF ServedRoutes, Schemas
  <1>3. {k \in HookKinds : snapshot.hooks[k] # <<>>} \in SUBSET HookKinds
    OBVIOUS
  <1>4. (route.local # <<>>) \in BOOLEAN /\ (snapshot.derives > 0) \in BOOLEAN
    <2>1. (route.local # <<>>) \in BOOLEAN
      BY Zenon
    <2>2. (snapshot.derives > 0) \in BOOLEAN
      OBVIOUS
    <2>3. QED
      BY <2>1, <2>2
  <1>5. snapshot.decorated \in BOOLEAN
    BY DEF Snapshots
  <1>6. QED
    BY <1>2, <1>3, <1>4, <1>5, Zenon DEF Traits, AllTraits

\* No form leaves out anything of what the served application has, whatever the texts of
\* handlers and hooks: not a hook of a request or a derive function, and a validator only
\* where a body is taken for that of a transfer; before a handler that is called, no answer
\* of a hook, no check of the length of a body handed over and, but for the known gaps,
\* nothing that the handler's text asks for.
THEOREM FormsLeaveOutNothing == Spec => []FormsLeaveNothingOut
  <1>1. BuilderInv => FormsLeaveNothingOut
    <2> SUFFICES ASSUME BuilderInv, compiled # None, NEW route \in ToSet(compiled.routes)
                 PROVE  Traits(route, compiled) \in Complete
      BY DEF FormsLeaveNothingOut
    <2>1. compiled \in Snapshots
      BY DEF BuilderInv, ServedTyped
    <2>2. QED
      BY <2>1, TraitsOfServed, EveryTraitIsComplete
  <1>2. QED
    BY BuilderStaysSound, <1>1, PTL
=============================================================================
