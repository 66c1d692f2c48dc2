----------------------- MODULE DriverLifecycleProofs -----------------------
(* Proofs about DriverLifecycle for any number of CPUs and clients.        *)
EXTENDS DriverLifecycle, FiniteSetTheorems, SequenceTheorems, TLAPS

----------------------------------------------------------------------------
(* The inductive invariant.  A load is at one of the steps of DriverEntry; *)
(* what is to be torn down is what is set up, each once, the callbacks     *)
(* before the ring; and whoever uses the ring keeps it from going first.   *)

Undoing == stage \in {"rollback", "unloading"}

\* What the steps of DriverEntry before step k have set up.
Done(k) == {EntrySteps[i] : i \in 1 .. k - 1}

\* Step k of DriverEntry is next.
AtStep(k) ==
  /\ todo = [i \in 1 .. 8 - k |-> EntrySteps[k + i - 1]]
  /\ held = Done(k)

\* s lists what is in set, each once.
Lists(s, set) ==
  /\ s \in Seq(set)
  /\ \A i, j \in DOMAIN s : s[i] = s[j] => i = j
  /\ {s[i] : i \in DOMAIN s} = set

\* s takes back what is in set, the callbacks before the ring.
Undoes(s, set) ==
  /\ Lists(s, set) /\ set \subseteq Resources \ {"dispatch"}
  /\ \A i \in DOMAIN s : s[i] \in Callbacks => \E j \in DOMAIN s : i < j /\ s[j] = "ring"

\* What the driver's thread has got to.
Progress ==
  /\ stage = "entry" => \E k \in 1 .. 7 : AtStep(k)
  /\ stage = "loaded" => todo = <<>> /\ held = Resources
  /\ stage \in {"failed", "unloaded"} => todo = <<>> /\ held = {}
  /\ Undoing => todo # <<>> /\ Undoes(todo, held)

\* A call under way is one of a callback that is registered or being removed,
\* and while one is being removed the ring is there.
CallsAreSafe ==
  /\ draining # "none" => Undoing /\ "ring" \in held
  /\ \A c \in Cpus : inside[c] # "none" => inside[c] \in held \cup {draining}

HandlesAreSafe == \A u \in Clients : clients[u] # "closed" => stage = "loaded"

IInv == TypeOK /\ Progress /\ CallsAreSafe /\ HandlesAreSafe /\ ~ stray

----------------------------------------------------------------------------
(* The lists of DriverEntry and NullTracerUnload *)

USE DEF Callbacks, Resources

LEMMA FunIsSeq ==
  ASSUME NEW S, NEW n \in Nat, NEW f \in [1 .. n -> S]
  PROVE  f \in Seq(S) /\ Len(f) = n /\ DOMAIN f = 1 .. n
BY SeqDef

LEMMA TailOfSeq ==
  ASSUME NEW S, NEW s \in Seq(S), s # <<>>
  PROVE  /\ Tail(s) = [i \in 1 .. Len(s) - 1 |-> s[i + 1]]
         /\ Len(s) > 1 <=> Tail(s) # <<>>
<1>1. /\ Tail(s) \in Seq(S) /\ Len(Tail(s)) = Len(s) - 1
      /\ \A i \in 1 .. Len(Tail(s)) : Tail(s)[i] = s[i + 1]
  BY HeadTailProperties
<1>2. Tail(s) \in [1 .. Len(s) - 1 -> S]
  BY <1>1, LenProperties
<1>3. Tail(s) = [i \in 1 .. Len(s) - 1 |-> s[i + 1]]
  BY <1>1, <1>2
<1>4. Len(s) \in Nat /\ (Tail(s) = <<>> <=> Len(Tail(s)) = 0)
  BY <1>1, EmptySeq
<1>5. Len(s) # 0
  BY EmptySeq
<1> QED
  BY <1>1, <1>3, <1>4, <1>5

LEMMA EntryList ==
  /\ EntrySteps \in Seq(Resources) /\ Len(EntrySteps) = 7
  /\ \A k \in 1 .. 7 : EntrySteps[k] \in Resources
  /\ EntrySteps[1] = "device" /\ EntrySteps[2] = "symlink" /\ EntrySteps[3] = "ring"
  /\ EntrySteps[4] = "process" /\ EntrySteps[5] = "image" /\ EntrySteps[6] = "registry"
  /\ EntrySteps[7] = "dispatch"
BY DEF EntrySteps

\* What DriverEntry has set up before each of its steps.
LEMMA SetUpBefore ==
  /\ Done(1) = {}
  /\ Done(2) = {"device"}
  /\ Done(3) = {"device", "symlink"}
  /\ Done(4) = {"device", "symlink", "ring"}
  /\ Done(5) = {"device", "symlink", "ring", "process"}
  /\ Done(6) = {"device", "symlink", "ring", "process", "image"}
  /\ Done(7) = {"device", "symlink", "ring", "process", "image", "registry"}
<1>1. /\ 1 .. 1 - 1 = {} /\ 1 .. 2 - 1 = {1} /\ 1 .. 3 - 1 = {1, 2} /\ 1 .. 4 - 1 = {1, 2, 3}
      /\ 1 .. 5 - 1 = {1, 2, 3, 4} /\ 1 .. 6 - 1 = {1, 2, 3, 4, 5}
      /\ 1 .. 7 - 1 = {1, 2, 3, 4, 5, 6}
  OBVIOUS
<1>2. Done(1) = {}
  BY <1>1, EntryList DEF Done
<1>3. Done(2) = {"device"}
  BY <1>1, EntryList DEF Done
<1>4. Done(3) = {"device", "symlink"}
  BY <1>1, EntryList DEF Done
<1>5. Done(4) = {"device", "symlink", "ring"}
  BY <1>1, EntryList DEF Done
<1>6. Done(5) = {"device", "symlink", "ring", "process"}
  BY <1>1, EntryList DEF Done
<1>7. Done(6) = {"device", "symlink", "ring", "process", "image"}
  BY <1>1, EntryList DEF Done
<1>8. Done(7) = {"device", "symlink", "ring", "process", "image", "registry"}
  BY <1>1, EntryList DEF Done
<1> QED
  BY <1>2, <1>3, <1>4, <1>5, <1>6, <1>7, <1>8

\* UnloadSteps takes back all but the dispatch table.
LEMMA UnloadUndoes == Undoes(UnloadSteps, Resources \ {"dispatch"}) /\ UnloadSteps # <<>>
<1>1. /\ UnloadSteps \in Seq(Resources \ {"dispatch"}) /\ DOMAIN UnloadSteps = 1 .. 6
      /\ UnloadSteps[1] = "registry" /\ UnloadSteps[2] = "image" /\ UnloadSteps[3] = "process"
      /\ UnloadSteps[4] = "ring" /\ UnloadSteps[5] = "symlink" /\ UnloadSteps[6] = "device"
  BY DEF UnloadSteps
<1>2. 1 .. 6 = {1, 2, 3, 4, 5, 6}
  OBVIOUS
<1>3. {UnloadSteps[i] : i \in DOMAIN UnloadSteps} = Resources \ {"dispatch"}
  BY <1>1, <1>2
<1>4. \A i, j \in DOMAIN UnloadSteps : UnloadSteps[i] = UnloadSteps[j] => i = j
  BY <1>1, <1>2
<1>5. \A i \in DOMAIN UnloadSteps : UnloadSteps[i] \in Callbacks => i < 4
  BY <1>1, <1>2
<1>6. 4 \in DOMAIN UnloadSteps /\ UnloadSteps # <<>>
  BY <1>1
<1>7. Lists(UnloadSteps, Resources \ {"dispatch"})
  <2> DEFINE R == Resources \ {"dispatch"}
  <2>1. UnloadSteps \in Seq(R) /\ {UnloadSteps[i] : i \in DOMAIN UnloadSteps} = R
    BY <1>1, <1>3
  <2> SUFFICES Lists(UnloadSteps, R)
    OBVIOUS
  <2> HIDE DEF R
  <2> QED
    BY <1>4, <2>1 DEF Lists
<1>8. \A i \in DOMAIN UnloadSteps : UnloadSteps[i] \in Callbacks =>
        \E j \in DOMAIN UnloadSteps : i < j /\ UnloadSteps[j] = "ring"
  BY <1>1, <1>5, <1>6
<1> QED
  BY <1>6, <1>7, <1>8 DEF Undoes

\* What DriverEntry takes back when a step fails, and CallbacksRegister before.
LEMMA RollbackLists ==
  /\ Undoes(<<>>, {})
  /\ Undoes(<<"device">>, {"device"})
  /\ Undoes(<<"symlink", "device">>, {"device", "symlink"})
  /\ Undoes(<<"ring", "symlink", "device">>, {"device", "symlink", "ring"})
  /\ Lists(<<"process">>, {"process"})
  /\ Lists(<<"process", "image">>, {"process", "image"})
<1>1. 1 .. 1 = {1} /\ 1 .. 2 = {1, 2} /\ 1 .. 3 = {1, 2, 3}
  OBVIOUS
<1>2. Undoes(<<>>, {})
  BY DEF Undoes, Lists
<1>3. Undoes(<<"device">>, {"device"})
  <2> DEFINE s == <<"device">>
  <2>1. s \in Seq({"device"}) /\ DOMAIN s = 1 .. 1 /\ s[1] = "device"
    OBVIOUS
  <2> HIDE DEF s
  <2> QED
    BY <1>1, <2>1 DEF Undoes, Lists
<1>4. Undoes(<<"symlink", "device">>, {"device", "symlink"})
  <2> DEFINE s == <<"symlink", "device">>
  <2>1. s \in Seq({"device", "symlink"}) /\ DOMAIN s = 1 .. 2 /\ s[1] = "symlink" /\ s[2] = "device"
    OBVIOUS
  <2> HIDE DEF s
  <2> QED
    BY <1>1, <2>1 DEF Undoes, Lists
<1>5. Undoes(<<"ring", "symlink", "device">>, {"device", "symlink", "ring"})
  <2> DEFINE s == <<"ring", "symlink", "device">>
  <2>1. s \in Seq({"device", "symlink", "ring"}) /\ DOMAIN s = 1 .. 3 /\ s[1] = "ring" /\ s[2] = "symlink" /\ s[3] = "device"
    OBVIOUS
  <2> HIDE DEF s
  <2> QED
    BY <1>1, <2>1 DEF Undoes, Lists
<1>6. Lists(<<"process">>, {"process"})
  <2> DEFINE s == <<"process">>
  <2>1. s \in Seq({"process"}) /\ DOMAIN s = 1 .. 1 /\ s[1] = "process"
    OBVIOUS
  <2> HIDE DEF s
  <2> QED
    BY <1>1, <2>1 DEF Undoes, Lists
<1>7. Lists(<<"process", "image">>, {"process", "image"})
  <2> DEFINE s == <<"process", "image">>
  <2>1. s \in Seq({"process", "image"}) /\ DOMAIN s = 1 .. 2 /\ s[1] = "process" /\ s[2] = "image"
    OBVIOUS
  <2> HIDE DEF s
  <2> QED
    BY <1>1, <2>1 DEF Undoes, Lists
<1> QED
  BY <1>2, <1>3, <1>4, <1>5, <1>6, <1>7

\* Callbacks may be taken back before a list that has the ring in it.
LEMMA CallbacksFirst ==
  ASSUME NEW X \in SUBSET Callbacks, NEW Y \in SUBSET (Resources \ Callbacks),
         NEW s, NEW t, Lists(s, X), Undoes(t, Y), "ring" \in Y
  PROVE  Undoes(s \o t, X \cup Y)
<1> DEFINE u == s \o t
<1>1. s \in Seq(X \cup Y) /\ t \in Seq(X \cup Y)
  BY DEF Lists, Undoes
<1>2. /\ u \in Seq(X \cup Y) /\ Len(u) = Len(s) + Len(t)
      /\ \A i \in 1 .. Len(s) : u[i] = s[i] /\ u[i] \in X
      /\ \A i \in 1 .. Len(t) : u[Len(s) + i] = t[i] /\ u[Len(s) + i] \in Y
  BY <1>1, ConcatProperties DEF Lists, Undoes
<1>a. Len(s) \in Nat /\ Len(t) \in Nat /\ DOMAIN s = 1 .. Len(s) /\ DOMAIN t = 1 .. Len(t)
  BY <1>1
<1> HIDE DEF u
<1>b. DOMAIN u = 1 .. Len(s) + Len(t)
  BY <1>2
<1>3. ASSUME NEW i \in DOMAIN u
      PROVE  \/ i \in 1 .. Len(s) /\ u[i] = s[i] /\ u[i] \in X
             \/ i \in Nat /\ i - Len(s) \in 1 .. Len(t) /\ u[i] = t[i - Len(s)] /\ u[i] \in Y
  <2>1. i \in 1 .. Len(s) \/ (i \in Nat /\ i - Len(s) \in 1 .. Len(t) /\ i = Len(s) + (i - Len(s)))
    BY <1>a, <1>b
  <2> QED
    BY <1>2, <2>1
<1>4. X \cap Y = {}
  OBVIOUS
<1>5. ASSUME NEW i \in DOMAIN u, NEW j \in DOMAIN u, u[i] = u[j]
      PROVE  i = j
  <2>1. CASE i \in 1 .. Len(s) /\ j \in 1 .. Len(s)
    BY <1>2, <1>5, <1>a, <2>1 DEF Lists
  <2>2. CASE ~ (i \in 1 .. Len(s)) /\ ~ (j \in 1 .. Len(s))
    <3>1. /\ i \in Nat /\ i - Len(s) \in 1 .. Len(t) /\ j \in Nat /\ j - Len(s) \in 1 .. Len(t)
          /\ t[i - Len(s)] = t[j - Len(s)]
      BY <1>3, <1>5, <2>2
    <3>2. i - Len(s) = j - Len(s)
      BY <1>a, <3>1 DEF Undoes, Lists
    <3> QED
      BY <1>a, <3>1, <3>2
  <2>3. CASE i \in 1 .. Len(s) /\ ~ (j \in 1 .. Len(s))
    <3>1. u[i] \in X /\ u[j] \in Y
      BY <1>3, <2>3
    <3> QED
      BY <1>4, <1>5, <3>1
  <2>4. CASE ~ (i \in 1 .. Len(s)) /\ j \in 1 .. Len(s)
    <3>1. u[i] \in Y /\ u[j] \in X
      BY <1>3, <2>4
    <3> QED
      BY <1>4, <1>5, <3>1
  <2> QED
    BY <2>1, <2>2, <2>3, <2>4
<1>6. {u[i] : i \in DOMAIN u} = X \cup Y
  <2>1. \A i \in DOMAIN u : u[i] \in X \cup Y
    BY <1>3
  <2>2. ASSUME NEW x \in X
        PROVE  \E i \in DOMAIN u : u[i] = x
    <3>1. PICK i \in 1 .. Len(s) : s[i] = x
      BY <1>a DEF Lists
    <3> QED
      BY <1>2, <1>a, <1>b, <3>1
  <2>3. ASSUME NEW y \in Y
        PROVE  \E i \in DOMAIN u : u[i] = y
    <3>1. PICK i \in 1 .. Len(t) : t[i] = y
      BY <1>a DEF Lists, Undoes
    <3>2. Len(s) + i \in DOMAIN u
      BY <1>a, <1>b
    <3> QED
      BY <1>2, <3>1, <3>2
  <2>4. \A z \in X \cup Y : \E i \in DOMAIN u : u[i] = z
    BY <2>2, <2>3
  <2>5. {u[i] : i \in DOMAIN u} \subseteq X \cup Y
    BY <2>1
  <2>6. X \cup Y \subseteq {u[i] : i \in DOMAIN u}
    BY <2>4
  <2> QED
    BY <2>5, <2>6
<1>7. PICK r \in 1 .. Len(t) : t[r] = "ring"
  BY <1>a DEF Lists, Undoes
<1>8. ASSUME NEW i \in DOMAIN u, u[i] \in Callbacks
      PROVE  \E j \in DOMAIN u : i < j /\ u[j] = "ring"
  <2>1. i \in 1 .. Len(s)
    BY <1>3, <1>8
  <2>2. Len(s) + r \in DOMAIN u /\ u[Len(s) + r] = "ring" /\ i < Len(s) + r
    BY <1>2, <1>7, <1>a, <1>b, <2>1
  <2> QED
    BY <2>2
<1>9. X \cup Y \subseteq Resources \ {"dispatch"}
  BY DEF Undoes
<1> QED
  BY <1>2, <1>5, <1>6, <1>8, <1>9 DEF Undoes, Lists, u

\* Whichever step fails, what CallbacksRegister and DriverEntry take back is
\* what the steps before it have set up.
LEMMA FailureUndoes ==
  ASSUME NEW k \in 1 .. 6
  PROVE  Undoes(CallbacksUndo(EntrySteps[k]) \o EntryUndo(EntrySteps[k]), Done(k))
<1> DEFINE C == CallbacksUndo(EntrySteps[k])
           E == EntryUndo(EntrySteps[k])
<1>1. ASSUME k \in 1 .. 4
      PROVE  C = <<>> /\ Undoes(E, Done(k))
  <2>1. EntrySteps[k] \in {"device", "symlink", "ring", "process"}
    BY <1>1, EntryList
  <2>2. C = <<>>
    BY <2>1 DEF CallbacksUndo
  <2>3. CASE k = 1
    <3>1. E = <<>>
      BY <2>3, EntryList DEF EntryUndo
    <3> QED
      BY <2>2, <2>3, <3>1, RollbackLists, SetUpBefore
  <2>4. CASE k = 2
    <3>1. E = <<"device">>
      BY <2>4, EntryList DEF EntryUndo
    <3> QED
      BY <2>2, <2>4, <3>1, RollbackLists, SetUpBefore
  <2>5. CASE k = 3
    <3>1. E = <<"symlink", "device">>
      BY <2>5, EntryList DEF EntryUndo
    <3> QED
      BY <2>2, <2>5, <3>1, RollbackLists, SetUpBefore
  <2>6. CASE k = 4
    <3>1. E = <<"ring", "symlink", "device">>
      BY <2>6, EntryList DEF EntryUndo
    <3> QED
      BY <2>2, <2>6, <3>1, RollbackLists, SetUpBefore
  <2> QED
    BY <1>1, <2>3, <2>4, <2>5, <2>6
<1>2. CASE k \in 1 .. 4
  <2>1. C = <<>> /\ E \in Seq(Done(k))
    BY <1>1, <1>2 DEF Undoes, Lists
  <2>2. C \o E = E
    BY <2>1
  <2> QED
    BY <1>1, <1>2, <2>2
<1>3. CASE k = 5
  <2>1. C = <<"process">> /\ E = <<"ring", "symlink", "device">>
    BY <1>3, EntryList DEF CallbacksUndo, EntryUndo
  <2>2. Done(k) = {"process"} \cup {"device", "symlink", "ring"}
    BY <1>3, SetUpBefore
  <2> QED
    BY <2>1, <2>2, RollbackLists, CallbacksFirst
<1>4. CASE k = 6
  <2>1. C = <<"process", "image">> /\ E = <<"ring", "symlink", "device">>
    BY <1>4, EntryList DEF CallbacksUndo, EntryUndo
  <2>2. Done(k) = {"process", "image"} \cup {"device", "symlink", "ring"}
    BY <1>4, SetUpBefore
  <2> QED
    BY <2>1, <2>2, RollbackLists, CallbacksFirst
<1> QED
  BY <1>2, <1>3, <1>4

\* After the first release what is left is still to be taken back in order,
\* and the ring is there as long as a callback has been released.
LEMMA FirstUndone ==
  ASSUME NEW set \in SUBSET Resources, NEW s \in Seq(Resources), s # <<>>, Undoes(s, set)
  PROVE  /\ Head(s) \in set /\ Undoes(Tail(s), set \ {Head(s)})
         /\ Tail(s) = <<>> => set = {Head(s)}
         /\ Head(s) \in Callbacks => "ring" \in set
         /\ Head(s) = "ring" => set \cap Callbacks = {}
<1> DEFINE t == Tail(s)
<1>1. /\ Len(s) \in Nat \ {0} /\ DOMAIN s = 1 .. Len(s) /\ Head(s) = s[1] /\ 1 \in DOMAIN s
      /\ s \in Seq(set)
  BY DEF Undoes, Lists
<1>2. /\ t \in Seq(set) /\ Len(t) = Len(s) - 1 /\ DOMAIN t = 1 .. Len(s) - 1
      /\ \A i \in DOMAIN t : t[i] = s[i + 1]
  BY <1>1
<1>3. /\ \A i, j \in DOMAIN s : s[i] = s[j] => i = j
      /\ {s[i] : i \in DOMAIN s} = set /\ set \subseteq Resources \ {"dispatch"}
      /\ \A i \in DOMAIN s : s[i] \in Callbacks => \E j \in DOMAIN s : i < j /\ s[j] = "ring"
  BY DEF Undoes, Lists
<1>4. ASSUME NEW i \in DOMAIN t
      PROVE  i + 1 \in DOMAIN s /\ t[i] = s[i + 1] /\ t[i] # s[1]
  <2>1. i + 1 \in DOMAIN s /\ i + 1 # 1
    BY <1>1, <1>2
  <2> QED
    BY <1>1, <1>2, <1>3, <2>1
<1>5. ASSUME NEW i \in DOMAIN s, i # 1
      PROVE  i - 1 \in DOMAIN t /\ t[i - 1] = s[i]
  <2>1. i - 1 \in DOMAIN t /\ (i - 1) + 1 = i
    BY <1>1, <1>2, <1>5
  <2> QED
    BY <1>2, <2>1
<1> HIDE DEF t
<1>6. Head(s) \in set
  BY <1>1, <1>3
<1>7. \A i \in DOMAIN t : t[i] \in set \ {Head(s)}
  BY <1>1, <1>3, <1>4
<1>8. t \in Seq(set \ {Head(s)})
  <2>1. Len(t) \in Nat /\ DOMAIN t = 1 .. Len(t) /\ t = [i \in 1 .. Len(t) |-> t[i]]
    BY <1>2
  <2> QED
    BY <1>7, <2>1
<1>9. ASSUME NEW i \in DOMAIN t, NEW j \in DOMAIN t, t[i] = t[j]
      PROVE  i = j
  <2>1. i + 1 = j + 1
    BY <1>3, <1>4, <1>9
  <2> QED
    BY <1>2, <2>1
<1>10. {t[i] : i \in DOMAIN t} = set \ {Head(s)}
  BY <1>1, <1>3, <1>4, <1>5, <1>7
<1>11. ASSUME NEW i \in DOMAIN t, t[i] \in Callbacks
       PROVE  \E j \in DOMAIN t : i < j /\ t[j] = "ring"
  <2>1. PICK j \in DOMAIN s : i + 1 < j /\ s[j] = "ring"
    BY <1>3, <1>4, <1>11
  <2>2. j # 1 /\ i < j - 1
    BY <1>1, <1>2, <2>1
  <2> QED
    BY <1>5, <2>1, <2>2
<1>12. Undoes(t, set \ {Head(s)})
  BY <1>3, <1>8, <1>9, <1>10, <1>11 DEF Undoes, Lists
<1>13. t = <<>> => set = {Head(s)}
  <2>1. t = <<>> => DOMAIN t = {}
    OBVIOUS
  <2> QED
    BY <1>6, <1>10, <2>1
<1>14. Head(s) \in Callbacks => "ring" \in set
  BY <1>1, <1>3
<1>15. ASSUME Head(s) = "ring", NEW x \in set \cap Callbacks
       PROVE  FALSE
  <2>1. PICK i \in DOMAIN s : s[i] = x
    BY <1>3
  <2>2. PICK j \in DOMAIN s : i < j /\ s[j] = "ring"
    BY <1>3, <2>1
  <2>3. j = 1
    BY <1>1, <1>3, <1>15, <2>2
  <2> QED
    BY <1>1, <2>2, <2>3
<1> QED
  BY <1>6, <1>12, <1>13, <1>14, <1>15 DEF t

LEMMA UndoesTyped ==
  ASSUME NEW s, NEW set, Undoes(s, set)
  PROVE  s \in Seq(Resources) /\ set \subseteq Resources
<1> DEFINE R == Resources
<1>1. s \in Seq(set) /\ set \subseteq R
  BY DEF Undoes, Lists
<1> SUFFICES s \in Seq(R) /\ set \subseteq R
  OBVIOUS
<1> HIDE DEF R
<1> QED
  BY <1>1

\* A list of what is set up has as many entries.
LEMMA ListCounts ==
  ASSUME NEW s, NEW set, Lists(s, set)
  PROVE  Cardinality(set) = Len(s)
<1>1. Len(s) \in Nat /\ DOMAIN s = 1 .. Len(s)
  BY DEF Lists
<1>2. s \in Bijection(1 .. Len(s), set)
  BY <1>1 DEF Lists, Bijection, Injection, Surjection, IsInjective
<1> QED
  BY <1>1, <1>2, FS_CountingElements DEF ExistsBijection

----------------------------------------------------------------------------
(* Consequences of the invariant *)

\* Whenever a callback is set up, so is the ring.
LEMMA RingUnderCallbacks ==
  ASSUME Progress, TypeOK, held \cap Callbacks # {}
  PROVE  "ring" \in held
<1>1. CASE stage = "entry"
  <2>1. PICK k \in 1 .. 7 : held = Done(k)
    BY <1>1 DEF Progress, AtStep
  <2> QED
    BY <2>1, SetUpBefore
<1>2. CASE Undoing
  BY <1>2 DEF Progress, Undoes, Lists
<1> QED
  BY <1>1, <1>2 DEF TypeOK, Progress, Undoing

\* While a user of the ring is in it, the ring is there.
LEMMA RingUnderUsers ==
  ASSUME IInv
  PROVE  /\ \A c \in Cpus : inside[c] # "none" => "ring" \in held
         /\ \A u \in Clients : clients[u] # "closed" => "ring" \in held
<1>1. ASSUME NEW c \in Cpus, inside[c] # "none"
      PROVE  "ring" \in held
  <2>1. inside[c] \in Callbacks
    BY <1>1 DEF IInv, TypeOK
  <2>2. inside[c] \in held \cup {draining}
    BY <1>1 DEF IInv, CallsAreSafe
  <2>3. CASE inside[c] \in held
    BY <2>1, <2>3, RingUnderCallbacks DEF IInv
  <2> QED
    BY <2>1, <2>2, <2>3 DEF IInv, CallsAreSafe
<1>2. ASSUME NEW u \in Clients, clients[u] # "closed"
      PROVE  "ring" \in held
  BY <1>2 DEF IInv, HandlesAreSafe, Progress
<1> QED
  BY <1>1, <1>2

----------------------------------------------------------------------------
(* Every step keeps the invariant *)

LEMMA InitIInv == Init => IInv
<1> SUFFICES ASSUME Init PROVE IInv
  OBVIOUS
<1>1. <<>> \in Seq(Resources)
  OBVIOUS
<1> QED
  BY <1>1 DEF Init, IInv, TypeOK, Progress, CallsAreSafe, HandlesAreSafe, Undoing

\* At step k of DriverEntry.
LEMMA StepOfEntry ==
  ASSUME NEW k \in 1 .. 7, AtStep(k)
  PROVE  /\ todo \in Seq(Resources) /\ Len(todo) = 8 - k /\ Head(todo) = EntrySteps[k]
         /\ Tail(todo) = [i \in 1 .. 7 - k |-> EntrySteps[(k + 1) + i - 1]]
<1>1. \A i \in 1 .. 8 - k : k + i - 1 \in 1 .. 7
  OBVIOUS
<1>2. todo \in Seq(Resources) /\ Len(todo) = 8 - k /\ DOMAIN todo = 1 .. 8 - k
  <2> DEFINE R == Resources
             n == 8 - k
  <2>1. n \in Nat /\ todo = [i \in 1 .. n |-> EntrySteps[k + i - 1]]
    BY DEF AtStep
  <2>2. \A i \in 1 .. n : EntrySteps[k + i - 1] \in R
    BY <1>1, EntryList
  <2> SUFFICES todo \in Seq(R) /\ Len(todo) = n /\ DOMAIN todo = 1 .. n
    OBVIOUS
  <2> HIDE DEF R, n
  <2>3. todo \in [1 .. n -> R]
    BY <2>1, <2>2
  <2> QED
    BY <2>1, <2>3, FunIsSeq
<1>3. Head(todo) = EntrySteps[k]
  BY <1>2 DEF AtStep
<1>4. Tail(todo) = [i \in 1 .. 7 - k |-> EntrySteps[(k + 1) + i - 1]]
  <2>1. Tail(todo) = [i \in 1 .. 7 - k |-> todo[i + 1]]
    <3>1. Tail(todo) = [i \in 1 .. Len(todo) - 1 |-> todo[i + 1]]
      <4>1. todo \in Seq(Resources) /\ todo # <<>>
        BY <1>2
      <4> HIDE DEF Resources
      <4> QED
        BY <4>1, TailOfSeq
    <3>2. Len(todo) - 1 = 7 - k
      BY <1>2
    <3> QED
      BY <3>1, <3>2
  <2>2. \A i \in 1 .. 7 - k : todo[i + 1] = EntrySteps[(k + 1) + i - 1]
    BY DEF AtStep
  <2> QED
    BY <2>1, <2>2
<1> QED
  BY <1>2, <1>3, <1>4

LEMMA DoneNext ==
  ASSUME NEW k \in 1 .. 7
  PROVE  /\ Done(k) \cup {EntrySteps[k]} = IF k = 7 THEN Resources ELSE Done(k + 1)
         /\ k # 7 => EntrySteps[k] # "dispatch"
<1>1. k \in {1, 2, 3, 4, 5, 6, 7}
  OBVIOUS
<1> QED
  BY <1>1, EntryList, SetUpBefore

LEMMA LoadStep == IInv /\ Load => IInv'
<1> SUFFICES ASSUME IInv, Load PROVE IInv'
  OBVIOUS
<1>1. AtStep(1)'
  <2>1. EntrySteps = [i \in 1 .. 8 - 1 |-> EntrySteps[1 + i - 1]]
    <3>1. DOMAIN EntrySteps = 1 .. 7 /\ EntrySteps = [i \in 1 .. 7 |-> EntrySteps[i]]
      BY EntryList
    <3>2. \A i \in 1 .. 7 : 1 + i - 1 = i
      OBVIOUS
    <3> QED
      BY <3>1, <3>2
  <2>2. held = {}
    BY DEF IInv, Progress, Load
  <2> QED
    BY <2>1, <2>2, SetUpBefore DEF Load, AtStep
<1>2. TypeOK'
  BY EntryList DEF IInv, TypeOK, Load, Kernel, CallsAreSafe, Undoing
<1>3. Progress'
  BY <1>1 DEF Load, Progress, Undoing
<1>4. CallsAreSafe' /\ HandlesAreSafe' /\ ~ stray'
  BY DEF IInv, CallsAreSafe, HandlesAreSafe, Load, Kernel, Undoing
<1> QED
  BY <1>2, <1>3, <1>4 DEF IInv

LEMMA SetUpStep == IInv /\ SetUp => IInv'
<1> SUFFICES ASSUME IInv, SetUp PROVE IInv'
  OBVIOUS
<1>1. PICK k \in 1 .. 7 : AtStep(k)
  BY DEF IInv, Progress, SetUp
<1>2. /\ Head(todo) = EntrySteps[k] /\ EntrySteps[k] \in Resources /\ Len(todo) = 8 - k
      /\ todo' \in Seq(Resources) /\ todo' = [i \in 1 .. 7 - k |-> EntrySteps[(k + 1) + i - 1]]
  <2>1. todo \in Seq(Resources) /\ todo # <<>> /\ EntrySteps[k] \in Resources
    BY <1>1, StepOfEntry, EntryList
  <2> HIDE DEF Resources
  <2> QED
    BY <1>1, <2>1, StepOfEntry DEF SetUp
<1>3. held' = IF k = 7 THEN Resources ELSE Done(k + 1)
  BY <1>1, <1>2, DoneNext DEF SetUp, AtStep
<1>4. CASE k = 7
  <2>1. stage' = "loaded" /\ todo' = <<>> /\ held' = Resources
    BY <1>2, <1>3, <1>4 DEF SetUp
  <2> QED
    BY <1>2, <2>1 DEF IInv, TypeOK, Progress, CallsAreSafe, HandlesAreSafe, SetUp, Kernel, Undoing
<1>5. CASE k # 7
  <2>1. stage' = "entry"
    BY <1>2, <1>5 DEF SetUp
  <2>2. k + 1 \in 1 .. 7 /\ AtStep(k + 1)'
    <3>1. 8 - (k + 1) = 7 - k /\ k + 1 \in 1 .. 7
      BY <1>5
    <3> QED
      BY <1>2, <1>3, <1>5, <3>1 DEF AtStep
  <2>3. Progress'
    BY <2>1, <2>2 DEF Progress, Undoing
  <2>4. TypeOK'
    BY <1>2, <2>1 DEF IInv, TypeOK, SetUp, Kernel
  <2>5. CallsAreSafe' /\ HandlesAreSafe' /\ ~ stray'
    BY <2>1 DEF IInv, CallsAreSafe, HandlesAreSafe, SetUp, Kernel, Undoing
  <2> QED
    BY <2>3, <2>4, <2>5 DEF IInv
<1> QED
  BY <1>4, <1>5

LEMMA StepFailsStep == IInv /\ StepFails => IInv'
<1> SUFFICES ASSUME IInv, StepFails PROVE IInv'
  OBVIOUS
<1>1. PICK k \in 1 .. 7 : AtStep(k)
  BY DEF IInv, Progress, StepFails
<1>2. Head(todo) = EntrySteps[k] /\ k \in 1 .. 6
  BY <1>1, StepOfEntry, EntryList DEF StepFails
<1>3. Undoes(todo', held')
  BY <1>1, <1>2, FailureUndoes DEF StepFails, AtStep
<1>4. todo' \in Seq(Resources) /\ held' \subseteq Resources
  BY <1>3, UndoesTyped
<1>5. todo' = <<>> => held' = {}
  BY <1>3 DEF Undoes, Lists
<1>6. stage' = IF todo' = <<>> THEN "failed" ELSE "rollback"
  BY DEF StepFails
<1>7. draining = "none" /\ draining' = "none" /\ held' = held
  BY DEF IInv, TypeOK, StepFails
<1>8. TypeOK'
  BY <1>4, <1>6, <1>7 DEF IInv, TypeOK, StepFails, Kernel
<1>9. Progress'
  BY <1>3, <1>5, <1>6 DEF Progress, Undoing
<1>10. CallsAreSafe' /\ HandlesAreSafe' /\ ~ stray'
  BY <1>7 DEF IInv, CallsAreSafe, HandlesAreSafe, StepFails, Kernel, Undoing
<1> QED
  BY <1>8, <1>9, <1>10 DEF IInv

LEMMA TearDownStep == IInv /\ TearDown => IInv'
<1> SUFFICES ASSUME IInv, TearDown PROVE IInv'
  OBVIOUS
<1> DEFINE h == Head(todo)
<1>1. Undoing /\ todo # <<>> /\ Undoes(todo, held) /\ todo \in Seq(Resources) /\ held \in SUBSET Resources
  BY DEF IInv, Progress, TearDown, TypeOK, Undoing
<1>2. /\ h \in held /\ Undoes(Tail(todo), held \ {h})
      /\ Tail(todo) = <<>> => held = {h}
      /\ h \in Callbacks => "ring" \in held
      /\ h = "ring" => held \cap Callbacks = {}
  BY <1>1, FirstUndone
<1>3. Len(todo) > 1 <=> Tail(todo) # <<>>
  <2>1. todo \in Seq(held)
    BY <1>1 DEF Undoes, Lists
  <2> QED
    BY <1>1, <2>1, TailOfSeq
<1>4. /\ todo' = Tail(todo) /\ held' = held \ {h} /\ draining = "none"
      /\ draining' = IF h \in Callbacks THEN h ELSE "none"
      /\ stage' = IF Tail(todo) # <<>> THEN stage
                  ELSE IF stage = "rollback" THEN "failed" ELSE "unloaded"
      /\ UNCHANGED Kernel
  BY <1>3 DEF TearDown
<1> HIDE DEF h
<1>5. h \in Callbacks => "ring" \in held' /\ Undoing'
  <2> SUFFICES ASSUME h \in Callbacks PROVE "ring" \in held' /\ Undoing'
    OBVIOUS
  <2>1. "ring" \in held /\ h # "ring"
    BY <1>2
  <2>2. Tail(todo) # <<>>
    BY <1>2, <2>1
  <2> QED
    BY <1>1, <1>4, <2>1, <2>2 DEF Undoing
<1>6. TypeOK'
  <2>1. todo' \in Seq(Resources) /\ held' \subseteq Resources
    BY <1>2, <1>4, UndoesTyped
  <2>2. draining' # "none" => Undoing' /\ draining' \notin held'
    BY <1>4, <1>5
  <2> QED
    BY <1>4, <2>1, <2>2 DEF IInv, TypeOK, Kernel, Undoing
<1>7. Progress'
  <2>1. stage' \in {"failed", "unloaded"} => todo' = <<>> /\ held' = {}
    BY <1>1, <1>2, <1>4 DEF Undoing
  <2>2. Undoing' => todo' # <<>>
    BY <1>4 DEF Undoing
  <2> QED
    BY <1>1, <1>2, <1>4, <2>1, <2>2 DEF Progress, Undoing
<1>8. CallsAreSafe'
  <2>1. \A c \in Cpus : inside'[c] # "none" => inside'[c] \in held' \cup {draining'}
    BY <1>4 DEF IInv, CallsAreSafe, TypeOK, Kernel
  <2> QED
    BY <1>4, <1>5, <2>1 DEF CallsAreSafe
<1>9. HandlesAreSafe' /\ ~ stray'
  BY <1>1, <1>4 DEF IInv, HandlesAreSafe, Kernel, Undoing
<1> QED
  BY <1>6, <1>7, <1>8, <1>9 DEF IInv

LEMMA DrainedStep == IInv /\ Drained => IInv'
BY DEF IInv, TypeOK, Progress, CallsAreSafe, HandlesAreSafe, Undoing, Drained, Kernel

LEMMA UnloadStep == IInv /\ Unload => IInv'
<1> SUFFICES ASSUME IInv, Unload PROVE IInv'
  OBVIOUS
<1>1. held' = Resources \ {"dispatch"} /\ todo' = UnloadSteps /\ stage' = "unloading"
  BY DEF IInv, Progress, Unload
<1>2. Undoes(todo', held') /\ todo' # <<>>
  BY <1>1, UnloadUndoes
<1>3. todo' \in Seq(Resources) /\ held' \subseteq Resources
  BY <1>2, UndoesTyped
<1>4. draining = "none" /\ draining' = "none"
  BY DEF IInv, TypeOK, Unload
<1>5. TypeOK'
  BY <1>1, <1>3, <1>4 DEF IInv, TypeOK, Unload, Kernel
<1>6. Progress'
  BY <1>1, <1>2 DEF Progress, Undoing
<1>7. CallsAreSafe'
  BY <1>1, <1>4 DEF IInv, TypeOK, CallsAreSafe, Unload, Kernel
<1>8. HandlesAreSafe' /\ ~ stray'
  BY DEF IInv, HandlesAreSafe, Unload, Kernel
<1> QED
  BY <1>5, <1>6, <1>7, <1>8 DEF IInv

LEMMA CallbackStep ==
  ASSUME IInv, NEW c \in Cpus, Enter(c) \/ WriteAndReturn(c) \/ ReturnEarly(c)
  PROVE  IInv'
<1>1. UNCHANGED <<stage, todo, held, draining, clients>>
  BY DEF Enter, WriteAndReturn, ReturnEarly, driver
<1>2. \E kind \in (Callbacks \cap held) \cup {"none"} : inside' = [inside EXCEPT ![c] = kind]
  BY DEF Enter, WriteAndReturn, ReturnEarly
<1>3. ~ stray'
  <2>1. CASE WriteAndReturn(c)
    <3>1. "ring" \in held
      BY <2>1, RingUnderUsers DEF WriteAndReturn
    <3> QED
      BY <2>1, <3>1 DEF IInv, WriteAndReturn, TouchRing
  <2> QED
    BY <2>1 DEF IInv, Enter, ReturnEarly
<1>4. TypeOK'
  <2>1. inside' \in [Cpus -> Callbacks \cup {"none"}]
    BY <1>2 DEF IInv, TypeOK
  <2>2. stray' \in BOOLEAN
    BY DEF IInv, TypeOK, Enter, WriteAndReturn, ReturnEarly, TouchRing
  <2> QED
    BY <1>1, <2>1, <2>2 DEF IInv, TypeOK
<1>5. Progress' /\ HandlesAreSafe'
  BY <1>1 DEF IInv, Progress, HandlesAreSafe, Undoing, AtStep
<1>6. CallsAreSafe'
  BY <1>1, <1>2 DEF IInv, TypeOK, CallsAreSafe, Undoing
<1> QED
  BY <1>3, <1>4, <1>5, <1>6 DEF IInv

LEMMA ClientStep ==
  ASSUME IInv, NEW u \in Clients, Open(u) \/ Request(u) \/ Serve(u) \/ Close(u)
  PROVE  IInv'
<1>1. UNCHANGED <<stage, todo, held, draining, inside>>
  BY DEF Open, Request, Serve, Close, driver
<1>2. \E st \in {"closed", "open", "ioctl"} : clients' = [clients EXCEPT ![u] = st]
  BY DEF Open, Request, Serve, Close
<1>3. stage = "loaded"
  <2>1. CASE Open(u)
    <3>1. "dispatch" \in held
      BY <2>1 DEF Open
    <3>2. stage # "entry"
      <4>1. ASSUME NEW k \in 1 .. 7, held = Done(k)
            PROVE  FALSE
        <5>1. k \in {1, 2, 3, 4, 5, 6, 7}
          OBVIOUS
        <5> QED
          BY <3>1, <4>1, <5>1, SetUpBefore
      <4> QED
        BY <4>1 DEF IInv, Progress, AtStep
    <3>3. ~ Undoing
      BY <3>1 DEF IInv, Progress, Undoes
    <3> QED
      BY <3>1, <3>2, <3>3 DEF IInv, TypeOK, Progress, Undoing
  <2> QED
    BY <2>1 DEF IInv, HandlesAreSafe, Request, Serve, Close
<1>4. ~ stray'
  <2>1. "ring" \in held
    BY <1>3 DEF IInv, Progress
  <2> QED
    BY <2>1 DEF IInv, Open, Request, Serve, Close, TouchRing
<1>5. TypeOK'
  <2>1. clients' \in [Clients -> {"closed", "open", "ioctl"}]
    BY <1>2 DEF IInv, TypeOK
  <2>2. stray' \in BOOLEAN
    BY DEF IInv, TypeOK, Open, Request, Serve, Close, TouchRing
  <2> QED
    BY <1>1, <2>1, <2>2 DEF IInv, TypeOK
<1>6. Progress' /\ CallsAreSafe' /\ HandlesAreSafe'
  BY <1>1, <1>3 DEF IInv, Progress, CallsAreSafe, HandlesAreSafe, Undoing, AtStep
<1> QED
  BY <1>4, <1>5, <1>6 DEF IInv

LEMMA NextIInv == IInv /\ [Next]_vars => IInv'
<1> SUFFICES ASSUME IInv, [Next]_vars PROVE IInv'
  OBVIOUS
<1>1. CASE Thread
  BY <1>1, LoadStep, SetUpStep, StepFailsStep, TearDownStep, DrainedStep, UnloadStep DEF Thread
<1>2. CASE \E c \in Cpus : Enter(c) \/ WriteAndReturn(c) \/ ReturnEarly(c)
  BY <1>2, CallbackStep
<1>3. CASE \E u \in Clients : Open(u) \/ Request(u) \/ Serve(u) \/ Close(u)
  BY <1>3, ClientStep
<1>4. CASE UNCHANGED vars
  BY <1>4 DEF vars, IInv, TypeOK, Progress, CallsAreSafe, HandlesAreSafe, Undoing, AtStep
<1> QED
  BY <1>1, <1>2, <1>3, <1>4 DEF Next

----------------------------------------------------------------------------
(* Theorems.  They need no fairness. *)

\* The inductive invariant holds in every state of the driver's life.
THEOREM Invariance == Spec => []IInv
BY InitIInv, NextIInv, PTL DEF Spec

\* TypeOK, for any number of CPUs and clients.
THEOREM TypeCorrect == Spec => []TypeOK
<1>1. IInv => TypeOK
  BY DEF IInv
<1> QED
  BY <1>1, Invariance, PTL

\* No callback and no request touches ring memory that is not there, however
\* many of them run while the driver is loaded, fails to load or is unloaded.
THEOREM RingSafe == Spec => []RingOutlivesUsers
<1>1. IInv => RingOutlivesUsers
  BY RingUnderUsers DEF RingOutlivesUsers, IInv
<1> QED
  BY <1>1, Invariance, PTL

\* Whichever step fails, and after every unload, nothing is left set up.
THEOREM NoLeak == Spec => []NothingLeaks
<1>1. IInv => NothingLeaks
  BY DEF NothingLeaks, IInv, Progress
<1> QED
  BY <1>1, Invariance, PTL

\* The rollback of any step of DriverEntry, and NullTracerUnload, release what
\* is set up, each once.
THEOREM ExactTearDown == Spec => []TearDownIsExact
<1>1. IInv => TearDownIsExact
  <2> SUFFICES ASSUME IInv, Undoing
               PROVE  {todo[i] : i \in DOMAIN todo} = held /\ Cardinality(held) = Len(todo)
    BY DEF TearDownIsExact, Undoing
  <2>1. Lists(todo, held)
    BY DEF IInv, Progress, Undoes
  <2> QED
    BY <2>1, ListCounts DEF Lists
<1> QED
  BY <1>1, Invariance, PTL
============================================================================
