---------------------------- MODULE FileMapProofs ----------------------------
(***************************************************************************)
(* Proofs about FileMap, for any goroutines, names, entries and capacity.  *)
(***************************************************************************)
EXTENDS FileMap, TLAPS, SequenceTheorems

-----------------------------------------------------------------------------
(* Lemmas about the LRU list. *)

In(x, s) == \E i \in 1..Len(s) : s[i] = x
Injective(s) == \A i, j \in 1..Len(s) : s[i] = s[j] => i = j

(* What list.Remove does to the list: exactly the removed name is gone.    *)
LEMMA RemoveFirstProperties ==
    ASSUME NEW S, NEW s \in Seq(S), NEW x, Injective(s)
    PROVE  LET r == RemoveFirst(s, x)
           IN  /\ r \in Seq(S)
               /\ Injective(r)
               /\ \A y : In(y, r) <=> In(y, s) /\ y # x
<1>1. CASE ~In(x, s)
  BY <1>1 DEF RemoveFirst, In
<1>2. CASE In(x, s)
  <2>1. PICK k \in 1..Len(s) : s[k] = x
    BY <1>2 DEF In
  <2>2. {i \in 1..Len(s) : s[i] = x} = {k}
    BY <2>1 DEF Injective
  <2>3. Min({k}) = k
    BY DEF Min
  <2>4. SelectInSeq(s, LAMBDA v : v = x) = k
    BY <2>2, <2>3 DEF SelectInSeq
  <2>5. RemoveFirst(s, x) = SubSeq(s, 1, k-1) \o SubSeq(s, k+1, Len(s))
    BY <1>2, <2>4 DEF RemoveFirst, RemoveAt, In
  <2> DEFINE a == SubSeq(s, 1, k-1)
             b == SubSeq(s, k+1, Len(s))
             r == a \o b
  <2>6. /\ a \in Seq(S) /\ b \in Seq(S)
        /\ Len(a) = k-1 /\ Len(b) = Len(s) - k
        /\ \A i \in 1..k-1 : a[i] = s[i]
        /\ \A i \in 1..Len(s)-k : b[i] = s[k+i]
    BY <2>1
  <2> HIDE DEF a, b
  <2>7. /\ r \in Seq(S)
        /\ Len(r) = Len(s) - 1
        /\ \A i \in 1..Len(s)-1 : r[i] = IF i < k THEN s[i] ELSE s[i+1]
    <3>1. /\ r \in Seq(S)
          /\ Len(r) = Len(a) + Len(b)
          /\ \A i \in 1..Len(a) + Len(b) :
                r[i] = IF i <= Len(a) THEN a[i] ELSE b[i - Len(a)]
      BY <2>6, ConcatProperties
    <3>2. Len(s) \in Nat /\ k \in Int /\ Len(a) + Len(b) = Len(s) - 1
      BY <2>1, <2>6
    <3>3. ASSUME NEW i \in 1..Len(s)-1
          PROVE  r[i] = IF i < k THEN s[i] ELSE s[i+1]
      <4>1. CASE i < k
        BY <2>6, <3>1, <3>2, <4>1
      <4>2. CASE i >= k
        <5>1. r[i] = b[i - (k-1)]
          BY <2>6, <3>1, <3>2, <4>2
        <5>2. i - (k-1) \in 1..Len(s)-k /\ k + (i - (k-1)) = i + 1
          BY <3>2, <4>2
        <5> QED BY <2>6, <3>2, <4>2, <5>1, <5>2
      <4> QED BY <3>2, <4>1, <4>2
    <3> QED BY <3>1, <3>2, <3>3
  <2>8. r = RemoveFirst(s, x)
    BY <2>5 DEF a, b
  <2> HIDE DEF r
  <2>9. Injective(r)
    BY <2>1, <2>7 DEF Injective
  <2>10. ASSUME NEW y PROVE In(y, r) <=> In(y, s) /\ y # x
    <3>1. ASSUME In(y, r) PROVE In(y, s) /\ y # x
      BY <2>1, <2>7, <3>1 DEF In, Injective
    <3>2. ASSUME In(y, s), y # x PROVE In(y, r)
      <4>1. PICK j \in 1..Len(s) : s[j] = y
        BY <3>2 DEF In
      <4>2. CASE j < k
        BY <2>1, <2>7, <4>1, <4>2 DEF In
      <4>3. CASE j > k
        <5>1. j-1 \in 1..Len(s)-1 /\ r[j-1] = s[j]
          BY <2>1, <2>7, <4>1, <4>3
        <5> QED BY <2>7, <4>1, <5>1 DEF In
      <4> QED BY <2>1, <3>2, <4>1, <4>2, <4>3
    <3> QED BY <3>1, <3>2
  <2> QED BY <2>7, <2>8, <2>9, <2>10
<1> QED BY <1>1, <1>2

(* What list.PushFront does to the list. *)
LEMMA PushFrontProperties ==
    ASSUME NEW S, NEW s \in Seq(S), NEW x \in S, Injective(s), ~In(x, s)
    PROVE  LET r == <<x>> \o s
           IN  /\ r \in Seq(S)
               /\ Injective(r)
               /\ \A y : In(y, r) <=> In(y, s) \/ y = x
<1> DEFINE r == <<x>> \o s
<1>1. /\ r \in Seq(S)
      /\ Len(r) = Len(s) + 1
      /\ r[1] = x
      /\ \A i \in 1..Len(s) : r[i+1] = s[i]
      /\ \A i \in 2..Len(s)+1 : r[i] = s[i-1]
  OBVIOUS
<1> HIDE DEF r
<1>2. Injective(r)
  <2> SUFFICES ASSUME NEW i \in 1..Len(r), NEW j \in 1..Len(r), r[i] = r[j]
               PROVE  i = j
    BY DEF Injective
  <2>1. \A k \in 2..Len(r) : k-1 \in 1..Len(s) /\ r[k] = s[k-1] /\ r[k] # x
    <3> TAKE k \in 2..Len(r)
    <3>1. k-1 \in 1..Len(s) /\ r[k] = s[k-1]
      BY <1>1
    <3> QED BY <3>1 DEF In
  <2>2. CASE i = 1 \/ j = 1
    BY <1>1, <2>1, <2>2
  <2>3. CASE i # 1 /\ j # 1
    <3>1. i \in 2..Len(r) /\ j \in 2..Len(r)
      BY <1>1, <2>3
    <3>2. /\ i-1 \in 1..Len(s) /\ j-1 \in 1..Len(s)
          /\ s[i-1] = s[j-1]
      BY <2>1, <3>1
    <3>3. i-1 = j-1
      BY <3>2 DEF Injective
    <3> QED BY <3>1, <3>3
  <2> QED BY <2>2, <2>3
<1>3. ASSUME NEW y PROVE In(y, r) <=> In(y, s) \/ y = x
  <2>1. ASSUME In(y, r) PROVE In(y, s) \/ y = x
    <3>1. PICK i \in 1..Len(r) : r[i] = y
      BY <2>1 DEF In
    <3>2. CASE i = 1
      BY <1>1, <3>1, <3>2
    <3>3. CASE i # 1
      <4>1. i-1 \in 1..Len(s) /\ s[i-1] = y
        BY <1>1, <3>1, <3>3
      <4> QED BY <4>1 DEF In
    <3> QED BY <3>2, <3>3
  <2>2. ASSUME In(y, s) PROVE In(y, r)
    <3>1. PICK i \in 1..Len(s) : s[i] = y
      BY <2>2 DEF In
    <3>2. i+1 \in 1..Len(r) /\ r[i+1] = y
      BY <1>1, <3>1
    <3> QED BY <3>2 DEF In
  <2>3. In(x, r)
    BY <1>1 DEF In
  <2> QED BY <2>1, <2>2, <2>3
<1> QED BY <1>1, <1>2, <1>3 DEF r

(* What list.MoveToFront does to the list: the same names in a new order.  *)
LEMMA MoveToFrontProperties ==
    ASSUME NEW S, NEW s \in Seq(S), NEW x \in S, Injective(s), In(x, s)
    PROVE  LET r == <<x>> \o RemoveFirst(s, x)
           IN  /\ r \in Seq(S)
               /\ Injective(r)
               /\ \A y : In(y, r) <=> In(y, s)
<1> DEFINE t == RemoveFirst(s, x)
<1>1. t \in Seq(S) /\ Injective(t) /\ \A y : In(y, t) <=> In(y, s) /\ y # x
  BY RemoveFirstProperties
<1> HIDE DEF t
<1>2. ~In(x, t)
  BY <1>1
<1>3. /\ <<x>> \o t \in Seq(S)
      /\ Injective(<<x>> \o t)
      /\ \A y : In(y, <<x>> \o t) <=> In(y, t) \/ y = x
  BY <1>1, <1>2, PushFrontProperties
<1> QED BY <1>1, <1>3 DEF t

-----------------------------------------------------------------------------
(* The inductive invariant: what each goroutine has in hand, who holds     *)
(* which lock, and that an entry about to be stored is not stored yet.     *)

InControl(p) ==
    /\ pc[p] \in {"idle", "evict"} <=> ent[p] = None
    /\ pc[p] # "idle" => name[p] \in Name
    /\ pc[p] \in {"insert", "evict"} => op[p] = "Store"
    /\ pc[p] \in {"acquire", "recheck"} => op[p] \in Loads \cup {"Delete", "Evict"}
    /\ pc[p] = "remove" => op[p] \in {"Store", "Delete", "Evict"}

ControlInv == \A p \in Goroutine : InControl(p)

HasLock(p) == pc[p] \in {"insert", "recheck", "callback", "remove", "unlock"}

LockInv ==
    \A p \in Goroutine, e \in Entry :
        /\ writer[e] = p <=> HasLock(p) /\ ~Shared(op[p]) /\ ent[p] = e
        /\ p \in readers[e] <=> HasLock(p) /\ Shared(op[p]) /\ ent[p] = e

FreshInv ==
    \A p \in Goroutine : pc[p] = "insert" => \A n \in Name : elements[n] # ent[p]

IInv == /\ TypeOK
        /\ ControlInv
        /\ LockInv
        /\ FreshInv
        /\ QueueMatchesMap
        /\ HeldStaysStored

(* An empty map satisfies it (file_map.go:67-92). *)
LEMMA InitIInv == Init => IInv
<1> SUFFICES ASSUME Init PROVE IInv
  OBVIOUS
<1>1. TypeOK
  BY DEF Init, TypeOK, Control, Ops
<1>2. ControlInv /\ LockInv /\ FreshInv /\ HeldStaysStored
  BY NoneAssumption DEF Init, ControlInv, InControl, LockInv, HasLock, FreshInv,
                        HeldStaysStored, Held
<1>3. QueueMatchesMap
  BY DEF Init, QueueMatchesMap, Present
<1> QED BY <1>1, <1>2, <1>3 DEF IInv

(* get never changes which names are in the list. *)
LEMMA GetKeepsQueue ==
    ASSUME TypeOK, QueueMatchesMap, NEW n \in Name, Get(n), elements' = elements
    PROVE  queue' \in Seq(Name) /\ QueueMatchesMap'
<1>1. queue \in Seq(Name) /\ Injective(queue)
  BY DEF TypeOK, QueueMatchesMap, Injective
<1>2. CASE ~Present(n)
  BY <1>1, <1>2 DEF Get, QueueMatchesMap, Present
<1>3. CASE Present(n)
  <2>1. In(n, queue)
    BY <1>3 DEF QueueMatchesMap, In
  <2>2. queue' = <<n>> \o RemoveFirst(queue, n)
    BY <1>3 DEF Get
  <2>3. /\ queue' \in Seq(Name)
        /\ Injective(queue')
        /\ \A y : In(y, queue') <=> In(y, queue)
    BY <1>1, <2>1, <2>2, MoveToFrontProperties
  <2>4. \A m \in Name : Present(m)' <=> In(m, queue')
    BY <2>3 DEF QueueMatchesMap, Present, In
  <2> QED BY <2>3, <2>4 DEF QueueMatchesMap, Present, In, Injective
<1> QED BY <1>2, <1>3

(* Two goroutines whose look-ups hold have different names, or both read.  *)
LEMMA LocksExclude ==
    ASSUME IInv, NEW p \in Goroutine, NEW q \in Goroutine, p # q,
           Held(p), Held(q), name[p] = name[q]
    PROVE  Shared(op[p]) /\ Shared(op[q])
<1>1. ent[p] = ent[q] /\ ent[p] \in Entry
  BY DEF IInv, HeldStaysStored, StillStored, ControlInv, InControl, Held, TypeOK
<1>2. HasLock(p) /\ HasLock(q)
  BY DEF Held, HasLock
<1> QED BY <1>1, <1>2, NoneAssumption DEF IInv, LockInv, TypeOK

-----------------------------------------------------------------------------
(* Every action preserves the invariant. *)

(* TryStore locks its new entry, which nobody else has                     *)
(* (file_map.go:210-221).                                                  *)
LEMMA TryStoreStep ==
    ASSUME IInv, NEW p \in Goroutine, NEW n \in Name, TryStore(p, n)
    PROVE  IInv'
<1> USE NoneAssumption DEF IInv, TryStore, mapVars, Goto
<1>1. PICK e \in Entry : /\ Free(e)
                         /\ ent' = [ent EXCEPT ![p] = e]
                         /\ writer' = [writer EXCEPT ![e] = p]
  OBVIOUS
<1>2. writer[e] = None /\ readers[e] = {}
  BY <1>1 DEF Free, LockInv, TypeOK
<1>3. TypeOK'
  BY <1>1, <1>2 DEF TypeOK, Ops, Control
<1>4. ControlInv'
  BY <1>1 DEF TypeOK, ControlInv, InControl
<1>5. LockInv'
  BY <1>1, <1>2 DEF TypeOK, LockInv, HasLock, Shared, Free
<1>6. FreshInv'
  BY <1>1 DEF TypeOK, FreshInv, Free
<1>7. QueueMatchesMap'
  BY DEF QueueMatchesMap, Present
<1>8. ASSUME NEW q \in Goroutine, Held(q)' PROVE StillStored(q)'
  <2>1. q # p /\ Held(q)
    BY <1>8 DEF TypeOK, Held
  <2> QED BY <1>1, <2>1 DEF TypeOK, HeldStaysStored, StillStored
<1> QED BY <1>3, <1>4, <1>5, <1>6, <1>7, <1>8 DEF HeldStaysStored

(* The insertion: the name enters the list and the map at once             *)
(* (file_map.go:223-255).                                                  *)
LEMMA InsertStep ==
    ASSUME IInv, NEW p \in Goroutine, Insert(p)
    PROVE  IInv'
<1> USE NoneAssumption DEF IInv, lockVars, callVars, Goto
<1>1. /\ pc[p] = "insert" /\ op[p] = "Store" /\ name[p] \in Name
      /\ ent[p] \in Entry
  BY DEF Insert, ControlInv, InControl, TypeOK
<1>2. CASE Present(name[p])
  <2> USE <1>1, <1>2 DEF Insert
  <2>1. queue' \in Seq(Name) /\ QueueMatchesMap'
    BY GetKeepsQueue
  <2>2. TypeOK'
    <3>1. pc' \in [Goroutine -> Control] /\ result' \in [Goroutine -> BOOLEAN]
      BY DEF TypeOK, Control
    <3> QED BY <2>1, <3>1 DEF TypeOK
  <2>3. ControlInv'
    BY DEF TypeOK, ControlInv, InControl
  <2>4. LockInv'
    BY DEF TypeOK, LockInv, HasLock
  <2>5. FreshInv' /\ HeldStaysStored'
    BY DEF TypeOK, FreshInv, HeldStaysStored, Held, StillStored
  <2> QED BY <2>1, <2>2, <2>3, <2>4, <2>5
<1>3. CASE ~Present(name[p])
  <2> USE <1>1, <1>3
  <2>1. /\ elements' = [elements EXCEPT ![name[p]] = ent[p]]
        /\ queue' = <<name[p]>> \o queue
        /\ pc' = [pc EXCEPT ![p] = "callback"]
        /\ UNCHANGED <<result, writer, readers, op, name, ent>>
    BY DEF Insert
  <2>2. queue' \in Seq(Name) /\ QueueMatchesMap'
    <3>1. queue \in Seq(Name) /\ Injective(queue) /\ ~In(name[p], queue)
      BY DEF TypeOK, QueueMatchesMap, Injective, In
    <3>2. /\ queue' \in Seq(Name)
          /\ Injective(queue')
          /\ \A y : In(y, queue') <=> In(y, queue) \/ y = name[p]
      BY <2>1, <3>1, PushFrontProperties
    <3>3. \A m \in Name : Present(m)' <=> Present(m) \/ m = name[p]
      BY <2>1 DEF Present, TypeOK
    <3>4. \A m \in Name : Present(m)' <=> In(m, queue')
      BY <3>2, <3>3 DEF QueueMatchesMap, In
    <3>5. \A m \in Name : elements[m] # ent[p]
      BY DEF FreshInv
    <3>6. \A k, m \in Name : Present(k)' /\ elements'[k] = elements'[m] => k = m
      BY <2>1, <3>3, <3>5 DEF TypeOK, QueueMatchesMap, Present
    <3> QED BY <3>2, <3>4, <3>6 DEF QueueMatchesMap, In, Injective, Present
  <2>3. TypeOK'
    BY <2>1, <2>2 DEF TypeOK, Control
  <2>4. ControlInv'
    BY <2>1 DEF TypeOK, ControlInv, InControl
  <2>5. LockInv'
    BY <2>1 DEF TypeOK, LockInv, HasLock
  <2>6. FreshInv'
    BY <2>1 DEF TypeOK, FreshInv, LockInv, HasLock, Shared
  <2>7. ASSUME NEW q \in Goroutine, Held(q)' PROVE StillStored(q)'
    <3>1. CASE q = p
      BY <2>1, <3>1 DEF TypeOK, StillStored
    <3>2. CASE q # p
      <4>1. elements[name[q]] = ent[q] /\ ent[q] \in Entry
        BY <2>1, <2>7, <3>2
           DEF TypeOK, HeldStaysStored, Held, StillStored, ControlInv, InControl
      <4>2. name[q] # name[p]
        BY <4>1 DEF Present
      <4> QED BY <2>1, <4>1, <4>2 DEF TypeOK, StillStored
    <3> QED BY <3>1, <3>2
  <2> QED BY <2>2, <2>3, <2>4, <2>5, <2>6, <2>7 DEF HeldStaysStored
<1> QED BY <1>2, <1>3

(* The look-up under the map's lock; what it finds may be gone when the    *)
(* entry is locked (file_map.go:271-275).                                  *)
LEMMA LookupStep ==
    ASSUME IInv, NEW p \in Goroutine, NEW o \in Loads \cup {"Delete"},
           NEW n \in Name, Lookup(p, o, n)
    PROVE  IInv'
<1> USE NoneAssumption DEF IInv, Lookup, lockVars, Goto, Return
<1>1. queue' \in Seq(Name) /\ QueueMatchesMap'
  BY GetKeepsQueue
<1>2. TypeOK'
  <2>1. CASE Present(n)
    <3>1. /\ op' = [op EXCEPT ![p] = o]
          /\ name' = [name EXCEPT ![p] = n]
          /\ ent' = [ent EXCEPT ![p] = elements[n]]
          /\ pc' = [pc EXCEPT ![p] = "acquire"]
          /\ UNCHANGED <<result, elements, writer, readers>>
      BY <2>1
    <3>2. o \in Ops /\ "acquire" \in Control /\ elements[n] \in Entry \cup {None}
      BY DEF TypeOK, Control, Ops
    <3> QED BY <1>1, <3>1, <3>2 DEF TypeOK
  <2>2. CASE ~Present(n)
    <3>1. result' \in [Goroutine -> BOOLEAN]
      BY <2>2 DEF TypeOK
    <3>2. /\ pc' = [pc EXCEPT ![p] = "idle"]
          /\ op' = [op EXCEPT ![p] = "None"]
          /\ name' = [name EXCEPT ![p] = None]
          /\ ent' = [ent EXCEPT ![p] = None]
          /\ UNCHANGED <<elements, writer, readers>>
      BY <2>2
    <3> QED BY <1>1, <3>1, <3>2 DEF TypeOK, Control, Ops
  <2> QED BY <2>1, <2>2
<1>3. ControlInv'
  BY DEF TypeOK, ControlInv, InControl, Present, Loads
<1>4. LockInv'
  BY DEF TypeOK, LockInv, HasLock
<1>5. FreshInv' /\ HeldStaysStored'
  BY DEF TypeOK, FreshInv, HeldStaysStored, Held, StillStored
<1> QED BY <1>1, <1>2, <1>3, <1>4, <1>5

(* The entry's lock: readers share it, a writer is alone                   *)
(* (file_map.go:277-278, 304-305, 355-356).                                *)
LEMMA AcquireStep ==
    ASSUME IInv, NEW p \in Goroutine, Acquire(p)
    PROVE  IInv'
<1> USE NoneAssumption DEF IInv, Acquire, mapVars, callVars, Goto
<1>1. ent[p] \in Entry
  BY DEF TypeOK, ControlInv, InControl
<1>2. TypeOK'
  BY <1>1 DEF TypeOK, Control
<1>3. ControlInv'
  BY DEF TypeOK, ControlInv, InControl
<1>4. LockInv'
  BY <1>1 DEF TypeOK, LockInv, HasLock
<1>5. FreshInv' /\ HeldStaysStored'
  BY DEF TypeOK, FreshInv, HeldStaysStored, Held, StillStored
<1>6. QueueMatchesMap'
  BY DEF QueueMatchesMap, Present
<1> QED BY <1>2, <1>3, <1>4, <1>5, <1>6

(* The second look under the entry's lock makes the look-up hold           *)
(* (file_map.go:280-286).                                                  *)
LEMMA RecheckStep ==
    ASSUME IInv, NEW p \in Goroutine, Recheck(p)
    PROVE  IInv'
<1> USE NoneAssumption DEF IInv, Recheck, lockVars, callVars, Goto
<1>1. name[p] \in Name
  BY DEF TypeOK, ControlInv, InControl
<1>2. queue' \in Seq(Name) /\ QueueMatchesMap'
  BY <1>1, GetKeepsQueue
<1>3. TypeOK'
  <2>1. pc' \in [Goroutine -> Control]
    BY DEF TypeOK, Control
  <2>2. result' \in [Goroutine -> BOOLEAN]
    BY DEF TypeOK
  <2> QED BY <1>2, <2>1, <2>2 DEF TypeOK
<1>4. ControlInv'
  BY DEF TypeOK, ControlInv, InControl
<1>5. LockInv'
  <2>1. \A q \in Goroutine : HasLock(q)' <=> HasLock(q)
    BY DEF TypeOK, HasLock
  <2>2. UNCHANGED <<writer, readers, op, ent>>
    OBVIOUS
  <2> QED BY <2>1, <2>2 DEF LockInv
<1>6. FreshInv'
  BY DEF TypeOK, FreshInv
<1>7. HeldStaysStored'
  <2>1. \A q \in Goroutine : StillStored(q)' <=> StillStored(q)
    BY DEF StillStored
  <2>2. ASSUME NEW q \in Goroutine, Held(q)'
        PROVE  StillStored(q)
    BY <2>2 DEF TypeOK, HeldStaysStored, Held
  <2> QED BY <2>1, <2>2 DEF HeldStaysStored
<1> QED BY <1>2, <1>3, <1>4, <1>5, <1>6, <1>7

(* f returns, with the entry still locked (file_map.go:288, 366-368).      *)
LEMMA CallbackStep ==
    ASSUME IInv, NEW p \in Goroutine, NEW ok \in BOOLEAN, Callback(p, ok)
    PROVE  IInv'
<1> USE NoneAssumption DEF IInv, Callback, mapVars, lockVars, callVars, Goto
<1>1. TypeOK'
  BY DEF TypeOK, Control
<1>2. ControlInv'
  BY DEF TypeOK, ControlInv, InControl
<1>3. LockInv'
  BY DEF TypeOK, LockInv, HasLock
<1>4. FreshInv' /\ HeldStaysStored'
  BY DEF TypeOK, FreshInv, HeldStaysStored, Held, StillStored
<1>5. QueueMatchesMap'
  BY DEF QueueMatchesMap, Present
<1> QED BY <1>1, <1>2, <1>3, <1>4, <1>5

(* syncRemove takes the name out of map and list; only the goroutine that  *)
(* holds its lock for writing gets here (file_map.go:146-160).             *)
LEMMA SyncRemoveStep ==
    ASSUME IInv, NEW p \in Goroutine, SyncRemove(p)
    PROVE  IInv'
<1> USE NoneAssumption DEF IInv, SyncRemove, lockVars, callVars, Goto
<1>1. /\ Held(p) /\ name[p] \in Name /\ elements[name[p]] = ent[p]
      /\ ent[p] \in Entry /\ ~Shared(op[p])
  BY DEF TypeOK, ControlInv, InControl, HeldStaysStored, StillStored, Held, Shared
<1>2. queue' \in Seq(Name) /\ QueueMatchesMap'
  <2>1. queue \in Seq(Name) /\ Injective(queue)
    BY DEF TypeOK, QueueMatchesMap, Injective
  <2>2. /\ queue' \in Seq(Name)
        /\ Injective(queue')
        /\ \A y : In(y, queue') <=> In(y, queue) /\ y # name[p]
    BY <2>1, RemoveFirstProperties
  <2>3. \A m \in Name : Present(m)' <=> Present(m) /\ m # name[p]
    BY <1>1 DEF Present, TypeOK
  <2>4. \A m \in Name : Present(m)' <=> In(m, queue')
    BY <2>2, <2>3 DEF QueueMatchesMap, In
  <2>5. \A k, m \in Name : Present(k)' /\ elements'[k] = elements'[m] => k = m
    BY <1>1 DEF TypeOK, QueueMatchesMap, Present
  <2> QED BY <2>2, <2>4, <2>5 DEF QueueMatchesMap, In, Injective, Present
<1>3. TypeOK'
  BY <1>2 DEF TypeOK, Control
<1>4. ControlInv'
  BY DEF TypeOK, ControlInv, InControl
<1>5. LockInv'
  BY DEF TypeOK, LockInv, HasLock
<1>6. FreshInv'
  BY <1>1 DEF TypeOK, FreshInv, ControlInv, InControl
<1>7. ASSUME NEW q \in Goroutine, Held(q)' PROVE StillStored(q)'
  <2>1. q # p /\ Held(q) /\ StillStored(q)
    BY <1>7 DEF TypeOK, Held, HeldStaysStored
  <2>2. name[q] # name[p]
    BY <1>1, <2>1, LocksExclude
  <2> QED BY <1>1, <2>1, <2>2 DEF TypeOK, StillStored
<1> QED BY <1>2, <1>3, <1>4, <1>5, <1>6, <1>7 DEF HeldStaysStored

(* The entry is unlocked; nothing is stored or removed. *)
LEMMA UnlockStep ==
    ASSUME IInv, NEW p \in Goroutine, Unlock(p)
    PROVE  IInv'
<1> USE NoneAssumption DEF IInv, Unlock, mapVars, Goto, Return
<1>1. ent[p] \in Entry
  BY DEF TypeOK, ControlInv, InControl
<1>2. TypeOK'
  <2>1. /\ writer' \in [Entry -> Goroutine \cup {None}]
        /\ readers' \in [Entry -> SUBSET Goroutine]
        /\ \A e \in Entry : writer'[e] = None \/ readers'[e] = {}
    <3>1. CASE Shared(op[p])
      BY <1>1, <3>1 DEF TypeOK
    <3>2. CASE ~Shared(op[p])
      BY <1>1, <3>2 DEF TypeOK
    <3> QED BY <3>1, <3>2
  <2>2. /\ pc' \in [Goroutine -> Control]
        /\ op' \in [Goroutine -> Ops]
        /\ name' \in [Goroutine -> Name \cup {None}]
        /\ ent' \in [Goroutine -> Entry \cup {None}]
        /\ result' \in [Goroutine -> BOOLEAN]
    <3>1. CASE op[p] = "Store"
      BY <3>1 DEF TypeOK, Control
    <3>2. CASE op[p] # "Store"
      <4>1. result' \in [Goroutine -> BOOLEAN]
        BY <3>2 DEF TypeOK
      <4>2. /\ pc' = [pc EXCEPT ![p] = "idle"]
            /\ op' = [op EXCEPT ![p] = "None"]
            /\ name' = [name EXCEPT ![p] = None]
            /\ ent' = [ent EXCEPT ![p] = None]
        BY <3>2
      <4> QED BY <4>1, <4>2 DEF TypeOK, Control, Ops
    <3> QED BY <3>1, <3>2
  <2> QED BY <2>1, <2>2 DEF TypeOK
<1>3. ControlInv'
  BY DEF TypeOK, ControlInv, InControl
<1>4. /\ ~HasLock(p)'
      /\ \A q \in Goroutine \ {p} : /\ HasLock(q)' <=> HasLock(q)
                                   /\ op'[q] = op[q] /\ ent'[q] = ent[q]
                                   /\ pc'[q] = pc[q] /\ name'[q] = name[q]
  BY DEF TypeOK, HasLock
<1>5. LockInv'
  <2> SUFFICES ASSUME NEW q \in Goroutine, NEW e \in Entry
               PROVE  /\ writer'[e] = q <=> HasLock(q)' /\ ~Shared(op'[q]) /\ ent'[q] = e
                      /\ q \in readers'[e] <=> HasLock(q)' /\ Shared(op'[q]) /\ ent'[q] = e
    BY DEF LockInv
  <2>1. HasLock(p)
    BY DEF HasLock
  <2>2. CASE Shared(op[p])
    BY <1>1, <1>4, <2>1, <2>2 DEF TypeOK, LockInv
  <2>3. CASE ~Shared(op[p])
    BY <1>1, <1>4, <2>1, <2>3 DEF TypeOK, LockInv
  <2> QED BY <2>2, <2>3
<1>6. pc'[p] \in {"idle", "evict"}
  BY DEF TypeOK
<1>7. FreshInv' /\ HeldStaysStored'
  BY <1>4, <1>6 DEF FreshInv, HeldStaysStored, Held, StillStored
<1>8. QueueMatchesMap'
  BY DEF QueueMatchesMap, Present
<1> QED BY <1>2, <1>3, <1>5, <1>7, <1>8

(* The eviction goes on to the oldest name (file_map.go:162-174). *)
LEMMA PickOldestStep ==
    ASSUME IInv, NEW p \in Goroutine, PickOldest(p)
    PROVE  IInv'
<1> USE NoneAssumption, SizeAssumption
    DEF IInv, PickOldest, mapVars, lockVars, Goto, Return
<1>1. OverCapacity => Oldest \in Name /\ elements[Oldest] \in Entry
  BY DEF TypeOK, OverCapacity, Oldest, Last, QueueMatchesMap, Present
<1>2. TypeOK'
  <2>1. CASE OverCapacity
    BY <1>1, <2>1 DEF TypeOK, Control, Ops
  <2>2. CASE ~OverCapacity
    <3>1. result' \in [Goroutine -> BOOLEAN]
      BY <2>2 DEF TypeOK
    <3>2. /\ pc' = [pc EXCEPT ![p] = "idle"]
          /\ op' = [op EXCEPT ![p] = "None"]
          /\ name' = [name EXCEPT ![p] = None]
          /\ ent' = [ent EXCEPT ![p] = None]
      BY <2>2
    <3> QED BY <3>1, <3>2 DEF TypeOK, Control, Ops
  <2> QED BY <2>1, <2>2
<1>3. ControlInv'
  BY <1>1 DEF TypeOK, ControlInv, InControl
<1>4. LockInv'
  BY DEF TypeOK, LockInv, HasLock
<1>5. FreshInv' /\ HeldStaysStored'
  BY DEF TypeOK, FreshInv, HeldStaysStored, Held, StillStored
<1>6. QueueMatchesMap'
  BY DEF QueueMatchesMap, Present
<1> QED BY <1>2, <1>3, <1>4, <1>5, <1>6

(* Every step keeps the invariant. *)
LEMMA NextIInv == IInv /\ [Next]_vars => IInv'
<1> SUFFICES ASSUME IInv, [Next]_vars PROVE IInv'
  OBVIOUS
<1>1. CASE UNCHANGED vars
  BY <1>1 DEF vars, IInv, TypeOK, ControlInv, InControl, LockInv, HasLock,
              FreshInv, QueueMatchesMap, Present, HeldStaysStored, Held, StillStored
<1>2. ASSUME NEW p \in Goroutine, Call(p) PROVE IInv'
  BY <1>2, TryStoreStep, LookupStep DEF Call
<1>3. ASSUME NEW p \in Goroutine, Continue(p) PROVE IInv'
  BY <1>3, InsertStep, AcquireStep, RecheckStep, CallbackStep, SyncRemoveStep,
     UnlockStep, PickOldestStep DEF Continue
<1> QED BY <1>1, <1>2, <1>3 DEF Next

(* The invariant holds throughout. *)
LEMMA Invariance == Spec => []IInv
<1> QED BY InitIInv, NextIInv, PTL DEF Spec

-----------------------------------------------------------------------------
(* Type correctness, for any number of goroutines, names and entries. *)
THEOREM TypeCorrect == Spec => []TypeOK
<1>1. IInv => TypeOK
  BY DEF IInv
<1> QED BY <1>1, Invariance, PTL

(* While f executes, its name is neither deleted nor overwritten.          *)
THEOREM HeldEntriesStayStored == Spec => []HeldStaysStored
<1>1. IInv => HeldStaysStored
  BY DEF IInv
<1> QED BY <1>1, Invariance, PTL

(* Two functions run at once for one name only if both just read.          *)
THEOREM NamesAreExclusive == Spec => []ExclusiveByName
<1>1. IInv => ExclusiveByName
  BY LocksExclude DEF ExclusiveByName
<1> QED BY <1>1, Invariance, PTL

(* List and map agree on what is stored. *)
THEOREM QueueAndMapAgree == Spec => []QueueMatchesMap
<1>1. IInv => QueueMatchesMap
  BY DEF IInv
<1> QED BY <1>1, Invariance, PTL

-----------------------------------------------------------------------------
(* Refinement: what each step of FileMap does to the contract's state. *)

(* The empty map is the contract's initial state. *)
LEMMA InitRefines == Init => Contract!Init
  BY DEF Init, Contract!Init, Stored, Holding, Exclusive, Present, Held

(* A goroutine that holds a name's lock for writing is alone with it.      *)
LEMMA LockHolders ==
    ASSUME IInv, NEW p \in Goroutine, pc[p] = "recheck", StillStored(p)
    PROVE  /\ Present(name[p])
           /\ Contract!Holders(name[p]) \cap Exclusive = {}
           /\ ~Shared(op[p]) => Contract!Holders(name[p]) = {}
<1> USE NoneAssumption DEF IInv
<1>1. ent[p] \in Entry /\ name[p] \in Name /\ HasLock(p)
  BY DEF TypeOK, ControlInv, InControl, HasLock
<1>2. ASSUME NEW q \in Contract!Holders(name[p])
      PROVE  /\ q \in Goroutine /\ q # p
             /\ Held(q) /\ HasLock(q) /\ ent[q] = ent[p]
  BY <1>1, <1>2 DEF Contract!Holders, Holding, Held, HasLock, HeldStaysStored,
                    StillStored
<1>3. ASSUME NEW q \in Contract!Holders(name[p]) PROVE Shared(op[q])
  BY <1>1, <1>2 DEF LockInv, TypeOK
<1>4. ASSUME NEW q \in Contract!Holders(name[p]) PROVE Shared(op[p])
  BY <1>1, <1>2, <1>3 DEF LockInv, TypeOK
<1>5. Present(name[p])
  BY <1>1 DEF StillStored, Present
<1> QED BY <1>3, <1>4, <1>5 DEF Exclusive

(* A step that leaves the stored names and the running functions alone is  *)
(* no step of the contract.                                                *)
LEMMA Stutters ==
    ASSUME TypeOK, UNCHANGED <<elements, Holding, Exclusive>>
    PROVE  UNCHANGED Contract!vars
  BY DEF Contract!vars, Stored, Present

(* Every step of the map is a step of the contract, or none. *)
LEMMA StepRefines == IInv /\ [Next]_vars => [Contract!Next]_(Contract!vars)
<1> SUFFICES ASSUME IInv, [Next]_vars PROVE [Contract!Next]_(Contract!vars)
  OBVIOUS
<1> USE NoneAssumption DEF IInv
<1>1. CASE UNCHANGED vars
  BY <1>1 DEF vars, Contract!vars, Stored, Holding, Exclusive, Present, Held
<1>2. ASSUME NEW p \in Goroutine, NEW n \in Name, TryStore(p, n)
      PROVE  UNCHANGED Contract!vars
  <2>1. UNCHANGED <<elements, Holding, Exclusive>>
    BY <1>2 DEF TryStore, mapVars, Goto, Holding, Exclusive, Held, TypeOK
  <2> QED BY <2>1, Stutters
<1>3. ASSUME NEW p \in Goroutine, NEW n \in Name,
             NEW o \in Loads \cup {"Delete"}, Lookup(p, o, n)
      PROVE  UNCHANGED Contract!vars
  <2>1. UNCHANGED <<elements, Holding, Exclusive>>
    BY <1>3 DEF Lookup, Return, lockVars, Goto, Holding, Exclusive, Held, TypeOK
  <2> QED BY <2>1, Stutters
<1>4. ASSUME NEW p \in Goroutine, Acquire(p)
      PROVE  UNCHANGED Contract!vars
  <2>1. UNCHANGED <<elements, Holding, Exclusive>>
    BY <1>4 DEF Acquire, mapVars, callVars, Goto, Holding, Exclusive, Held, TypeOK
  <2> QED BY <2>1, Stutters
<1>5. ASSUME NEW p \in Goroutine, Unlock(p)
      PROVE  UNCHANGED Contract!vars
  <2>1. UNCHANGED <<elements, Holding, Exclusive>>
    BY <1>5 DEF Unlock, Return, mapVars, Goto, Holding, Exclusive, Held, TypeOK
  <2> QED BY <2>1, Stutters
<1>6. ASSUME NEW p \in Goroutine, PickOldest(p)
      PROVE  UNCHANGED Contract!vars
  <2>1. UNCHANGED <<elements, Holding, Exclusive>>
    BY <1>6 DEF PickOldest, Return, mapVars, lockVars, Goto, Holding, Exclusive,
                Held, TypeOK
  <2> QED BY <2>1, Stutters
<1>7. ASSUME NEW p \in Goroutine, Insert(p)
      PROVE  Contract!Next \/ UNCHANGED Contract!vars
  <2>0. name[p] \in Name /\ ent[p] \in Entry /\ op[p] = "Store" /\ ~Held(p)
    BY <1>7 DEF Insert, TypeOK, ControlInv, InControl, Held
  <2>1. CASE Present(name[p])
    <3>1. UNCHANGED <<elements, Holding, Exclusive>>
      BY <1>7, <2>1 DEF Insert, lockVars, callVars, Goto, Holding, Exclusive, Held, TypeOK
    <3> QED BY <3>1, Stutters
  <2>2. CASE ~Present(name[p])
    <3>1. /\ elements' = [elements EXCEPT ![name[p]] = ent[p]]
          /\ pc' = [pc EXCEPT ![p] = "callback"]
          /\ UNCHANGED <<op, name>>
      BY <1>7, <2>2 DEF Insert, Goto, callVars
    <3>2. Stored' = Stored \cup {name[p]}
      BY <2>0, <3>1 DEF TypeOK, Stored, Present
    <3>3. Holding[p] = None /\ Holding' = [Holding EXCEPT ![p] = name[p]]
      BY <2>0, <3>1 DEF TypeOK, Holding, Held
    <3>4. Exclusive' = Exclusive \cup {p}
      BY <2>0, <3>1 DEF TypeOK, Exclusive, Held, Shared
    <3>5. name[p] \notin Stored
      BY <2>2 DEF Stored
    <3>6. Contract!Store(p, name[p])
      BY <3>2, <3>3, <3>4, <3>5 DEF Contract!Store
    <3> QED BY <2>0, <3>6 DEF Contract!Next
  <2> QED BY <2>1, <2>2
<1>8. ASSUME NEW p \in Goroutine, Recheck(p)
      PROVE  Contract!Next \/ UNCHANGED Contract!vars
  <2>0. name[p] \in Name /\ ~Held(p)
    BY <1>8 DEF Recheck, TypeOK, ControlInv, InControl, Held
  <2>1. CASE ~StillStored(p)
    <3>1. UNCHANGED <<elements, Holding, Exclusive>>
      BY <1>8, <2>1 DEF Recheck, lockVars, callVars, Goto, Holding, Exclusive, Held, TypeOK
    <3> QED BY <3>1, Stutters
  <2>2. CASE StillStored(p)
    <3>1. /\ pc[p] = "recheck"
          /\ pc' = [pc EXCEPT ![p] = "callback"]
          /\ UNCHANGED <<elements, op, name>>
      BY <1>8, <2>2 DEF Recheck, Goto, callVars
    <3>2. Holding[p] = None /\ Holding' = [Holding EXCEPT ![p] = name[p]]
      BY <2>0, <3>1 DEF TypeOK, Holding, Held
    <3>3. /\ Stored' = Stored
          /\ name[p] \in Stored
          /\ Contract!Holders(name[p]) \cap Exclusive = {}
          /\ ~Shared(op[p]) => Contract!Holders(name[p]) = {}
      BY <2>0, <2>2, <3>1, LockHolders DEF Stored, Present
    <3>4. CASE Shared(op[p])
      <4>1. Exclusive' = Exclusive
        BY <2>0, <3>1, <3>4 DEF TypeOK, Exclusive, Held
      <4>2. Contract!Enter(p, name[p])
        BY <3>2, <3>3, <4>1 DEF Contract!Enter
      <4> QED BY <2>0, <4>2 DEF Contract!Next
    <3>5. CASE ~Shared(op[p])
      <4>1. Exclusive' = Exclusive \cup {p}
        BY <2>0, <3>1, <3>5 DEF TypeOK, Exclusive, Held
      <4>2. Contract!EnterAlone(p, name[p])
        BY <3>2, <3>3, <3>5, <4>1 DEF Contract!EnterAlone
      <4> QED BY <2>0, <4>2 DEF Contract!Next
    <3> QED BY <3>4, <3>5
  <2> QED BY <2>1, <2>2
<1>9. ASSUME NEW p \in Goroutine, NEW ok \in BOOLEAN, Callback(p, ok)
      PROVE  Contract!Next \/ UNCHANGED Contract!vars
  <2>0. /\ pc[p] = "callback" /\ name[p] \in Name /\ Held(p)
        /\ UNCHANGED <<elements, op, name>>
    BY <1>9 DEF Callback, mapVars, callVars, TypeOK, ControlInv, InControl, Held
  <2>1. CASE pc' = [pc EXCEPT ![p] = "remove"]
    <3>1. UNCHANGED <<elements, Holding, Exclusive>>
      BY <2>0, <2>1 DEF Holding, Exclusive, Held, TypeOK
    <3> QED BY <3>1, Stutters
  <2>2. CASE pc' = [pc EXCEPT ![p] = "unlock"]
    <3>1. Holding[p] # None /\ Holding' = [Holding EXCEPT ![p] = None]
      BY <2>0, <2>2 DEF TypeOK, Holding, Held
    <3>2. Exclusive' = Exclusive \ {p}
      BY <2>0, <2>2 DEF TypeOK, Exclusive, Held
    <3>3. Stored' = Stored
      BY <2>0 DEF Stored, Present
    <3>4. Contract!Leave(p)
      BY <3>1, <3>2, <3>3 DEF Contract!Leave, Contract!Release
    <3> QED BY <3>4 DEF Contract!Next
  <2> QED BY <1>9, <2>1, <2>2 DEF Callback, Goto
<1>10. ASSUME NEW p \in Goroutine, SyncRemove(p)
       PROVE  Contract!Next
  <2>0. /\ pc[p] = "remove" /\ name[p] \in Name /\ Held(p) /\ ~Shared(op[p])
        /\ UNCHANGED <<op, name>>
        /\ pc' = [pc EXCEPT ![p] = "unlock"]
        /\ elements' = [elements EXCEPT ![name[p]] = None]
    BY <1>10 DEF SyncRemove, Goto, callVars, TypeOK, ControlInv, InControl, Held,
                 Shared
  <2>1. /\ Holding[p] = name[p] /\ Holding[p] # None
        /\ Holding' = [Holding EXCEPT ![p] = None]
    BY <2>0 DEF TypeOK, Holding, Held
  <2>2. p \in Exclusive /\ Exclusive' = Exclusive \ {p}
    BY <2>0 DEF TypeOK, Exclusive, Held
  <2>3. Stored' = Stored \ {name[p]}
    BY <2>0 DEF TypeOK, Stored, Present
  <2>4. Contract!LeaveAndRemove(p)
    BY <2>1, <2>2, <2>3 DEF Contract!LeaveAndRemove, Contract!Release
  <2> QED BY <2>4 DEF Contract!Next
<1> QED BY <1>1, <1>2, <1>3, <1>4, <1>5, <1>6, <1>7, <1>8, <1>9, <1>10
        DEF Next, Call, Continue

(* The map with its two-step locking implements the contract file          *)
(* operations rely on: a set of names, each with a lock of its own.        *)
THEOREM MapImplementsContract == Spec => ImplementsContract
<1>1. IInv /\ [Next]_vars => [Contract!Next]_(Contract!vars)
  BY StepRefines
<1> QED BY <1>1, InitRefines, Invariance, PTL DEF Spec, ImplementsContract,
           Contract!Spec

=============================================================================
