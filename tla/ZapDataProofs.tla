---------------------------- MODULE ZapDataProofs ----------------------------
(***************************************************************************)
(* The pool of ZapData objects is a list without repetition, and an object *)
(* has one owner, for any number of threads and objects and any limit.     *)
(***************************************************************************)
EXTENDS ZapData, TLAPS

\* What print knows of its local variable data: it refers to an object, whose
\* fields are this thread's until recycle resets them.
HolderInv ==
    \A t \in Thread :
      /\ pc[t] = "idle" <=> data[t] = Null
      /\ pc[t] = "recycle" => fields[data[t]] = Null

Inv == TypeOK /\ PoolIsList /\ OneHolder /\ PrintsOwnFields /\ PoolIsClean /\ HolderInv
-----------------------------------------------------------------------------
(* The list.                                                               *)

LEMMA PoolRange ==
    ASSUME NEW p \in Seq(Obj)
    PROVE  Range(p) = {p[i] : i \in 1 .. Len(p)} /\ Range(p) \subseteq Obj
BY DEF Range

\* Without its head an injective sequence has lost just that element.
LEMMA TailOfPool ==
    ASSUME NEW p \in Seq(Obj), p # <<>>, IsInjective(p)
    PROVE  /\ Tail(p) \in Seq(Obj)
           /\ Len(Tail(p)) = Len(p) - 1
           /\ \A i \in 1 .. Len(Tail(p)) : Tail(p)[i] = p[i + 1]
           /\ IsInjective(Tail(p))
           /\ Range(Tail(p)) = Range(p) \ {Head(p)}
           /\ Head(p) \in Range(p)
<1>1. /\ Tail(p) \in Seq(Obj) /\ Len(Tail(p)) = Len(p) - 1
      /\ \A i \in 1 .. Len(Tail(p)) : Tail(p)[i] = p[i + 1]
  OBVIOUS
<1>2. Len(p) \in Nat \ {0} /\ Head(p) = p[1] /\ DOMAIN p = 1 .. Len(p)
  OBVIOUS
<1>3. \A i, j \in 1 .. Len(p) : p[i] = p[j] => i = j
  BY <1>2 DEF IsInjective
<1>4. IsInjective(Tail(p))
  <2> SUFFICES ASSUME NEW i \in 1 .. Len(Tail(p)), NEW j \in 1 .. Len(Tail(p)),
                      Tail(p)[i] = Tail(p)[j]
               PROVE  i = j
    BY <1>1 DEF IsInjective
  <2>1. i + 1 \in 1 .. Len(p) /\ j + 1 \in 1 .. Len(p)  BY <1>1, <1>2
  <2> QED  BY <1>1, <1>3, <2>1
<1>5. Range(p) = {p[i] : i \in 1 .. Len(p)}  BY PoolRange
<1>6. Range(Tail(p)) = {Tail(p)[i] : i \in 1 .. Len(Tail(p))}  BY Zenon, <1>1, PoolRange
<1>7. Range(Tail(p)) \subseteq Range(p) \ {Head(p)}
  <2> SUFFICES ASSUME NEW i \in 1 .. Len(Tail(p))
               PROVE  Tail(p)[i] \in Range(p) \ {Head(p)}
    BY <1>6
  <2>1. i + 1 \in 1 .. Len(p) /\ 1 \in 1 .. Len(p) /\ i + 1 # 1  BY <1>1, <1>2
  <2> QED  BY <1>1, <1>2, <1>3, <1>5, <2>1
<1>8. Range(p) \ {Head(p)} \subseteq Range(Tail(p))
  <2> SUFFICES ASSUME NEW i \in 1 .. Len(p), p[i] # Head(p)
               PROVE  p[i] \in Range(Tail(p))
    BY <1>5
  <2>1. i # 1  BY <1>2
  <2>2. i - 1 \in 1 .. Len(Tail(p)) /\ (i - 1) + 1 = i
    <3>1. Len(Tail(p)) = Len(p) - 1 /\ Len(p) \in Nat  BY <1>1
    <3> QED  BY <2>1, <3>1
  <2>3. Tail(p)[i - 1] = p[i]  BY <1>1, <2>2
  <2> QED  BY Zenon, <1>6, <2>2, <2>3
<1> QED  BY <1>1, <1>2, <1>4, <1>5, <1>7, <1>8

\* A new head adds itself.
LEMMA PushOnPool ==
    ASSUME NEW p \in Seq(Obj), IsInjective(p), NEW o \in Obj \ Range(p)
    PROVE  /\ <<o>> \o p \in Seq(Obj)
           /\ Len(<<o>> \o p) = Len(p) + 1
           /\ (<<o>> \o p)[1] = o
           /\ \A i \in 2 .. Len(p) + 1 : (<<o>> \o p)[i] = p[i - 1]
           /\ IsInjective(<<o>> \o p)
           /\ Range(<<o>> \o p) = Range(p) \cup {o}
<1> DEFINE q == <<o>> \o p
<1>1. /\ q \in Seq(Obj) /\ Len(q) = Len(p) + 1 /\ q[1] = o
      /\ \A i \in 2 .. Len(p) + 1 : q[i] = p[i - 1]
  OBVIOUS
<1>2. Len(p) \in Nat /\ DOMAIN p = 1 .. Len(p) /\ DOMAIN q = 1 .. Len(p) + 1
  BY <1>1
<1>3. \A i, j \in 1 .. Len(p) : p[i] = p[j] => i = j
  BY <1>2 DEF IsInjective
<1>4. \A i \in 1 .. Len(p) : p[i] # o  BY PoolRange
<1> HIDE DEF q
<1>5. IsInjective(q)
  <2> SUFFICES ASSUME NEW i \in 1 .. Len(p) + 1, NEW j \in 1 .. Len(p) + 1, q[i] = q[j]
               PROVE  i = j
    BY <1>2 DEF IsInjective
  <2>1. CASE i = 1 /\ j = 1  BY <2>1
  <2>2. CASE i = 1 /\ j # 1
    <3>1. j \in 2 .. Len(p) + 1 /\ j - 1 \in 1 .. Len(p)  BY <1>2, <2>2
    <3> QED  BY <1>1, <1>4, <2>2, <3>1
  <2>3. CASE i # 1 /\ j = 1
    <3>1. i \in 2 .. Len(p) + 1 /\ i - 1 \in 1 .. Len(p)  BY <1>2, <2>3
    <3> QED  BY <1>1, <1>4, <2>3, <3>1
  <2>4. CASE i # 1 /\ j # 1
    <3>1. /\ i \in 2 .. Len(p) + 1 /\ i - 1 \in 1 .. Len(p)
          /\ j \in 2 .. Len(p) + 1 /\ j - 1 \in 1 .. Len(p)
      BY <1>2, <2>4
    <3>2. i - 1 = j - 1  BY Zenon, <1>1, <1>3, <3>1
    <3> QED  BY <3>1, <3>2
  <2> QED  BY <2>1, <2>2, <2>3, <2>4
<1>6. Range(p) = {p[i] : i \in 1 .. Len(p)}  BY PoolRange
<1>7. Range(q) = {q[i] : i \in 1 .. Len(p) + 1}  BY <1>1, PoolRange
<1>8. Range(q) \subseteq Range(p) \cup {o}
  <2> SUFFICES ASSUME NEW i \in 1 .. Len(p) + 1 PROVE q[i] \in Range(p) \cup {o}
    BY <1>7
  <2>1. i = 1 \/ (i \in 2 .. Len(p) + 1 /\ i - 1 \in 1 .. Len(p))  BY <1>2
  <2> QED  BY <1>1, <1>6, <2>1
<1>9. Range(p) \cup {o} \subseteq Range(q)
  <2>1. o \in Range(q)  BY <1>1, <1>2, <1>7
  <2>2. ASSUME NEW i \in 1 .. Len(p) PROVE p[i] \in Range(q)
    <3>1. i + 1 \in 2 .. Len(p) + 1 /\ i + 1 \in 1 .. Len(p) + 1 /\ (i + 1) - 1 = i
      BY <1>2
    <3> QED  BY Zenon, <1>1, <1>7, <3>1
  <2> QED  BY <1>6, <2>1, <2>2
<1> QED  BY <1>1, <1>5, <1>8, <1>9 DEF q
-----------------------------------------------------------------------------
(* The steps.                                                              *)

\* A thread in print holds an object, and nobody else does.
LEMMA Holds ==
    ASSUME Inv, NEW t \in Thread, pc[t] # "idle"
    PROVE  /\ data[t] \in Obj /\ data[t] \notin Range(pool)
           /\ \A u \in Thread : data[u] = data[t] => u = t
BY DEF Inv, TypeOK, HolderInv, OneHolder

\* The steps that touch neither the list nor who holds what.
LEMMA LocalStep ==
    ASSUME Inv, NEW t \in Thread, Fill(t) \/ PrintData(t) \/ Reset(t)
    PROVE  Inv'
<1>1. /\ UNCHANGED <<sPool, sPoolSize, next, data, pool>>
      /\ pc[t] # "idle"
      /\ pc' = [pc EXCEPT ![t] = pc'[t]] /\ pc'[t] \in {"print", "reset", "recycle"}
      /\ \/ UNCHANGED fields /\ pc[t] = "print" /\ pc'[t] = "reset"
         \/ fields' = [fields EXCEPT ![data[t]] = t] /\ pc'[t] = "print"
         \/ fields' = [fields EXCEPT ![data[t]] = Null] /\ pc'[t] = "recycle"
  BY DEF Fill, PrintData, Reset, Inv, TypeOK
<1>2. /\ data[t] \in Obj /\ data[t] \notin Range(pool)
      /\ \A u \in Thread : data[u] = data[t] => u = t
  BY <1>1, Holds
<1>3. \A o \in Obj : o # data[t] => fields'[o] = fields[o]
  BY <1>1 DEF Inv, TypeOK
<1>4. TypeOK'  BY <1>1, <1>2 DEF Inv, TypeOK
<1>5. PoolIsList' /\ OneHolder'
  BY <1>1 DEF Inv, PoolIsList, OneHolder
<1>6. PoolIsClean'
  <2>1. Range(pool) \subseteq Obj  BY PoolRange DEF Inv, TypeOK
  <2> QED  BY <1>1, <1>2, <1>3, <2>1 DEF Inv, PoolIsClean
<1>7. ASSUME NEW u \in Thread, u # t
      PROVE  /\ pc'[u] = pc[u]
             /\ pc[u] # "idle" => fields'[data'[u]] = fields[data[u]]
  <2>1. pc[u] # "idle" => data[u] \in Obj /\ data[u] # data[t]
    BY <1>2, <1>7, Holds
  <2> QED  BY <1>1, <1>3, <1>7, <2>1 DEF Inv, TypeOK
<1>8. PrintsOwnFields'
  <2> SUFFICES ASSUME NEW u \in Thread, pc'[u] \in {"print", "reset"}
               PROVE  fields'[data'[u]] = u
    BY DEF PrintsOwnFields
  <2>1. CASE u = t  BY <1>1, <1>2, <2>1 DEF Inv, TypeOK, PrintsOwnFields
  <2>2. CASE u # t  BY <1>7, <2>2 DEF Inv, PrintsOwnFields
  <2> QED  BY <2>1, <2>2
<1>9. HolderInv'
  <2> SUFFICES ASSUME NEW u \in Thread
               PROVE  /\ pc'[u] = "idle" <=> data'[u] = Null
                      /\ pc'[u] = "recycle" => fields'[data'[u]] = Null
    BY DEF HolderInv
  <2>1. CASE u = t  BY <1>1, <1>2, <2>1, PoolAssumption DEF Inv, TypeOK, HolderInv
  <2>2. CASE u # t  BY <1>1, <1>7, <2>2 DEF Inv, HolderInv
  <2> QED  BY <2>1, <2>2
<1> QED  BY <1>4, <1>5, <1>6, <1>8, <1>9 DEF Inv

\* t, which held nothing, gets an object that is in nobody's hands; the fields
\* of the others, and of what stays in the pool, are left alone.
LEMMA ObtainStep ==
    ASSUME Inv, NEW t \in Thread, pc[t] = "idle", NEW o \in Obj,
           \A u \in Thread : data[u] # o,
           data' = [data EXCEPT ![t] = o], pc' = [pc EXCEPT ![t] = "fill"],
           Range(pool') \subseteq Range(pool), o \notin Range(pool'),
           \A x \in Obj : x # o => fields'[x] = fields[x]
    PROVE  OneHolder' /\ PrintsOwnFields' /\ PoolIsClean' /\ HolderInv'
<1>1. /\ data'[t] = o /\ pc'[t] = "fill"
      /\ \A u \in Thread : u # t => data'[u] = data[u] /\ pc'[u] = pc[u]
  BY DEF Inv, TypeOK
<1>2. OneHolder'
  BY <1>1 DEF Inv, OneHolder
<1>3. \A u \in Thread : u # t /\ pc[u] # "idle" => fields'[data'[u]] = fields[data[u]]
  BY <1>1, Holds
<1>4. PrintsOwnFields'  BY <1>1, <1>3 DEF Inv, PrintsOwnFields
<1>5. PoolIsClean'
  <2>1. Range(pool) \subseteq Obj  BY PoolRange DEF Inv, TypeOK
  <2> QED  BY <2>1 DEF Inv, PoolIsClean
<1>6. HolderInv'
  BY <1>1, <1>3, PoolAssumption DEF Inv, HolderInv
<1> QED  BY <1>2, <1>4, <1>5, <1>6

LEMMA ObtainPooledStep ==
    ASSUME Inv, NEW t \in Thread, ObtainPooled(t) PROVE Inv'
<1>1. pool \in Seq(Obj) /\ pool # <<>> /\ sPool = Head(pool) /\ IsInjective(pool)
  BY DEF Inv, TypeOK, PoolIsList, ObtainPooled
<1> DEFINE rest == Tail(pool)
<1>2. /\ rest \in Seq(Obj) /\ Len(rest) = Len(pool) - 1
      /\ \A i \in 1 .. Len(rest) : rest[i] = pool[i + 1]
      /\ IsInjective(rest)
      /\ Range(rest) = Range(pool) \ {sPool} /\ sPool \in Range(pool)
  BY <1>1, TailOfPool
<1> HIDE DEF rest
<1>3. pool' = rest  BY DEF ObtainPooled, rest
<1>4. Len(pool) \in Nat \ {0} /\ sPool = pool[1] /\ sPool \in Obj
  BY <1>1
<1>5. sPoolSize = Len(pool) /\ sPoolSize' = Len(rest)
  BY <1>2, <1>4 DEF Inv, PoolIsList, ObtainPooled
<1>6. next[sPool] = IF 1 < Len(pool) THEN pool[2] ELSE Null
  BY <1>4 DEF Inv, PoolIsList
<1>7. sPool' = IF rest = <<>> THEN Null ELSE Head(rest)
  BY <1>2, <1>4, <1>6 DEF ObtainPooled
<1>8. TypeOK'
  <2>1. sPoolSize' \in 0 .. MAX_POOL_SIZE
    BY <1>2, <1>4, <1>5, PoolAssumption DEF Inv, TypeOK
  <2> QED  BY <1>2, <1>3, <1>4, <2>1 DEF Inv, TypeOK, ObtainPooled
<1>9. PoolIsList'
  <2>1. ASSUME NEW i \in 1 .. Len(rest)
        PROVE  next'[rest[i]] = IF i < Len(rest) THEN rest[i + 1] ELSE Null
    <3>1. i + 1 \in 1 .. Len(pool) /\ (i < Len(rest) <=> i + 1 < Len(pool))
      BY <1>2, <1>4
    <3>2. rest[i] # sPool /\ rest[i] \in Obj
      <4>1. rest[i] \in Range(rest)  BY <1>2, PoolRange
      <4> QED  BY <1>2, <4>1
    <3>3. next'[rest[i]] = next[rest[i]]
      BY <3>2 DEF Inv, TypeOK, ObtainPooled
    <3>4. next[pool[i + 1]] = IF i + 1 < Len(pool) THEN pool[(i + 1) + 1] ELSE Null
      BY <3>1 DEF Inv, PoolIsList
    <3>5. i < Len(rest) => i + 1 \in 1 .. Len(rest)  BY <1>2, <1>4
    <3> QED  BY <1>2, <3>1, <3>3, <3>4, <3>5
  <2> QED  BY <1>2, <1>3, <1>5, <1>7, <2>1 DEF PoolIsList
<1>10. OneHolder' /\ PrintsOwnFields' /\ PoolIsClean' /\ HolderInv'
  <2>1. \A u \in Thread : data[u] # sPool
    BY <1>2, <1>4, PoolAssumption DEF Inv, OneHolder
  <2>2. /\ pc[t] = "idle" /\ data' = [data EXCEPT ![t] = sPool]
        /\ pc' = [pc EXCEPT ![t] = "fill"] /\ UNCHANGED fields
    BY DEF ObtainPooled
  <2> QED  BY Zenon, <1>2, <1>3, <1>4, <2>1, <2>2, ObtainStep
<1> QED  BY <1>8, <1>9, <1>10 DEF Inv

LEMMA ObtainNewStep ==
    ASSUME Inv, NEW t \in Thread, ObtainNew(t) PROVE Inv'
<1>1. PICK o \in Obj \ Range(data) :
        /\ data' = [data EXCEPT ![t] = o]
        /\ next' = [next EXCEPT ![o] = Null]
        /\ fields' = [fields EXCEPT ![o] = Null]
  BY Zenon DEF ObtainNew
<1>2. /\ pc[t] = "idle" /\ pc' = [pc EXCEPT ![t] = "fill"]
      /\ UNCHANGED <<sPool, sPoolSize, pool>>
  BY DEF ObtainNew
<1>3. pool = <<>>
  BY PoolAssumption DEF Inv, TypeOK, PoolIsList, ObtainNew
<1>4. \A u \in Thread : data[u] # o  BY DEF Range, Inv, TypeOK
<1>5. TypeOK'  BY <1>1, <1>2 DEF Inv, TypeOK
<1>6. PoolIsList'
  BY <1>2, <1>3 DEF Inv, PoolIsList
<1>7. Range(pool') = {}  BY <1>2, <1>3 DEF Range
<1>8. \A x \in Obj : x # o => fields'[x] = fields[x]  BY <1>1 DEF Inv, TypeOK
<1>9. OneHolder' /\ PrintsOwnFields' /\ PoolIsClean' /\ HolderInv'
  BY Zenon, <1>1, <1>2, <1>4, <1>7, <1>8, ObtainStep
<1> QED  BY <1>5, <1>6, <1>9 DEF Inv

LEMMA RecycleStep ==
    ASSUME Inv, NEW t \in Thread, Recycle(t) PROVE Inv'
<1>1. /\ data[t] \in Obj /\ data[t] \notin Range(pool)
      /\ \A u \in Thread : data[u] = data[t] => u = t
      /\ fields[data[t]] = Null
  BY Holds DEF Recycle, Inv, HolderInv
<1>2. /\ data' = [data EXCEPT ![t] = Null] /\ pc' = [pc EXCEPT ![t] = "idle"]
      /\ UNCHANGED fields
  BY DEF Recycle
<1>3. /\ data'[t] = Null /\ pc'[t] = "idle"
      /\ \A u \in Thread : u # t => data'[u] = data[u] /\ pc'[u] = pc[u]
  BY <1>2 DEF Inv, TypeOK
<1>4. pool \in Seq(Obj) /\ IsInjective(pool) /\ Len(pool) \in Nat /\ sPoolSize = Len(pool)
  BY DEF Inv, TypeOK, PoolIsList
<1>5. PrintsOwnFields' /\ HolderInv'
  BY <1>2, <1>3 DEF Inv, PrintsOwnFields, HolderInv
<1>6. CASE sPoolSize >= MAX_POOL_SIZE
  <2>1. UNCHANGED <<next, sPool, sPoolSize, pool>>
    BY <1>4, <1>6, PoolAssumption DEF Recycle
  <2>2. TypeOK'  BY <1>2, <2>1 DEF Inv, TypeOK
  <2>3. PoolIsList' /\ PoolIsClean'  BY <1>2, <2>1 DEF Inv, PoolIsList, PoolIsClean
  <2>4. OneHolder'  BY <1>3, <2>1 DEF Inv, OneHolder
  <2> QED  BY <1>5, <2>2, <2>3, <2>4 DEF Inv
<1>7. CASE sPoolSize < MAX_POOL_SIZE
  <2> DEFINE more == <<data[t]>> \o pool
  <2>1. /\ more \in Seq(Obj) /\ Len(more) = Len(pool) + 1 /\ more[1] = data[t]
        /\ \A i \in 2 .. Len(pool) + 1 : more[i] = pool[i - 1]
        /\ IsInjective(more) /\ Range(more) = Range(pool) \cup {data[t]}
    BY <1>1, <1>4, PushOnPool
  <2>2. /\ pool' = more /\ sPool' = data[t] /\ sPoolSize' = sPoolSize + 1
        /\ next' = [next EXCEPT ![data[t]] = sPool]
    BY <1>7 DEF Recycle
  <2> HIDE DEF more
  <2>3. TypeOK'
    <3>1. sPoolSize' \in 0 .. MAX_POOL_SIZE
      BY <1>4, <1>7, <2>2, PoolAssumption
    <3> QED  BY <1>1, <1>2, <2>1, <2>2, <3>1 DEF Inv, TypeOK
  <2>4. ASSUME NEW i \in 1 .. Len(more)
        PROVE  next'[more[i]] = IF i < Len(more) THEN more[i + 1] ELSE Null
    <3>1. CASE i = 1
      <4>1. next'[more[i]] = sPool  BY <1>1, <2>1, <2>2, <3>1 DEF Inv, TypeOK
      <4>2. CASE pool = <<>>  BY <1>4, <2>1, <3>1, <4>1, <4>2 DEF Inv, PoolIsList
      <4>3. CASE pool # <<>>
        <5>1. sPool = pool[1] /\ Len(pool) >= 1
          BY <1>4, <4>3 DEF Inv, PoolIsList
        <5>2. 2 \in 2 .. Len(pool) + 1 /\ i < Len(more)  BY <1>4, <2>1, <3>1, <5>1
        <5> QED  BY <2>1, <3>1, <4>1, <5>1, <5>2
      <4> QED  BY <4>2, <4>3
    <3>2. CASE i # 1
      <4>1. /\ i \in 2 .. Len(pool) + 1 /\ i - 1 \in 1 .. Len(pool)
            /\ (i < Len(more) <=> i - 1 < Len(pool))
            /\ i < Len(more) => i + 1 \in 2 .. Len(pool) + 1
            /\ (i - 1) + 1 = (i + 1) - 1
        BY <1>4, <2>1, <3>2
      <4>2. more[i] = pool[i - 1] /\ pool[i - 1] # data[t] /\ pool[i - 1] \in Obj
        BY <1>1, <1>4, <2>1, <4>1, PoolRange
      <4>3. next'[more[i]] = next[pool[i - 1]]
        BY <2>2, <4>2 DEF Inv, TypeOK
      <4>4. next[pool[i - 1]] = IF i - 1 < Len(pool) THEN pool[(i - 1) + 1] ELSE Null
        BY <4>1 DEF Inv, PoolIsList
      <4>5. i < Len(more) => more[i + 1] = pool[(i + 1) - 1]  BY <2>1, <4>1
      <4> QED  BY <4>1, <4>3, <4>4, <4>5
    <3> QED  BY <3>1, <3>2
  <2>5. PoolIsList'
    <3>1. more # <<>> /\ Head(more) = data[t]  BY <1>4, <2>1
    <3> QED  BY <1>4, <2>1, <2>2, <2>4, <3>1 DEF PoolIsList
  <2>6. PoolIsClean'  BY <1>1, <1>2, <2>1, <2>2 DEF Inv, PoolIsClean
  <2>7. OneHolder'  BY <1>1, <1>3, <2>1, <2>2 DEF Inv, OneHolder
  <2> QED  BY <1>5, <2>3, <2>5, <2>6, <2>7 DEF Inv
<1> QED  BY <1>4, <1>6, <1>7, PoolAssumption

LEMMA PoolInvariant == Spec => []Inv
<1>1. Init => Inv
  <2> SUFFICES ASSUME Init PROVE Inv
    OBVIOUS
  <2>1. pool = <<>> /\ Range(pool) = {}  BY DEF Init, Range
  <2>2. TypeOK  BY PoolAssumption DEF Init, TypeOK
  <2>3. PoolIsList  BY <2>1 DEF Init, PoolIsList, IsInjective
  <2>4. OneHolder /\ PrintsOwnFields /\ HolderInv
    BY DEF Init, OneHolder, PrintsOwnFields, HolderInv
  <2> QED  BY <2>1, <2>2, <2>3, <2>4 DEF Inv, PoolIsClean
<1>2. Inv /\ [Next]_vars => Inv'
  <2> SUFFICES ASSUME Inv, [Next]_vars PROVE Inv'
    OBVIOUS
  <2>1. CASE Next
    BY <2>1, LocalStep, ObtainPooledStep, ObtainNewStep, RecycleStep DEF Next
  <2>2. CASE UNCHANGED vars
    BY <2>2 DEF vars, Inv, TypeOK, PoolIsList, OneHolder, PrintsOwnFields,
                PoolIsClean, HolderInv
  <2> QED  BY <2>1, <2>2
<1> QED  BY <1>1, <1>2, PTL DEF Spec

\* Following next from sPool visits the objects of the pool, each once, and
\* sPoolSize counts them, for any number of threads in obtain and recycle
\* (ZapData.java).
THEOREM PoolIsListHolds == Spec => []PoolIsList
<1>1. Inv => PoolIsList  BY DEF Inv
<1> QED  BY <1>1, PoolInvariant, PTL

\* An object that obtain gave away is in the hands of one thread and not in
\* the pool (ZapData.java).
THEOREM OneHolderHolds == Spec => []OneHolder
<1>1. Inv => OneHolder  BY DEF Inv
<1> QED  BY <1>1, PoolInvariant, PTL

\* What print reads of its object is what it wrote there, although the fields
\* are read and written without a lock (ZapPrint.java, ZapData.java).
THEOREM PrintsOwnFieldsHolds == Spec => []PrintsOwnFields
<1>1. Inv => PrintsOwnFields  BY DEF Inv
<1> QED  BY <1>1, PoolInvariant, PTL

\* An object in the pool keeps no message alive: recycle resets its fields
\* before it takes the lock, while nobody else can see it (ZapData.java).
THEOREM PoolIsCleanHolds == Spec => []PoolIsClean
<1>1. Inv => PoolIsClean  BY DEF Inv
<1> QED  BY <1>1, PoolInvariant, PTL
=============================================================================
