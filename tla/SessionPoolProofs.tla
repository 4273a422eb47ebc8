------------------------- MODULE SessionPoolProofs -------------------------
(***************************************************************************)
(* Proofs about SessionPool, for every number of calls, keys, sessions and *)
(* upsets: the registry hands out open sessions, one per key, and no       *)
(* session is leaked.                                                      *)
(***************************************************************************)
EXTENDS SessionPool, FiniteSetTheorems, WellFoundedInduction, TLAPS

(* The induction the registry's recursive filter needs. *)

\* A set that contains 0 and successors contains the natural numbers.
LEMMA Induction ==
  ASSUME NEW S, 0 \in S, \A n \in Nat : n \in S => n + 1 \in S
  PROVE  Nat \subseteq S
<1> DEFINE T == {n \in Nat : n \notin S}
<1> SUFFICES ASSUME T # {} PROVE FALSE
  OBVIOUS
<1>1. PICK x \in T : \A y \in T : ~(<<y, x>> \in OpToRel(<, Nat))
  BY NatLessThanWellFounded, WFMin, T \subseteq Nat
<1>2. x \in Nat /\ x # 0 /\ x - 1 \in Nat /\ x - 1 < x
  OBVIOUS
<1>3. x - 1 \in S
  BY <1>1, <1>2 DEF OpToRel
<1> QED BY <1>2, <1>3

\* The n-th step of EntriesOf(ks).
Step(ks, f, n) ==
    IF n = 0 THEN <<>>
    ELSE IF key[entries[n]] \in ks THEN Append(f[n - 1], entries[n]) ELSE f[n - 1]

\* The recursive function of EntriesOf exists.
LEMMA EntriesOfDef ==
  ASSUME TypeOK, NEW ks
  PROVE  \E f : f = [n \in 0..Len(entries) |-> Step(ks, f, n)] /\ EntriesOf(ks) = f[Len(entries)]
<1> DEFINE S == {m \in Nat : \E f : f = [n \in 0..m |-> Step(ks, f, n)]}
<1>1. 0 \in S
  <2>1. \A n \in 0..0 : Step(ks, [i \in 0..0 |-> <<>>], n) = <<>>
    BY DEF Step
  <2>2. [i \in 0..0 |-> <<>>] = [n \in 0..0 |-> Step(ks, [i \in 0..0 |-> <<>>], n)]
    BY <2>1
  <2> QED BY <2>2
<1>2. ASSUME NEW m \in Nat, m \in S PROVE m + 1 \in S
  <2>1. PICK f : f = [n \in 0..m |-> Step(ks, f, n)]
    BY <1>2
  <2> DEFINE g == [n \in 0..(m + 1) |-> IF n <= m THEN f[n] ELSE Step(ks, f, n)]
  <2>2. ASSUME NEW n \in 0..(m + 1) PROVE g[n] = Step(ks, g, n)
    <3>1. n <= m => g[n] = Step(ks, f, n)
      <4>1. n <= m => n \in 0..m
        OBVIOUS
      <4>2. n <= m => f[n] = Step(ks, f, n)
        BY <2>1, <4>1, Zenon
      <4> QED BY <4>2
    <3>2. n > m => g[n] = Step(ks, f, n)
      OBVIOUS
    <3>3. n # 0 => g[n - 1] = f[n - 1]
      OBVIOUS
    <3>4. Step(ks, f, n) = Step(ks, g, n)
      BY <3>3 DEF Step
    <3> QED BY <3>1, <3>2, <3>4
  <2> HIDE DEF g
  <2>3. g = [n \in 0..(m + 1) |-> Step(ks, g, n)]
    <3>1. g = [n \in 0..(m + 1) |-> g[n]]
      BY DEF g
    <3> QED BY <3>1, <2>2
  <2>4. m + 1 \in Nat
    OBVIOUS
  <2> QED BY <2>3, <2>4, Zenon
<1> HIDE DEF S
<1>3. Len(entries) \in Nat
  BY DEF TypeOK
<1>4. Len(entries) \in S
  BY <1>1, <1>2, <1>3, Induction
<1>5. \E f : f = [n \in 0..Len(entries) |-> Step(ks, f, n)]
  BY <1>4, Zenon DEF S
<1> QED BY <1>5, Zenon DEF EntriesOf, Step

-----------------------------------------------------------------------------
(* Sequences of owners. *)

Owners(s) == {s[i] : i \in DOMAIN s}

\* No two owners of s have the same key.
Distinct(s) == \A i, j \in DOMAIN s : key[s[i]] = key[s[j]] => i = j

\* What is appended is added.
LEMMA OwnersAppend ==
  ASSUME NEW s \in Seq(Call), NEW e \in Call
  PROVE  /\ Append(s, e) \in Seq(Call)
         /\ Owners(Append(s, e)) = Owners(s) \cup {e}
         /\ Distinct(s) /\ (\A o \in Owners(s) : key[o] # key[e]) => Distinct(Append(s, e))
<1> DEFINE t == Append(s, e)
<1>1. /\ t \in Seq(Call) /\ DOMAIN t = 1..(Len(s) + 1) /\ DOMAIN s = 1..Len(s) /\ Len(s) \in Nat
      /\ t[Len(s) + 1] = e /\ \A i \in 1..Len(s) : t[i] = s[i]
  OBVIOUS
<1> HIDE DEF t
<1>2. Owners(s) \cup {e} \subseteq Owners(t)
  BY <1>1 DEF Owners
<1>3. ASSUME NEW i \in DOMAIN t PROVE t[i] \in Owners(s) \cup {e}
  BY <1>1 DEF Owners
<1>4. Owners(t) \subseteq Owners(s) \cup {e}
  BY <1>3 DEF Owners
<1>5. ASSUME Distinct(s), \A o \in Owners(s) : key[o] # key[e] PROVE Distinct(t)
  BY <1>1, <1>5 DEF Distinct, Owners
<1> QED BY <1>1, <1>2, <1>4, <1>5 DEF t

\* EntriesOf(ks) has the owners of ks, each once if entries has.
LEMMA Kept ==
  ASSUME TypeOK, NEW ks
  PROVE  /\ EntriesOf(ks) \in Seq(Call)
         /\ Owners(EntriesOf(ks)) = {o \in Owners(entries) : key[o] \in ks}
         /\ Distinct(entries) => Distinct(EntriesOf(ks))
<1>1. PICK f : f = [n \in 0..Len(entries) |-> Step(ks, f, n)] /\ EntriesOf(ks) = f[Len(entries)]
  BY EntriesOfDef
<1> DEFINE Upto(n) == {entries[i] : i \in 1..n}
           Good(n) == /\ f[n] \in Seq(Call)
                      /\ Owners(f[n]) = {o \in Upto(n) : key[o] \in ks}
                      /\ Distinct(entries) => Distinct(f[n])
           S == {n \in Nat : n <= Len(entries) => Good(n)}
<1>0. entries \in Seq(Call) /\ Len(entries) \in Nat /\ DOMAIN entries = 1..Len(entries)
  BY DEF TypeOK
<1>2. 0 \in S
  <2>1. f[0] = <<>>
    <3>1. f[0] = Step(ks, f, 0)
      BY <1>0, <1>1, 0 \in 0..Len(entries), Zenon
    <3> QED BY <3>1 DEF Step
  <2>2. Upto(0) = {} /\ Owners(<<>>) = {}
    BY DEF Owners
  <2>3. <<>> \in Seq(Call) /\ Distinct(<<>>)
    BY DEF Distinct
  <2> QED BY <2>1, <2>2, <2>3
<1>3. ASSUME NEW n \in Nat, n \in S PROVE n + 1 \in S
  <2> SUFFICES ASSUME n + 1 <= Len(entries) PROVE Good(n + 1)
    OBVIOUS
  <2> DEFINE e == entries[n + 1]
             s == f[n]
  <2>1. Good(n) /\ n + 1 \in 0..Len(entries) /\ n + 1 \in 1..Len(entries) /\ n \in 0..Len(entries)
    BY <1>0, <1>3
  <2>2. f[n + 1] = Step(ks, f, n + 1)
    BY <1>1, <2>1, Zenon
  <2>3. f[n + 1] = IF key[e] \in ks THEN Append(s, e) ELSE s
    BY <2>2 DEF Step
  <2>4. e \in Call /\ Upto(n + 1) = Upto(n) \cup {e}
    BY <1>0, <2>1
  <2>5. s \in Seq(Call) /\ Owners(s) = {o \in Upto(n) : key[o] \in ks} /\ (Distinct(entries) => Distinct(s))
    BY <2>1
  <2>6. CASE key[e] \notin ks
    BY <2>3, <2>4, <2>5, <2>6
  <2>7. CASE key[e] \in ks
    <3> HIDE DEF s, e
    <3>1. Owners(Append(s, e)) = Owners(s) \cup {e} /\ Append(s, e) \in Seq(Call)
      BY <2>4, <2>5, OwnersAppend
    <3>2. ASSUME Distinct(entries) PROVE Distinct(Append(s, e))
      <4>1. \A o \in Upto(n) : key[o] # key[e]
        BY <1>0, <2>1, <3>2 DEF Distinct, e
      <4> QED BY <2>4, <2>5, <3>2, <4>1, OwnersAppend
    <3> QED BY <2>3, <2>4, <2>5, <2>7, <3>1, <3>2
  <2> QED BY <2>6, <2>7
<1> HIDE DEF S
<1>4. Len(entries) \in S
  BY <1>0, <1>2, <1>3, Induction
<1>5. Good(Len(entries))
  BY <1>0, <1>4 DEF S
<1>6. Upto(Len(entries)) = Owners(entries)
  BY <1>0 DEF Owners
<1> QED BY <1>1, <1>5, <1>6

\* Both parts of a split sequence.
LEMMA OwnersSplit ==
  ASSUME NEW s \in Seq(Call), NEW n \in 0..Len(s)
  PROVE  /\ SubSeq(s, 1, n) \in Seq(Call) /\ SubSeq(s, n + 1, Len(s)) \in Seq(Call)
         /\ Owners(s) = Owners(SubSeq(s, 1, n)) \cup Owners(SubSeq(s, n + 1, Len(s)))
         /\ Distinct(s) => /\ Distinct(SubSeq(s, n + 1, Len(s)))
                           /\ Owners(SubSeq(s, 1, n)) \cap Owners(SubSeq(s, n + 1, Len(s))) = {}
<1> DEFINE a == SubSeq(s, 1, n)
           b == SubSeq(s, n + 1, Len(s))
<1>1. /\ a \in Seq(Call) /\ DOMAIN a = 1..n /\ \A i \in 1..n : a[i] = s[i]
      /\ b \in Seq(Call) /\ DOMAIN b = 1..(Len(s) - n) /\ \A i \in 1..(Len(s) - n) : b[i] = s[n + i]
      /\ DOMAIN s = 1..Len(s) /\ Len(s) \in Nat /\ n \in Nat /\ n <= Len(s)
  OBVIOUS
<1> HIDE DEF a, b
<1>2. Owners(a) \subseteq Owners(s)
  BY <1>1 DEF Owners
<1>3. Owners(b) \subseteq Owners(s)
  <2> SUFFICES ASSUME NEW i \in DOMAIN b PROVE b[i] \in Owners(s)
    BY DEF Owners
  <2>1. b[i] = s[n + i] /\ n + i \in DOMAIN s
    BY <1>1
  <2> QED BY <2>1 DEF Owners
<1>4. Owners(s) \subseteq Owners(a) \cup Owners(b)
  <2> SUFFICES ASSUME NEW i \in DOMAIN s PROVE s[i] \in Owners(a) \cup Owners(b)
    BY DEF Owners
  <2>1. CASE i <= n
    BY <1>1, <2>1 DEF Owners
  <2>2. CASE i > n
    <3>1. i - n \in DOMAIN b /\ b[i - n] = s[i]
      BY <1>1, <2>2
    <3> QED BY <3>1 DEF Owners
  <2> QED BY <1>1, <2>1, <2>2
<1>5. ASSUME Distinct(s) PROVE Distinct(b)
  <2> SUFFICES ASSUME NEW i \in DOMAIN b, NEW j \in DOMAIN b, key[b[i]] = key[b[j]] PROVE i = j
    BY DEF Distinct
  <2>1. b[i] = s[n + i] /\ n + i \in DOMAIN s /\ b[j] = s[n + j] /\ n + j \in DOMAIN s
    BY <1>1
  <2>2. n + i = n + j
    BY <1>5, <2>1 DEF Distinct
  <2> QED BY <1>1, <2>2
<1>6. ASSUME Distinct(s) PROVE Owners(a) \cap Owners(b) = {}
  <2> SUFFICES ASSUME NEW i \in DOMAIN a, NEW j \in DOMAIN b, a[i] = b[j] PROVE FALSE
    BY DEF Owners
  <2>1. a[i] = s[i] /\ i \in DOMAIN s /\ b[j] = s[n + j] /\ n + j \in DOMAIN s /\ i # n + j
    BY <1>1
  <2> QED BY <1>6, <2>1 DEF Distinct
<1> QED BY <1>1, <1>2, <1>3, <1>4, <1>5, <1>6 DEF a, b

LEMMA IsEntryOwners ==
  ASSUME NEW o PROVE IsEntry(o) <=> o \in Owners(entries)
BY DEF IsEntry, Owners

\* The registered session of a key.
LEMMA EntryIs ==
  ASSUME TypeOK, Distinct(entries), NEW k \in Key, NEW o \in Call
  PROVE  Entry(k) = <<o>> <=> IsEntry(o) /\ key[o] = k
<1> DEFINE s == Entry(k)
<1>1. s \in Seq(Call) /\ Owners(s) = {x \in Owners(entries) : key[x] \in {k}} /\ Distinct(s)
  BY Kept DEF Entry
<1> HIDE DEF s
<1>2. s = <<o>> => o \in Owners(s)
  BY DEF Owners
<1>3. ASSUME o \in Owners(s) PROVE s = <<o>>
  <2>1. PICK i \in DOMAIN s : s[i] = o
    BY <1>3 DEF Owners
  <2>2. \A j \in DOMAIN s : key[s[j]] = k
    BY <1>1 DEF Owners
  <2>3. \A j \in DOMAIN s : j = i
    BY <1>1, <2>2 DEF Distinct
  <2>4. DOMAIN s = 1..Len(s) /\ Len(s) \in Nat
    BY <1>1
  <2>5. Len(s) = 1 /\ i = 1
    <3>1. 1 \in DOMAIN s /\ Len(s) \in DOMAIN s
      BY <2>1, <2>4
    <3> QED BY <2>3, <3>1
  <2> QED BY <1>1, <2>1, <2>5
<1> QED BY <1>1, <1>2, <1>3, IsEntryOwners DEF s

\* The owners of a list of items.
Of(s) == {s[i].o : i \in DOMAIN s}

LEMMA OfConcat ==
  ASSUME NEW s \in Seq(Item), NEW t \in Seq(Item)
  PROVE  s \o t \in Seq(Item) /\ Of(s \o t) = Of(s) \cup Of(t)
<1> DEFINE u == s \o t
<1>1. /\ u \in Seq(Item) /\ DOMAIN u = 1..(Len(s) + Len(t)) /\ \A i \in 1..Len(s) : u[i] = s[i]
      /\ \A i \in 1..Len(t) : u[Len(s) + i] = t[i]
      /\ DOMAIN s = 1..Len(s) /\ Len(s) \in Nat /\ DOMAIN t = 1..Len(t) /\ Len(t) \in Nat
  OBVIOUS
<1> HIDE DEF u
<1>2. Of(s) \subseteq Of(u)
  BY <1>1 DEF Of
<1>3. Of(t) \subseteq Of(u)
  <2> SUFFICES ASSUME NEW i \in DOMAIN t PROVE t[i].o \in Of(u)
    BY DEF Of
  <2>1. Len(s) + i \in DOMAIN u /\ u[Len(s) + i] = t[i]
    BY <1>1
  <2> QED BY <2>1 DEF Of
<1>4. Of(u) \subseteq Of(s) \cup Of(t)
  <2> SUFFICES ASSUME NEW i \in DOMAIN u PROVE u[i].o \in Of(s) \cup Of(t)
    BY DEF Of
  <2>1. CASE i <= Len(s)
    BY <1>1, <2>1 DEF Of
  <2>2. CASE i > Len(s)
    <3>1. i - Len(s) \in DOMAIN t /\ t[i - Len(s)] = u[i]
      <4>1. i - Len(s) \in 1..Len(t) /\ Len(s) + (i - Len(s)) = i
        BY <1>1, <2>2
      <4> QED BY <1>1, <4>1
    <3> QED BY <3>1 DEF Of
  <2> QED BY <1>1, <2>1, <2>2
<1> QED BY <1>1, <1>2, <1>3, <1>4 DEF u

LEMMA OfEvictions ==
  ASSUME NEW s \in Seq(Call)
  PROVE  Evictions(s) \in Seq(Item) /\ Of(Evictions(s)) = Owners(s)
<1>1. DOMAIN s = 1..Len(s) /\ Len(s) \in Nat /\ \A i \in 1..Len(s) : s[i] \in Call
  OBVIOUS
<1>2. Evictions(s) \in Seq(Item) /\ DOMAIN Evictions(s) = 1..Len(s)
  BY <1>1 DEF Evictions, Item
<1>3. \A i \in 1..Len(s) : Evictions(s)[i].o = s[i]
  BY <1>1 DEF Evictions
<1> QED BY <1>1, <1>2, <1>3 DEF Of, Owners

\* The head and the rest of a list.
LEMMA OfTail ==
  ASSUME NEW s \in Seq(Item), s # <<>>
  PROVE  /\ Head(s) \in Item /\ Head(s).o \in Call /\ Tail(s) \in Seq(Item)
         /\ Of(s) = {Head(s).o} \cup Of(Tail(s))
         /\ Tail(s) = <<>> <=> ~(Len(s) > 1)
<1> DEFINE t == Tail(s)
<1>1. /\ Head(s) = s[1] /\ s[1] \in Item /\ t \in Seq(Item) /\ Len(s) \in Nat /\ Len(s) > 0
      /\ DOMAIN s = 1..Len(s) /\ DOMAIN t = 1..(Len(s) - 1)
      /\ Len(t) = Len(s) - 1 /\ \A i \in 1..(Len(s) - 1) : t[i] = s[i + 1]
  OBVIOUS
<1> HIDE DEF t
<1>2. Of(t) \subseteq Of(s)
  <2> SUFFICES ASSUME NEW i \in DOMAIN t PROVE t[i].o \in Of(s)
    BY DEF Of
  <2>1. i + 1 \in DOMAIN s /\ t[i] = s[i + 1]
    BY <1>1
  <2> QED BY <2>1 DEF Of
<1>3. s[1].o \in Of(s)
  BY <1>1 DEF Of
<1>4. Of(s) \subseteq {s[1].o} \cup Of(t)
  <2> SUFFICES ASSUME NEW i \in DOMAIN s, i # 1 PROVE s[i].o \in Of(t)
    BY DEF Of
  <2>1. i - 1 \in 1..(Len(s) - 1) /\ (i - 1) + 1 = i
    BY <1>1
  <2>2. t[i - 1] = s[i]
    BY <1>1, <2>1
  <2> QED BY <1>1, <2>1, <2>2 DEF Of
<1>5. t = <<>> <=> ~(Len(s) > 1)
  BY <1>1
<1>6. s[1].o \in Call
  BY <1>1 DEF Item
<1> QED BY <1>1, <1>2, <1>3, <1>4, <1>5, <1>6 DEF t

LEMMA OwnersConcat ==
  ASSUME NEW s \in Seq(Call), NEW t \in Seq(Call)
  PROVE  s \o t \in Seq(Call) /\ Owners(s \o t) = Owners(s) \cup Owners(t)
<1> DEFINE u == s \o t
<1>1. /\ u \in Seq(Call) /\ DOMAIN u = 1..(Len(s) + Len(t)) /\ \A i \in 1..Len(s) : u[i] = s[i]
      /\ \A i \in 1..Len(t) : u[Len(s) + i] = t[i]
      /\ DOMAIN s = 1..Len(s) /\ Len(s) \in Nat /\ DOMAIN t = 1..Len(t) /\ Len(t) \in Nat
  OBVIOUS
<1> HIDE DEF u
<1>2. Owners(s) \subseteq Owners(u)
  BY <1>1 DEF Owners
<1>3. Owners(t) \subseteq Owners(u)
  <2> SUFFICES ASSUME NEW i \in DOMAIN t PROVE t[i] \in Owners(u)
    BY DEF Owners
  <2>1. Len(s) + i \in DOMAIN u /\ u[Len(s) + i] = t[i]
    BY <1>1
  <2> QED BY <2>1 DEF Owners
<1>4. Owners(u) \subseteq Owners(s) \cup Owners(t)
  <2> SUFFICES ASSUME NEW i \in DOMAIN u PROVE u[i] \in Owners(s) \cup Owners(t)
    BY DEF Owners
  <2>1. CASE i <= Len(s)
    BY <1>1, <2>1 DEF Owners
  <2>2. CASE i > Len(s)
    <3>1. i - Len(s) \in DOMAIN t /\ t[i - Len(s)] = u[i]
      <4>1. i - Len(s) \in 1..Len(t) /\ Len(s) + (i - Len(s)) = i
        BY <1>1, <2>2
      <4> QED BY <1>1, <4>1
    <3> QED BY <3>1 DEF Owners
  <2> QED BY <1>1, <2>1, <2>2
<1> QED BY <1>1, <1>2, <1>3, <1>4 DEF u

\* A close shuts down every owner of its keys.
LEMMA RegisteredIs ==
  ASSUME TypeOK, NEW ks \in SUBSET Key
  PROVE  /\ Registered(ks) \in Seq(Call)
         /\ Owners(Registered(ks)) = {o \in Owners(entries) : key[o] \in ks} \cup Creations(ks)
<1> DEFINE C == Creations(ks)
           n == Cardinality(C)
           order == CHOOSE f \in [1..n -> C] : \A o \in C : \E i \in DOMAIN f : f[i] = o
           s == EntriesOf(ks)
<1>7. Registered(ks) = s \o order
  BY DEF Registered
<1>1. C \subseteq Call /\ IsFiniteSet(C)
  <2>1. C \subseteq Call
    BY DEF Creations, TypeOK
  <2> QED BY <2>1, FS_Subset, SessionAssumption
<1>2. n \in Nat /\ ExistsBijection(1..n, C)
  BY <1>1, FS_CardinalityType
<1>3. \E f \in [1..n -> C] : \A o \in C : \E i \in DOMAIN f : f[i] = o
  BY <1>2 DEF ExistsBijection, Bijection, Injection, Surjection
<1> HIDE DEF C, n
<1>4. order \in [1..n -> C] /\ \A o \in C : \E i \in DOMAIN order : order[i] = o
  BY <1>3
<1> HIDE DEF order
<1>5. order \in Seq(Call) /\ DOMAIN order = 1..n /\ Len(order) = n
  BY <1>1, <1>2, <1>4
<1>6. s \in Seq(Call) /\ Owners(s) = {o \in Owners(entries) : key[o] \in ks}
  BY Kept
<1>8. Owners(order) = C
  BY <1>4 DEF Owners
<1> QED BY <1>5, <1>6, <1>7, <1>8, OwnersConcat DEF C

-----------------------------------------------------------------------------
(* The inductive invariant. *)

\* The registry knows nothing of o, or no longer.
Gone(o) == ~IsEntry(o) /\ inflight[key[o]] # o

\* A key has an entry or a creation in flight.
RegistryInv ==
    /\ Distinct(entries)
    /\ \A o \in Call : IsEntry(o) => inflight[key[o]] = Nobody
    /\ \A k \in Key : inflight[k] # Nobody => key[inflight[k]] = k

\* How a call, its owner task and the future agree.
OwnerOf(o) ==
    /\ pc[o] = "idle" => owner[o] = "none"
    /\ owner[o] = "none" => Gone(o) /\ ~Told(o) /\ pc[o] \notin {"waiting", "unwinding", "closing"}
    /\ IsEntry(o) => pc[o] = "returned" /\ (Running(o) => owner[o] = "open")
    /\ pc[o] = "closing" => inflight[key[o]] # o
    /\ pc[o] = "unwinding" => Told(o)
    /\ ready[o] = "set" => owner[o] = "open" \/ Told(o)
    /\ ready[o] = "failed" => owner[o] \in {"closing", "ended"}
    /\ ~Gone(o) /\ pc[o] # "unwinding" /\ Running(o) => ~Told(o)

\* Who has a list, and who waits for another loop.
Shape(w) ==
    /\ pc[w] \in {"evicting", "awaitOwner", "awaitRemote"} \/ remote[w] # "none" => evicted[w] # <<>>
    /\ evicted[w] # <<>> => pc[w] \in {"evicting", "awaitOwner", "awaitRemote", "raised"}
    /\ remote[w] # "none" => pc[w] \in {"awaitRemote", "raised"}

\* What a call has yet to shut down left the registry for good.
ListOf(w) ==
    /\ Shape(w)
    /\ \A o \in Lists(w) : Gone(o) /\ owner[o] # "none"

\* So did what another loop has yet to be told of.
PostedInv == \A x \in posted : Gone(x.o) /\ owner[x.o] # "none"

OwnersInv == \A o \in Call : OwnerOf(o)
ListsInv  == \A w \in Call : ListOf(w)

Inv == TypeOK /\ RegistryInv /\ OwnersInv /\ ListsInv /\ PostedInv /\ NoOrphanSession

\* What an owner is to somebody.
Looked(o) == owner[o] \in Live \ {"closing"} /\ Running(o) =>
                Known(o) \/ \E w \in Call : pc[w] # "returned" /\ o \in Lists(w)

LEMMA ListsOf ==
  ASSUME NEW w \in Call PROVE Lists(w) = Of(evicted[w])
BY DEF Lists, Of

LEMMA InvInit == Init => Inv
<1> SUFFICES ASSUME Init PROVE Inv
  OBVIOUS
<1> USE SessionAssumption, NobodyAssumption DEF Init
<1>1. TypeOK
  BY DEF TypeOK, Pc, Live
<1>2. \A o \in Call : ~IsEntry(o) /\ Gone(o) /\ ~Told(o)
  <2>1. \A o \in Call : ~IsEntry(o) /\ ~Told(o)
    BY DEF IsEntry, Told
  <2>2. \A o \in Call : inflight[key[o]] = Nobody
    OBVIOUS
  <2> QED BY <2>1, <2>2 DEF Gone
<1>3. RegistryInv
  BY <1>2 DEF RegistryInv, Distinct
<1>4. OwnersInv
  BY <1>2 DEF OwnersInv, OwnerOf
<1>5. ListsInv
  BY DEF ListsInv, ListOf, Shape, Lists
<1>6. PostedInv /\ NoOrphanSession
  BY DEF PostedInv, NoOrphanSession, Live
<1> QED BY <1>1, <1>3, <1>4, <1>5, <1>6 DEF Inv

-----------------------------------------------------------------------------
(* Every step keeps the types. *)

LEMMA GoOnType ==
  ASSUME TypeOK, NEW w \in Call, evicted[w] # <<>>, GoOn(w)
  PROVE  /\ pc' \in [Call -> Pc] /\ evicted' \in [Call -> Seq(Item)]
<1>1. evicted[w] \in Seq(Item)
  BY DEF TypeOK
<1>2. Tail(evicted[w]) \in Seq(Item)
  BY <1>1, OfTail
<1> QED BY <1>2 DEF TypeOK, GoOn, Goto, Pc

LEMMA ListHead ==
  ASSUME TypeOK, NEW w \in Call, evicted[w] # <<>>
  PROVE  /\ First(w) \in Item /\ First(w).o \in Call /\ First(w).o \in Lists(w)
<1>1. evicted[w] \in Seq(Item)
  BY DEF TypeOK
<1>2. First(w) \in Item /\ First(w).o \in Call /\ First(w).o \in Of(evicted[w])
  BY <1>1, OfTail DEF First
<1> QED BY <1>2, ListsOf

\* The four ways to go on with a list.
SkipNext(w) ==
    /\ loop[First(w).o] = "closed" /\ GoOn(w)
    /\ UNCHANGED <<remote, closeEvt, cancelReq, posted>>
TellNext(w) ==
    /\ Tell(First(w)) /\ Goto(w, "awaitOwner")
    /\ UNCHANGED <<evicted, remote, posted>>
PostNext(w) ==
    /\ posted' = posted \cup {First(w)} /\ GoOn(w)
    /\ UNCHANGED <<remote, closeEvt, cancelReq>>
SendNext(w) ==
    /\ remote' = [remote EXCEPT ![w] = "sent"] /\ Goto(w, "awaitRemote")
    /\ UNCHANGED <<evicted, posted, closeEvt, cancelReq>>

LEMMA ShutDownWays ==
  ASSUME NEW w, ShutDownNext(w)
  PROVE  /\ SkipNext(w) \/ TellNext(w) \/ PostNext(w) \/ SendNext(w)
         /\ pc[w] = "evicting" /\ UNCHANGED <<registry, loop, key, join, owner, ready, upsets>>
<1> DEFINE x == First(w)
<1>1. CASE loop[x.o] = "closed"
  BY <1>1 DEF ShutDownNext, SkipNext
<1>2. CASE SameLoop(w, x.o) /\ loop[x.o] # "closed"
  BY <1>2 DEF ShutDownNext, TellNext
<1>3. CASE ~SameLoop(w, x.o) /\ loop[x.o] # "closed"
  BY <1>3 DEF ShutDownNext, PostNext, SendNext
<1> QED BY <1>1, <1>2, <1>3

LEMMA GiveUpType ==
  ASSUME TypeOK, NEW w \in Call, GiveUp(w)
  PROVE  inflight' \in [Key -> Call \cup {Nobody}] /\ pc' \in [Call -> Pc]
<1>1. inflight' \in [Key -> Call \cup {Nobody}]
  BY DEF TypeOK, GiveUp
<1>2. pc' \in [Call -> Pc]
  BY DEF TypeOK, GiveUp, Goto, Pc
<1> QED BY <1>1, <1>2

LEMMA TypeStep == Inv /\ [Next]_vars => TypeOK'
<1> SUFFICES ASSUME Inv, [Next]_vars PROVE TypeOK'
  OBVIOUS
<1> USE SessionAssumption
<1>0. TypeOK /\ ListsInv /\ PostedInv
  BY DEF Inv
<1>1. ASSUME NEW w \in Call, Reuse(w) PROVE TypeOK'
  <2>1. PICK o \in Call : entries' = Append(Without(key[w]), o)
    BY <1>1 DEF Reuse
  <2>2. Without(key[w]) \in Seq(Call)
    BY <1>0, Kept DEF Without
  <2>3. entries' \in Seq(Call)
    BY <2>1, <2>2
  <2> QED BY <1>0, <1>1, <2>3 DEF Reuse, TypeOK, Goto, Pc, owners
<1>2. ASSUME NEW w \in Call, Enter(w) PROVE TypeOK'
  <2> DEFINE k == key[w]
             rest == Without(k)
             n == Surplus(rest)
             stale == inflight[k] # Nobody /\ ~SameLoop(w, inflight[k])
             last == IF stale THEN <<StaleCreation(inflight[k])>> ELSE <<>>
  <2>1. rest \in Seq(Call) /\ Entry(k) \in Seq(Call)
    BY <1>0, Kept DEF Without, Entry
  <2> HIDE DEF rest
  <2>2. n \in 0..Len(rest)
    BY <2>1 DEF Surplus
  <2>3. entries' = SubSeq(rest, n + 1, Len(rest))
    BY <1>2 DEF Enter, rest
  <2>4. evicted' = [evicted EXCEPT ![w] = Evictions(Entry(k)) \o last \o Evictions(SubSeq(rest, 1, n))]
    BY <1>2 DEF Enter, rest
  <2> HIDE DEF n
  <2>5. entries' \in Seq(Call) /\ SubSeq(rest, 1, n) \in Seq(Call)
    BY <2>1, <2>2, <2>3, OwnersSplit
  <2>6. last \in Seq(Item)
    <3>1. stale => StaleCreation(inflight[k]) \in Item
      BY <1>0 DEF TypeOK, StaleCreation, Item
    <3> QED BY <3>1
  <2> HIDE DEF last
  <2>7. evicted' \in [Call -> Seq(Item)]
    <3>1. Evictions(Entry(k)) \in Seq(Item) /\ Evictions(SubSeq(rest, 1, n)) \in Seq(Item)
      BY <2>1, <2>5, OfEvictions
    <3>2. Evictions(Entry(k)) \o last \in Seq(Item)
      BY <2>6, <3>1, OfConcat
    <3>3. Evictions(Entry(k)) \o last \o Evictions(SubSeq(rest, 1, n)) \in Seq(Item)
      BY <3>1, <3>2, OfConcat
    <3> QED BY <1>0, <2>4, <3>3 DEF TypeOK
  <2>8. pc' \in [Call -> Pc]
    BY <1>0, <1>2 DEF Enter, Goto, TypeOK, Pc
  <2>9. /\ join' \in [Call -> Call \cup {Nobody}] /\ inflight' \in [Key -> Call \cup {Nobody}]
        /\ owner' \in [Call -> {"none", "ended", "neverRan"} \cup Live]
    <3>1. CASE /\ Joinable(w) /\ join' = [join EXCEPT ![w] = inflight[k]]
               /\ UNCHANGED <<inflight, owner>>
      <4>1. inflight[k] \in Call \cup {Nobody}
        BY <1>0 DEF TypeOK
      <4> QED BY <1>0, <3>1, <4>1 DEF TypeOK
    <3>2. CASE /\ inflight' = [inflight EXCEPT ![k] = w]
               /\ owner' = [owner EXCEPT ![w] = "created"] /\ UNCHANGED join
      <4>1. "created" \in Live
        BY DEF Live
      <4> QED BY <1>0, <3>2, <4>1 DEF TypeOK
    <3> QED BY <1>2, <3>1, <3>2 DEF Enter
  <2> QED BY <1>0, <1>2, <2>5, <2>7, <2>8, <2>9 DEF Enter, TypeOK
<1>3. ASSUME NEW w \in Call, Cancel(w) PROVE TypeOK'
  <2>1. pc[w] \in {"awaitOwner", "awaitRemote"} => First(w).o \in Call
    BY <1>0, ListHead DEF ListsInv, ListOf, Shape
  <2>2. closeEvt' \subseteq Call /\ cancelReq' \subseteq Call
    BY <1>0, <1>3, <2>1 DEF Cancel, TypeOK
  <2>3. inflight' \in [Key -> Call \cup {Nobody}] /\ pc' \in [Call -> Pc]
    <3>1. \/ GiveUp(w)
          \/ inflight' = inflight /\ (pc' = pc \/ \E p \in Pc : pc' = [pc EXCEPT ![w] = p])
      BY <1>3, Zenon DEF Cancel, Goto, Pc
    <3>2. CASE GiveUp(w)
      BY <1>0, <3>2, GiveUpType
    <3>3. CASE inflight' = inflight /\ (pc' = pc \/ \E p \in Pc : pc' = [pc EXCEPT ![w] = p])
      BY <1>0, <3>3 DEF TypeOK
    <3> QED BY <3>1, <3>2, <3>3
  <2>4. upsets' \in 0..MaxUpsets
    BY <1>0, <1>3 DEF Cancel, Upset, TypeOK
  <2> QED BY <1>0, <1>3, <2>2, <2>3, <2>4 DEF Cancel, TypeOK
<1>4. ASSUME NEW w \in Call, ShutDownNext(w) PROVE TypeOK'
  <2>1. evicted[w] # <<>> /\ First(w) \in Item /\ First(w).o \in Call
    BY <1>0, <1>4, ListHead DEF ListsInv, ListOf, Shape, ShutDownNext
  <2>2. pc' \in [Call -> Pc] /\ evicted' \in [Call -> Seq(Item)]
    <3>1. CASE SkipNext(w) \/ PostNext(w)
      BY <1>0, <2>1, <3>1, GoOnType DEF SkipNext, PostNext
    <3>2. CASE TellNext(w) \/ SendNext(w)
      <4>1. evicted' = evicted /\ \E p \in {"awaitOwner", "awaitRemote"} : pc' = [pc EXCEPT ![w] = p]
        BY <3>2, Zenon DEF TellNext, SendNext, Goto
      <4> QED BY <1>0, <4>1 DEF TypeOK, Pc
    <3> QED BY <1>4, <3>1, <3>2, ShutDownWays
  <2> QED BY <1>0, <1>4, <2>1, <2>2 DEF ShutDownNext, Tell, TypeOK, registry
<1>5. ASSUME NEW w \in Call, OwnerAwaited(w) PROVE TypeOK'
  <2>1. evicted[w] # <<>>
    BY <1>0, <1>5 DEF ListsInv, ListOf, Shape, OwnerAwaited
  <2>2. pc' \in [Call -> Pc] /\ evicted' \in [Call -> Seq(Item)]
    BY <1>0, <1>5, <2>1, GoOnType DEF OwnerAwaited
  <2> QED BY <1>0, <1>5, <2>2 DEF OwnerAwaited, TypeOK, registry, owners
<1>6. ASSUME NEW w \in Call, RemoteShutdown(w) PROVE TypeOK'
  <2>1. First(w).o \in Call
    BY <1>0, <1>6, ListHead DEF ListsInv, ListOf, Shape, RemoteShutdown
  <2> QED BY <1>0, <1>6, <2>1 DEF RemoteShutdown, Tell, TypeOK, registry
<1>7. ASSUME NEW w \in Call, Joined(w) \/ Unwound(w) PROVE TypeOK'
  <2>1. CASE Joined(w)
    <3>1. pc' \in [Call -> Pc]
      BY <1>0, <2>1 DEF Joined, Goto, TypeOK, Pc
    <3> QED BY <1>0, <2>1, <3>1 DEF Joined, TypeOK, registry, owners
  <2>2. CASE Unwound(w)
    BY <1>0, <2>2, GiveUpType DEF Unwound, TypeOK, owners
  <2> QED BY <1>7, <2>1, <2>2
<1>8. ASSUME NEW w \in Call, Promote(w) PROVE TypeOK'
  <2>1. entries' = entries \/ entries' = Append(entries, w)
    BY <1>8 DEF Promote, registry
  <2>2. entries' \in Seq(Call)
    <3>1. entries \in Seq(Call)
      BY <1>0 DEF TypeOK
    <3>2. Append(entries, w) \in Seq(Call)
      BY <3>1
    <3> QED BY <2>1, <3>1, <3>2
  <2>3. inflight' \in [Key -> Call \cup {Nobody}] /\ closeEvt' \subseteq Call
    BY <1>0, <1>8 DEF Promote, TypeOK, registry
  <2>4. pc' \in [Call -> Pc]
    BY <1>0, <1>8 DEF Promote, Goto, TypeOK, Pc
  <2> QED BY <1>0, <1>8, <2>2, <2>3, <2>4 DEF Promote, TypeOK
<1>9. ASSUME NEW w \in Call, EndLoop(w) \/ CloseLoop(w) PROVE TypeOK'
  BY <1>0, <1>9 DEF EndLoop, CloseLoop, TypeOK, registry, owners
<1>10. ASSUME NEW w \in Call, NEW ks \in SUBSET Key, Close(w, ks) PROVE TypeOK'
  <2>1. EntriesOf(Key \ ks) \in Seq(Call) /\ Registered(ks) \in Seq(Call)
    BY <1>0, Kept, RegisteredIs
  <2> DEFINE s == Registered(ks)
             list == [i \in DOMAIN s |-> LET o == s[i] IN [o |-> o, cancel |-> Cancelled(o), wait |-> TRUE]]
  <2>2. evicted' = [evicted EXCEPT ![w] = list]
    BY <1>10 DEF Close
  <2> HIDE DEF s
  <2>3. s \in Seq(Call)
    BY <2>1 DEF s
  <2>4. \A o : Cancelled(o) \in BOOLEAN
    BY DEF Cancelled
  <2>5. list \in Seq(Item)
    <3>1. DOMAIN s = 1..Len(s) /\ Len(s) \in Nat /\ \A i \in DOMAIN s : s[i] \in Call
      BY <2>3
    <3> QED BY <2>4, <3>1 DEF Item
  <2> QED BY <1>0, <1>10, <2>1, <2>2, <2>5 DEF Close, PopAll, Goto, TypeOK, Pc, owners
<1>11. ASSUME NEW here \in BOOLEAN, CloseAllSync(here) PROVE TypeOK'
  <2> DEFINE all == {Registered(Key)[i] : i \in DOMAIN Registered(Key)}
  <2>1. EntriesOf(Key \ Key) \in Seq(Call) /\ all \subseteq Call
    BY <1>0, Kept, RegisteredIs DEF Owners
  <2>2. \A o : Cancelled(o) \in BOOLEAN
    BY DEF Cancelled
  <2> HIDE DEF all
  <2>3. PICK h \in SUBSET all : 
          /\ closeEvt' = closeEvt \cup h
          /\ cancelReq' = cancelReq \cup {o \in h : Cancelled(o)}
          /\ posted' = posted \cup {[o |-> o, cancel |-> Cancelled(o), wait |-> FALSE] :
                                o \in {x \in all \ h : loop[x] # "closed"}}
    BY <1>11 DEF CloseAllSync, all
  <2>4. posted' \subseteq Item
    <3>1. \A o \in all : [o |-> o, cancel |-> Cancelled(o), wait |-> FALSE] \in Item
      BY <2>1, <2>2 DEF Item
    <3> QED BY <1>0, <2>3, <3>1 DEF TypeOK
  <2> QED BY <1>0, <1>11, <2>1, <2>3, <2>4 DEF CloseAllSync, PopAll, Upset, TypeOK, calls
<1>12. ASSUME NEW x \in posted, Posted(x) PROVE TypeOK'
  BY <1>0, <1>12 DEF Posted, Tell, TypeOK, registry, calls, Item
<1>13. ASSUME NEW o \in Call, Serve(o) \/ Initialize(o) \/ InitializeFails(o) PROVE TypeOK'
  <2>1. owner' \in [Call -> {"none", "ended", "neverRan"} \cup Live]
    <3>1. PICK p \in {"neverRan", "starting", "open", "closing", "ended"} : owner' = [owner EXCEPT ![o] = p]
      BY <1>13 DEF Serve, Start, ToldToClose, Exit, Initialize, InitializeFails
    <3> QED BY <1>0, <3>1 DEF TypeOK, Live
  <2>2. ready' \in [Call -> {"pending", "set", "failed"}]
    BY <1>0, <1>13
    DEF Serve, Start, ToldToClose, FailIfPending, Exit, Initialize, InitializeFails, TypeOK
  <2>3. UNCHANGED <<registry, calls, closeEvt, cancelReq, posted, upsets>>
    BY <1>13 DEF Serve, Start, ToldToClose, Exit, Initialize, InitializeFails
  <2> QED BY <1>0, <2>1, <2>2, <2>3 DEF TypeOK, registry, calls
<1>14. CASE UNCHANGED vars
  BY <1>0, <1>14 DEF TypeOK, vars
<1> QED BY <1>1, <1>2, <1>3, <1>4, <1>5, <1>6, <1>7, <1>8, <1>9, <1>10, <1>11, <1>12, <1>13, <1>14
  DEF Next, Proceed

-----------------------------------------------------------------------------
(* Steps that leave the registry as it is, or reorder it. *)

\* The owners of the registry stay.
SameRegistry ==
    /\ UNCHANGED <<inflight, key>>
    /\ Distinct(entries)'
    /\ \A o \in Call : IsEntry(o)' <=> IsEntry(o)

\* A list only gets shorter, and what is posted was listed.
ListsShrink ==
    /\ \A w \in Call : Lists(w)' \subseteq Lists(w)
    /\ \A x \in posted' : x \in posted \/ (x \in Item /\ \E w \in Call : x.o \in Lists(w))

\* Owner o goes on as it was, but may be told to close when it is gone.
SameOwner(o) ==
    /\ pc'[o] = pc[o] /\ owner'[o] = owner[o] /\ ready'[o] = ready[o]
    /\ Running(o)' => Running(o)
    /\ Told(o) => Told(o)'
    /\ Told(o)' => Told(o) \/ (Gone(o) /\ owner[o] # "none") \/ ~Running(o)'

LEMMA UnchangedRegistry ==
  ASSUME Inv, UNCHANGED <<registry, key>>
  PROVE  SameRegistry
BY DEF SameRegistry, registry, Distinct, IsEntry, Inv, RegistryInv

LEMMA GoneStays ==
  ASSUME SameRegistry, NEW o \in Call
  PROVE  (Gone(o)' <=> Gone(o)) /\ (IsEntry(o)' <=> IsEntry(o)) /\ inflight'[key'[o]] = inflight[key[o]]
BY DEF SameRegistry, Gone

LEMMA RegistryKept ==
  ASSUME Inv, SameRegistry
  PROVE  RegistryInv'
BY DEF SameRegistry, RegistryInv, Inv

LEMMA ListsType ==
  ASSUME TypeOK, NEW w \in Call
  PROVE  Lists(w) \subseteq Call
<1>1. evicted[w] \in Seq(Item)
  BY DEF TypeOK
<1>2. \A i \in DOMAIN evicted[w] : evicted[w][i] \in Item
  BY <1>1
<1> QED BY <1>2 DEF Lists, Item

\* Whoever is gone and on a list stays so.
LEMMA ListedKept ==
  ASSUME Inv, SameRegistry, ListsShrink,
         \A o \in Call : owner[o] # "none" => owner'[o] # "none"
  PROVE  PostedInv' /\ \A w \in Call : \A o \in Lists(w)' : Gone(o)' /\ owner'[o] # "none"
<1>1. \A w \in Call : \A o \in Lists(w) : o \in Call /\ Gone(o) /\ owner[o] # "none"
  BY ListsType DEF Inv, ListsInv, ListOf
<1>2. \A x \in posted : x.o \in Call /\ Gone(x.o) /\ owner[x.o] # "none"
  BY DEF Inv, PostedInv, TypeOK, Item
<1>3. \A o \in Call : Gone(o) /\ owner[o] # "none" => Gone(o)' /\ owner'[o] # "none"
  BY GoneStays
<1>4. PostedInv'
  BY <1>1, <1>2, <1>3 DEF PostedInv, ListsShrink
<1> QED BY <1>1, <1>3, <1>4 DEF ListsShrink

LEMMA OwnerKept ==
  ASSUME Inv, SameRegistry, NEW o \in Call, SameOwner(o), owner[o] = "none" => ~Told(o)'
  PROVE  OwnerOf(o)'
<1>1. OwnerOf(o)
  BY DEF Inv, OwnersInv
<1>2. (Gone(o)' <=> Gone(o)) /\ (IsEntry(o)' <=> IsEntry(o)) /\ inflight'[key'[o]] = inflight[key[o]]
  BY GoneStays
<1> QED BY <1>1, <1>2 DEF OwnerOf, SameOwner

LEMMA GoOnLists ==
  ASSUME TypeOK, NEW w \in Call, evicted[w] # <<>>, GoOn(w)
  PROVE  /\ \A v \in Call \ {w} : evicted'[v] = evicted[v] /\ pc'[v] = pc[v] /\ Lists(v)' = Lists(v)
         /\ Lists(w) = {First(w).o} \cup Lists(w)'
         /\ evicted'[w] # <<>> => pc'[w] = "evicting"
         /\ evicted'[w] = <<>> => pc'[w] \in {"joining", "waiting", "returned"}
         /\ pc'[w] = "waiting" => owner[w] # "none"
         /\ pc'[w] = "evicting" => evicted'[w] # <<>>
         /\ pc'[w] = "returned" => Lists(w)' = {}
<1>1. evicted[w] \in Seq(Item) /\ evicted \in [Call -> Seq(Item)] /\ pc \in [Call -> Pc]
  BY DEF TypeOK
<1>2. /\ evicted' = [evicted EXCEPT ![w] = Tail(evicted[w])]
      /\ pc' = [pc EXCEPT ![w] = IF Len(evicted[w]) > 1 THEN "evicting"
               ELSE IF join[w] # Nobody THEN "joining"
               ELSE IF owner[w] # "none" THEN "waiting" ELSE "returned"]
  BY DEF GoOn, Goto
<1>3. /\ Tail(evicted[w]) = <<>> <=> ~(Len(evicted[w]) > 1)
      /\ Of(evicted[w]) = {First(w).o} \cup Of(Tail(evicted[w]))
  BY <1>1, OfTail DEF First
<1>4. evicted'[w] = Tail(evicted[w])
  BY <1>1, <1>2
<1>5. Lists(w) = Of(evicted[w]) /\ Lists(w)' = Of(Tail(evicted[w]))
  BY <1>4 DEF Lists, Of
<1>6. \A v \in Call \ {w} : evicted'[v] = evicted[v] /\ pc'[v] = pc[v] /\ Lists(v)' = Lists(v)
  BY <1>1, <1>2 DEF Lists
<1>7. pc'[w] = IF Len(evicted[w]) > 1 THEN "evicting"
               ELSE IF join[w] # Nobody THEN "joining"
               ELSE IF owner[w] # "none" THEN "waiting" ELSE "returned"
  BY <1>1, <1>2
<1>8. evicted'[w] = <<>> => Lists(w)' = {}
  BY DEF Lists
<1> HIDE DEF Of
<1> QED BY <1>3, <1>4, <1>5, <1>6, <1>7, <1>8

\* Whoever knew an owner still does, or has told it, or another one will.
HandedOn(o) ==
    /\ Told(o) => Told(o)'
    /\ owner'[o] \in Live \ {"closing"} /\ Running(o)' => owner[o] \in Live \ {"closing"} /\ Running(o)
    /\ \A x \in posted : x.o = o => x \in posted' \/ Told(o)' \/ ~Running(o)'
    /\ \A w \in Call : o \in Lists(w) =>
         \/ o \in Lists(w)' \/ Told(o)' \/ ~Running(o)' \/ owner'[o] \notin Live
         \/ \E x \in posted' : x.o = o

LEMMA LookedKept ==
  ASSUME Inv, SameRegistry, \A w \in Call : Shape(w)', NEW o \in Call, HandedOn(o)
  PROVE  Looked(o)'
<1> SUFFICES ASSUME owner'[o] \in Live \ {"closing"}, Running(o)' PROVE Looked(o)'
  BY DEF Looked
<1>1. Known(o) \/ \E w \in Call : o \in Lists(w)
  BY DEF Inv, NoOrphanSession, HandedOn
<1>2. /\ IsEntry(o)' <=> IsEntry(o)
      /\ inflight'[key'[o]] = inflight[key[o]]
  BY GoneStays
<1>3. \A w \in Call : o \in Lists(w)' => pc'[w] # "returned"
  <2>1. \A w \in Call : o \in Lists(w)' => evicted'[w] # <<>>
    BY DEF Lists
  <2> QED BY <2>1 DEF Shape
<1>4. CASE Known(o)
  BY <1>2, <1>4 DEF Known, Looked, HandedOn
<1>5. CASE \E w \in Call : o \in Lists(w)
  BY <1>3, <1>5 DEF Known, Looked, HandedOn
<1> QED BY <1>1, <1>4, <1>5

LEMMA NoOrphanIs == NoOrphanSession <=> \A o \in Call : Looked(o)
BY DEF NoOrphanSession, Looked

\* What a step that leaves the registry as it is has to show.
LEMMA QuietStep ==
  ASSUME Inv, TypeOK', SameRegistry, ListsShrink,
         \A o \in Call : owner[o] # "none" => owner'[o] # "none",
         OwnersInv', \A w \in Call : Shape(w)', \A o \in Call : HandedOn(o)
  PROVE  Inv'
<1>1. RegistryInv' /\ PostedInv' /\ ListsInv'
  BY RegistryKept, ListedKept DEF ListsInv, ListOf
<1>2. NoOrphanSession'
  <2>1. \A o \in Call : Looked(o)'
    BY LookedKept
  <2> QED BY <2>1 DEF NoOrphanSession, Looked
<1> QED BY <1>1, <1>2 DEF Inv

\* The owner tasks.
LEMMA ServeStep ==
  ASSUME Inv, TypeOK', NEW o \in Call, Serve(o) \/ Initialize(o) \/ InitializeFails(o)
  PROVE  Inv'
<1>0. TypeOK /\ OwnersInv /\ ListsInv
  BY DEF Inv
<1>1. UNCHANGED <<registry, calls, closeEvt, cancelReq, posted, upsets>>
  BY DEF Serve, Start, ToldToClose, Exit, Initialize, InitializeFails
<1>2. SameRegistry
  BY <1>1, UnchangedRegistry DEF calls
<1>3. ListsShrink
  BY <1>1 DEF ListsShrink, calls, Lists
<1>4. /\ \A x \in Call \ {o} : owner'[x] = owner[x] /\ ready'[x] = ready[x]
      /\ \/ owner[o] = "created" /\ owner'[o] \in {"neverRan", "starting"} /\ ready'[o] = ready[o]
         \/ owner[o] = "starting" /\ owner'[o] = "open" /\ ready'[o] = "set"
         \/ owner[o] = "starting" /\ owner'[o] = "closing" /\ ready'[o] = "failed"
         \/ owner[o] \in {"starting", "open"} /\ owner'[o] = "closing" /\ Told(o)
            /\ ready'[o] \in {"failed", ready[o]} /\ ready'[o] # "pending"
         \/ owner[o] = "closing" /\ owner'[o] = "ended" /\ ready'[o] = ready[o]
  <2> USE DEF TypeOK
  <2>1. CASE Start(o)
    BY <1>0, <2>1 DEF Start
  <2>2. CASE Initialize(o)
    BY <1>0, <2>2 DEF Initialize
  <2>3. CASE InitializeFails(o)
    BY <1>0, <2>3 DEF InitializeFails
  <2>4. CASE ToldToClose(o)
    BY <1>0, <2>4 DEF ToldToClose, FailIfPending, Told
  <2>5. CASE Exit(o)
    BY <1>0, <2>5 DEF Exit
  <2> QED BY <2>1, <2>2, <2>3, <2>4, <2>5 DEF Serve
<1>5. \A x \in Call : pc'[x] = pc[x] /\ (Running(x)' <=> Running(x)) /\ (Told(x)' <=> Told(x))
  BY <1>1 DEF calls, Running, Told
<1>6. OwnersInv'
  <2>1. ASSUME NEW x \in Call \ {o} PROVE OwnerOf(x)'
    <3>1. SameOwner(x)
      BY <1>4, <1>5 DEF SameOwner
    <3>2. owner[x] = "none" => ~Told(x)'
      BY <1>0, <1>5 DEF OwnersInv, OwnerOf
    <3> QED BY <1>2, <3>1, <3>2, OwnerKept
  <2>2. OwnerOf(o)'
    <3>1. OwnerOf(o)
      BY <1>0 DEF OwnersInv
    <3>2. (Gone(o)' <=> Gone(o)) /\ (IsEntry(o)' <=> IsEntry(o)) /\ inflight'[key'[o]] = inflight[key[o]]
      BY <1>2, GoneStays
    <3>3. pc'[o] = pc[o] /\ (Running(o)' <=> Running(o)) /\ (Told(o)' <=> Told(o))
      BY <1>5
    <3>4. owner'[o] # "none" /\ owner[o] # "none"
      BY <1>4
    <3>5. IsEntry(o) /\ Running(o) => owner[o] = "open" /\ ~Told(o)
      BY <3>1 DEF OwnerOf, Gone
    <3>6. IsEntry(o) /\ Running(o) => owner'[o] = "open"
      BY <1>4, <3>5
    <3>7. /\ ready'[o] = "set" => owner'[o] = "open" \/ Told(o)
          /\ ready'[o] = "failed" => owner'[o] \in {"closing", "ended"}
      BY <1>4, <3>1 DEF OwnerOf
    <3> QED BY <3>1, <3>2, <3>3, <3>4, <3>6, <3>7 DEF OwnerOf
  <2> QED BY <2>1, <2>2 DEF OwnersInv
<1>7. \A w \in Call : Shape(w)'
  BY <1>0, <1>1 DEF ListsInv, ListOf, Shape, calls
<1>8. \A x \in Call : HandedOn(x)
  BY <1>1, <1>4, <1>5 DEF HandedOn, Live, Lists, calls
<1>9. \A x \in Call : owner[x] # "none" => owner'[x] # "none"
  BY <1>4
<1> QED BY <1>2, <1>3, <1>6, <1>7, <1>8, <1>9, QuietStep

\* Owners are told to close, those that are gone.
Telling(T) ==
    /\ UNCHANGED <<loop, owner, ready>>
    /\ closeEvt \subseteq closeEvt' /\ closeEvt' \subseteq closeEvt \cup T
    /\ cancelReq \subseteq cancelReq' /\ cancelReq' \subseteq cancelReq \cup T

LEMMA TellKeeps ==
  ASSUME Inv, NEW T, \A x \in T : Gone(x) /\ owner[x] # "none", Telling(T), NEW o \in Call
  PROVE  /\ pc'[o] = pc[o] => SameOwner(o)
         /\ owner[o] = "none" => ~Told(o)'
         /\ (Told(o) => Told(o)') /\ (Running(o)' <=> Running(o))
         /\ Told(o)' => Told(o) \/ o \in T
<1>1. (Told(o) => Told(o)') /\ (Told(o)' => Told(o) \/ o \in T)
  BY DEF Told, Telling
<1>2. Running(o)' <=> Running(o)
  BY DEF Running, Telling
<1>3. owner[o] = "none" => ~Told(o)
  BY DEF Inv, OwnersInv, OwnerOf
<1> QED BY <1>1, <1>2, <1>3 DEF SameOwner, Telling

\* A step that tells the owners T to close, and moves no call.
LEMMA TellStep ==
  ASSUME Inv, TypeOK', SameRegistry, ListsShrink,
         NEW T, \A x \in T : Gone(x) /\ owner[x] # "none", Telling(T), UNCHANGED pc,
         \A w \in Call : Shape(w)', \A o \in Call : HandedOn(o)
  PROVE  Inv'
<1>1. \A o \in Call : SameOwner(o) /\ (owner[o] = "none" => ~Told(o)')
  BY TellKeeps
<1>2. OwnersInv'
  BY <1>1, OwnerKept DEF OwnersInv
<1> QED BY <1>2, QuietStep DEF Telling

LEMMA LoopStep ==
  ASSUME Inv, TypeOK', NEW w \in Call, EndLoop(w) \/ CloseLoop(w)
  PROVE  Inv'
<1>0. TypeOK /\ OwnersInv /\ ListsInv
  BY DEF Inv
<1>1. UNCHANGED <<registry, pc, key, evicted, join, remote, owner, ready, closeEvt, posted, upsets>>
  BY DEF EndLoop, CloseLoop, owners
<1>2. SameRegistry
  BY <1>1, UnchangedRegistry
<1>3. ListsShrink
  BY <1>1 DEF ListsShrink, Lists
<1>4. \A o \in Call : /\ Told(o) => Told(o)'
                      /\ Told(o)' => Told(o) \/ (owner[o] \in Live /\ ~Running(o)')
                      /\ Running(o)' => Running(o)
  BY <1>0 DEF EndLoop, CloseLoop, TypeOK, Told, Running, owners
<1>5. OwnersInv'
  <2> SUFFICES ASSUME NEW o \in Call PROVE OwnerOf(o)'
    BY DEF OwnersInv
  <2>1. SameOwner(o)
    BY <1>1, <1>4 DEF SameOwner
  <2>2. owner[o] = "none" => ~Told(o)'
    BY <1>0, <1>4 DEF OwnersInv, OwnerOf, Live
  <2> QED BY <1>2, <2>1, <2>2, OwnerKept
<1>6. \A v \in Call : Shape(v)'
  BY <1>0, <1>1 DEF ListsInv, ListOf, Shape
<1>7. \A o \in Call : HandedOn(o)
  BY <1>1, <1>4 DEF HandedOn, Lists
<1> QED BY <1>1, <1>2, <1>3, <1>5, <1>6, <1>7, QuietStep

LEMMA JoinedStep ==
  ASSUME Inv, TypeOK', NEW w \in Call, Joined(w)
  PROVE  Inv'
<1>0. TypeOK /\ OwnersInv /\ ListsInv
  BY DEF Inv
<1>1. UNCHANGED <<registry, loop, key, evicted, join, remote, owner, ready, closeEvt, cancelReq, posted, upsets>>
  BY DEF Joined, owners
<1>2. SameRegistry
  BY <1>1, UnchangedRegistry
<1>3. ListsShrink
  BY <1>1 DEF ListsShrink, Lists
<1>4. pc[w] = "joining" /\ pc'[w] \in {"returned", "raised"} /\ \A v \in Call \ {w} : pc'[v] = pc[v]
  BY <1>0 DEF Joined, Goto, TypeOK
<1>5. \A o \in Call : /\ Running(o)' <=> Running(o)
                      /\ Told(o)' <=> Told(o)
  BY <1>1 DEF Running, Told
<1>6. OwnersInv'
  <2>1. ASSUME NEW o \in Call \ {w} PROVE OwnerOf(o)'
    <3>1. SameOwner(o) /\ (owner[o] = "none" => ~Told(o)')
      BY <1>0, <1>1, <1>4, <1>5 DEF SameOwner, OwnersInv, OwnerOf
    <3> QED BY <1>2, <3>1, OwnerKept
  <2>2. OwnerOf(w)'
    <3>1. (Gone(w)' <=> Gone(w)) /\ (IsEntry(w)' <=> IsEntry(w)) /\ inflight'[key'[w]] = inflight[key[w]]
      BY <1>2, GoneStays
    <3>2. OwnerOf(w)
      BY <1>0 DEF OwnersInv
    <3> QED BY <1>1, <1>4, <1>5, <3>1, <3>2 DEF OwnerOf
  <2> QED BY <2>1, <2>2 DEF OwnersInv
<1>7. \A v \in Call : Shape(v)'
  BY <1>0, <1>1, <1>4 DEF ListsInv, ListOf, Shape
<1>8. \A o \in Call : HandedOn(o)
  BY <1>1, <1>5 DEF HandedOn, Lists
<1> QED BY <1>1, <1>2, <1>3, <1>6, <1>7, <1>8, QuietStep

LEMMA RemoteStep ==
  ASSUME Inv, TypeOK', NEW w \in Call, RemoteShutdown(w)
  PROVE  Inv'
<1>0. TypeOK /\ OwnersInv /\ ListsInv
  BY DEF Inv
<1> DEFINE T == {First(w).o}
<1>1. evicted[w] # <<>>
  BY <1>0 DEF RemoteShutdown, ListsInv, ListOf, Shape
<1>2. First(w).o \in Call /\ Gone(First(w).o) /\ owner[First(w).o] # "none"
  BY <1>0, <1>1, ListHead DEF ListsInv, ListOf
<1>3. Telling(T)
  BY DEF Telling, RemoteShutdown, Tell
<1>4. UNCHANGED <<registry, pc, key, evicted, posted>> /\ remote[w] # "none"
      /\ \A v \in Call \ {w} : remote'[v] = remote[v]
  BY <1>0 DEF RemoteShutdown, TypeOK
<1>5. SameRegistry /\ ListsShrink
  BY <1>4, UnchangedRegistry DEF ListsShrink, Lists
<1>6. \A v \in Call : Shape(v)'
  BY <1>0, <1>4 DEF ListsInv, ListOf, Shape
<1> HIDE DEF T
<1>7. \A x \in T : Gone(x) /\ owner[x] # "none"
  BY <1>2 DEF T
<1>8. \A o \in Call : HandedOn(o)
  <2>1. \A o \in Call : (Told(o) => Told(o)') /\ (Running(o)' <=> Running(o))
    BY <1>3, <1>7, TellKeeps
  <2> QED BY <1>3, <1>4, <2>1 DEF HandedOn, Lists, Telling
<1> QED BY <1>3, <1>4, <1>5, <1>6, <1>7, <1>8, TellStep

LEMMA PostedStep ==
  ASSUME Inv, TypeOK', NEW x \in posted, Posted(x)
  PROVE  Inv'
<1>0. TypeOK /\ OwnersInv /\ ListsInv /\ PostedInv
  BY DEF Inv
<1> DEFINE T == {x.o}
<1>1. x.o \in Call /\ Gone(x.o) /\ owner[x.o] # "none"
  BY <1>0 DEF TypeOK, Item, PostedInv
<1>2. Telling(T)
  BY DEF Telling, Posted, Tell, calls
<1>3. UNCHANGED <<registry, pc, key, evicted, remote, loop, owner>> /\ posted' = posted \ {x}
  BY DEF Posted, calls
<1>4. SameRegistry /\ ListsShrink
  BY <1>3, UnchangedRegistry DEF ListsShrink, Lists
<1>5. \A v \in Call : Shape(v)'
  BY <1>0, <1>3 DEF ListsInv, ListOf, Shape
<1>6. Told(x.o)' \/ ~Running(x.o)'
  BY DEF Posted, Tell, Told, Dropped, Running, calls
<1> HIDE DEF T
<1>7. \A y \in T : Gone(y) /\ owner[y] # "none"
  BY <1>1 DEF T
<1>8. \A o \in Call : HandedOn(o)
  <2>1. \A o \in Call : (Told(o) => Told(o)') /\ (Running(o)' <=> Running(o))
    BY <1>2, <1>7, TellKeeps
  <2> QED BY <1>3, <1>6, <2>1 DEF HandedOn, Lists
<1> QED BY <1>2, <1>3, <1>4, <1>5, <1>7, <1>8, TellStep

\* How a call goes on with its list.
LEMMA ShutDownStep ==
  ASSUME Inv, TypeOK', NEW w \in Call, ShutDownNext(w)
  PROVE  Inv'
<1>0. TypeOK /\ OwnersInv /\ ListsInv
  BY DEF Inv
<1> DEFINE x == First(w)
           T == {x.o}
<1>1. /\ pc[w] = "evicting" /\ UNCHANGED <<registry, loop, key, join, owner, ready, upsets>>
      /\ SkipNext(w) \/ TellNext(w) \/ PostNext(w) \/ SendNext(w)
  BY ShutDownWays
<1>2. evicted[w] # <<>> /\ remote[w] = "none"
  BY <1>0, <1>1 DEF ListsInv, ListOf, Shape
<1>3. x \in Item /\ x.o \in Call /\ x.o \in Lists(w) /\ Gone(x.o) /\ owner[x.o] # "none"
  BY <1>0, <1>2, ListHead DEF ListsInv, ListOf
<1>4. Telling(T)
  BY <1>1 DEF Telling, SkipNext, TellNext, PostNext, SendNext, Tell
<1>5. /\ \A v \in Call \ {w} : /\ evicted'[v] = evicted[v] /\ pc'[v] = pc[v] /\ remote'[v] = remote[v]
                               /\ Lists(v)' = Lists(v)
      /\ \/ /\ Lists(w) = {x.o} \cup Lists(w)' /\ remote' = remote
            /\ evicted'[w] # <<>> => pc'[w] = "evicting"
            /\ evicted'[w] = <<>> => pc'[w] \in {"joining", "waiting", "returned"}
            /\ pc'[w] = "waiting" => owner[w] # "none"
            /\ pc'[w] = "evicting" => evicted'[w] # <<>>
            /\ \/ posted' = posted /\ loop[x.o] = "closed"
               \/ posted' = posted \cup {x}
         \/ /\ Lists(w)' = Lists(w) /\ evicted'[w] = evicted[w] /\ posted' = posted
            /\ pc'[w] = "awaitOwner" /\ remote' = remote
         \/ /\ Lists(w)' = Lists(w) /\ evicted'[w] = evicted[w] /\ posted' = posted
            /\ pc'[w] = "awaitRemote" /\ remote'[w] = "sent"
  <2>1. CASE SkipNext(w)
    <3>1. GoOn(w)
      BY <2>1 DEF SkipNext
    <3> QED BY <1>0, <1>2, <2>1, <3>1, GoOnLists DEF SkipNext
  <2>2. CASE PostNext(w)
    <3>1. GoOn(w)
      BY <2>2 DEF PostNext
    <3> QED BY <1>0, <1>2, <2>2, <3>1, GoOnLists DEF PostNext
  <2>3. CASE TellNext(w)
    BY <1>0, <2>3 DEF TellNext, Goto, TypeOK, Lists
  <2>4. CASE SendNext(w)
    BY <1>0, <2>4 DEF SendNext, Goto, TypeOK, Lists
  <2> QED BY <1>1, <2>1, <2>2, <2>3, <2>4
<1>6. SameRegistry
  BY <1>1, UnchangedRegistry
<1>7. ListsShrink
  BY <1>3, <1>5 DEF ListsShrink
<1> HIDE DEF T
<1>8. \A y \in T : Gone(y) /\ owner[y] # "none"
  BY <1>3 DEF T
<1>9. \A o \in Call : /\ pc'[o] = pc[o] => SameOwner(o)
                      /\ owner[o] = "none" => ~Told(o)'
                      /\ (Told(o) => Told(o)') /\ (Running(o)' <=> Running(o))
                      /\ Told(o)' => Told(o) \/ o \in T
  BY <1>4, <1>8, TellKeeps
<1>10. OwnersInv'
  <2>1. ASSUME NEW o \in Call \ {w} PROVE OwnerOf(o)'
    BY <1>5, <1>6, <1>9, OwnerKept
  <2>2. OwnerOf(w)'
    <3>1. (Gone(w)' <=> Gone(w)) /\ (IsEntry(w)' <=> IsEntry(w)) /\ inflight'[key'[w]] = inflight[key[w]]
      BY <1>6, GoneStays
    <3>2. OwnerOf(w)
      BY <1>0 DEF OwnersInv
    <3>3. pc'[w] \in {"evicting", "joining", "waiting", "returned", "awaitOwner", "awaitRemote"}
          /\ (pc'[w] = "waiting" => owner[w] # "none")
      BY <1>2, <1>5
    <3>4. owner'[w] = owner[w] /\ ready'[w] = ready[w] /\ (Told(w)' => Told(w) \/ Gone(w))
      BY <1>1, <1>8, <1>9
    <3> QED BY <1>1, <1>9, <3>1, <3>2, <3>3, <3>4 DEF OwnerOf
  <2> QED BY <2>1, <2>2 DEF OwnersInv
<1>11. \A v \in Call : Shape(v)'
  <2>1. ASSUME NEW v \in Call \ {w} PROVE Shape(v)'
    BY <1>0, <1>5 DEF ListsInv, ListOf, Shape
  <2>2. Shape(w)'
    BY <1>2, <1>5 DEF Shape
  <2> QED BY <2>1, <2>2
<1>12. \A o \in Call : HandedOn(o)
  <2> SUFFICES ASSUME NEW o \in Call PROVE HandedOn(o)
    OBVIOUS
  <2>1. owner'[o] = owner[o] /\ posted \subseteq posted'
    BY <1>1, <1>5
  <2>2. ASSUME o \in Lists(w), o \notin Lists(w)' PROVE ~Running(o)' \/ \E y \in posted' : y.o = o
    <3>1. o = x.o
      BY <1>5, <2>2
    <3>2. loop[x.o] = "closed" => ~Running(o)'
      BY <1>1, <3>1 DEF Running
    <3>3. loop[x.o] = "closed" \/ x \in posted'
      BY <1>5, <2>2
    <3> QED BY <3>1, <3>2, <3>3
  <2> QED BY <1>5, <1>9, <2>1, <2>2 DEF HandedOn
<1> QED BY <1>1, <1>6, <1>7, <1>10, <1>11, <1>12, QuietStep

LEMMA AwaitedStep ==
  ASSUME Inv, TypeOK', NEW w \in Call, OwnerAwaited(w)
  PROVE  Inv'
<1>0. TypeOK /\ OwnersInv /\ ListsInv
  BY DEF Inv
<1>1. UNCHANGED <<registry, loop, key, owner, ready, closeEvt, cancelReq, posted>>
      /\ pc[w] \in {"awaitOwner", "awaitRemote"} /\ Ended(First(w).o) /\ GoOn(w)
      /\ remote' = [remote EXCEPT ![w] = "none"]
  BY DEF OwnerAwaited, owners
<1>2. evicted[w] # <<>>
  BY <1>0, <1>1 DEF ListsInv, ListOf, Shape
<1>3. First(w).o \in Call /\ owner[First(w).o] \notin Live
  BY <1>0, <1>1, <1>2, ListHead DEF Ended, Live
<1>4. /\ \A v \in Call \ {w} : evicted'[v] = evicted[v] /\ pc'[v] = pc[v] /\ Lists(v)' = Lists(v)
      /\ Lists(w) = {First(w).o} \cup Lists(w)'
      /\ evicted'[w] # <<>> => pc'[w] = "evicting"
      /\ evicted'[w] = <<>> => pc'[w] \in {"joining", "waiting", "returned"}
      /\ pc'[w] = "waiting" => owner[w] # "none"
      /\ pc'[w] = "evicting" => evicted'[w] # <<>>
  BY <1>0, <1>1, <1>2, GoOnLists
<1>5. remote'[w] = "none" /\ \A v \in Call \ {w} : remote'[v] = remote[v]
  BY <1>0, <1>1 DEF TypeOK
<1>6. SameRegistry /\ ListsShrink
  BY <1>1, <1>4, UnchangedRegistry DEF ListsShrink
<1>7. \A o \in Call : (Told(o)' <=> Told(o)) /\ (Running(o)' <=> Running(o))
  BY <1>1 DEF Told, Running
<1>8. OwnersInv'
  <2>1. ASSUME NEW o \in Call \ {w} PROVE OwnerOf(o)'
    <3>1. SameOwner(o) /\ (owner[o] = "none" => ~Told(o)')
      BY <1>0, <1>1, <1>4, <1>7 DEF SameOwner, OwnersInv, OwnerOf
    <3> QED BY <1>6, <3>1, OwnerKept
  <2>2. OwnerOf(w)'
    <3>1. (Gone(w)' <=> Gone(w)) /\ (IsEntry(w)' <=> IsEntry(w)) /\ inflight'[key'[w]] = inflight[key[w]]
      BY <1>6, GoneStays
    <3>2. OwnerOf(w)
      BY <1>0 DEF OwnersInv
    <3>3. pc'[w] \in {"evicting", "joining", "waiting", "returned"}
      BY <1>4
    <3> QED BY <1>1, <1>4, <1>7, <3>1, <3>2, <3>3 DEF OwnerOf
  <2> QED BY <2>1, <2>2 DEF OwnersInv
<1>9. \A v \in Call : Shape(v)'
  <2>1. ASSUME NEW v \in Call \ {w} PROVE Shape(v)'
    BY <1>0, <1>4, <1>5 DEF ListsInv, ListOf, Shape
  <2>2. Shape(w)'
    BY <1>4, <1>5 DEF Shape
  <2> QED BY <2>1, <2>2
<1>10. \A o \in Call : HandedOn(o)
  BY <1>1, <1>3, <1>4, <1>7 DEF HandedOn
<1> QED BY <1>1, <1>6, <1>8, <1>9, <1>10, QuietStep

\* A call that leaves its place while all else stays, or tells one owner.
LEMMA LeaveStep ==
  ASSUME Inv, TypeOK', NEW w \in Call, NEW T, \A x \in T : Gone(x) /\ owner[x] # "none", Telling(T),
         UNCHANGED <<registry, key, evicted, remote, posted>>,
         \/ pc[w] \in {"joining", "awaitRemote"} /\ pc' = [pc EXCEPT ![w] = "raised"]
         \/ pc[w] = "waiting" /\ Gone(w) /\ pc' = [pc EXCEPT ![w] = "closing"]
  PROVE  Inv'
<1>0. TypeOK /\ OwnersInv /\ ListsInv
  BY DEF Inv
<1>1. SameRegistry /\ ListsShrink
  BY UnchangedRegistry DEF ListsShrink, Lists
<1>2. /\ \A v \in Call \ {w} : pc'[v] = pc[v]
      /\ \/ pc'[w] = "raised" /\ pc[w] \in {"joining", "awaitRemote"}
         \/ pc'[w] = "closing" /\ Gone(w) /\ pc[w] = "waiting"
  BY <1>0 DEF TypeOK
<1>3. \A o \in Call : /\ pc'[o] = pc[o] => SameOwner(o)
                      /\ owner[o] = "none" => ~Told(o)'
                      /\ (Told(o) => Told(o)') /\ (Running(o)' <=> Running(o))
                      /\ Told(o)' => Told(o) \/ o \in T
  BY TellKeeps
<1>4. OwnersInv'
  <2>1. ASSUME NEW o \in Call \ {w} PROVE OwnerOf(o)'
    BY <1>1, <1>2, <1>3, OwnerKept
  <2>2. OwnerOf(w)'
    <3>1. (Gone(w)' <=> Gone(w)) /\ (IsEntry(w)' <=> IsEntry(w)) /\ inflight'[key'[w]] = inflight[key[w]]
      BY <1>1, GoneStays
    <3>2. OwnerOf(w)
      BY <1>0 DEF OwnersInv
    <3>3. owner'[w] = owner[w] /\ ready'[w] = ready[w] /\ (Told(w)' => Told(w) \/ Gone(w))
      BY <1>3 DEF Telling
    <3> QED BY <1>2, <1>3, <3>1, <3>2, <3>3 DEF OwnerOf, Gone
  <2> QED BY <2>1, <2>2 DEF OwnersInv
<1>5. \A v \in Call : Shape(v)'
  BY <1>0, <1>2 DEF ListsInv, ListOf, Shape
<1>6. \A o \in Call : HandedOn(o)
  BY <1>3 DEF HandedOn, Lists, Telling
<1> QED BY <1>1, <1>4, <1>5, <1>6, QuietStep DEF Telling

\* A creator takes its owner along.
LEMMA UnwindStep ==
  ASSUME Inv, TypeOK', NEW w \in Call, pc[w] = "waiting", pc' = [pc EXCEPT ![w] = "unwinding"],
         closeEvt' = closeEvt \cup {w}, cancelReq' = cancelReq \cup {w},
         UNCHANGED <<registry, loop, key, evicted, remote, owner, ready, posted>>
  PROVE  Inv'
<1>0. TypeOK /\ OwnersInv /\ ListsInv
  BY DEF Inv
<1>1. SameRegistry /\ ListsShrink
  BY UnchangedRegistry DEF ListsShrink, Lists
<1>2. pc'[w] = "unwinding" /\ \A v \in Call \ {w} : pc'[v] = pc[v]
  BY <1>0 DEF TypeOK
<1>3. \A o \in Call : (Told(o)' <=> Told(o) \/ o = w) /\ (Running(o)' <=> Running(o))
  BY DEF Told, Running
<1>4. OwnersInv'
  <2>1. ASSUME NEW o \in Call \ {w} PROVE OwnerOf(o)'
    <3>1. SameOwner(o) /\ (owner[o] = "none" => ~Told(o)')
      BY <1>0, <1>2, <1>3 DEF SameOwner, OwnersInv, OwnerOf
    <3> QED BY <1>1, <3>1, OwnerKept
  <2>2. OwnerOf(w)'
    <3>1. (Gone(w)' <=> Gone(w)) /\ (IsEntry(w)' <=> IsEntry(w)) /\ inflight'[key'[w]] = inflight[key[w]]
      BY <1>1, GoneStays
    <3>2. OwnerOf(w)
      BY <1>0 DEF OwnersInv
    <3> QED BY <1>2, <1>3, <3>1, <3>2 DEF OwnerOf
  <2> QED BY <2>1, <2>2 DEF OwnersInv
<1>5. \A v \in Call : Shape(v)'
  BY <1>0, <1>2 DEF ListsInv, ListOf, Shape
<1>6. \A o \in Call : HandedOn(o)
  BY <1>3 DEF HandedOn, Lists
<1> QED BY <1>1, <1>4, <1>5, <1>6, QuietStep

LEMMA ReuseStep ==
  ASSUME Inv, TypeOK', NEW w \in Call, Reuse(w)
  PROVE  Inv'
<1>0. TypeOK /\ OwnersInv /\ ListsInv /\ RegistryInv
  BY DEF Inv
<1> DEFINE k == key[w]
<1>1. k \in Key /\ pc[w] = "idle" /\ pc' = [pc EXCEPT ![w] = "returned"]
      /\ UNCHANGED <<inflight, loop, key, evicted, join, remote, owner, ready, closeEvt, cancelReq, posted, upsets>>
  BY <1>0 DEF Reuse, Goto, TypeOK, owners
<1>2. PICK o \in Call : Entry(k) = <<o>> /\ entries' = Append(Without(k), o)
  BY DEF Reuse
<1> HIDE DEF k
<1>3. IsEntry(o) /\ key[o] = k
  BY <1>0, <1>1, <1>2, EntryIs DEF RegistryInv
<1>4. /\ Without(k) \in Seq(Call) /\ Distinct(Without(k))
      /\ Owners(Without(k)) = {x \in Owners(entries) : key[x] \in Key \ {k}}
  BY <1>0, Kept DEF Without, RegistryInv
<1>5. /\ Owners(entries') = Owners(Without(k)) \cup {o}
      /\ Distinct(entries')
  BY <1>2, <1>3, <1>4, OwnersAppend
<1>6. \A x \in Call : x \in Owners(entries) /\ key[x] = k => x = o
  <2> SUFFICES ASSUME NEW x \in Call, IsEntry(x), key[x] = k PROVE x = o
    BY IsEntryOwners
  <2>1. Entry(k) = <<x>>
    BY <1>0, <1>1, EntryIs DEF RegistryInv
  <2> QED BY <1>2, <2>1
<1>7. \A x \in Call : x \in Owners(entries') <=> x \in Owners(entries)
  <2>1. o \in Owners(entries)
    BY <1>3, IsEntryOwners
  <2>2. \A x \in Call : key[x] \in Key
    BY <1>0 DEF TypeOK
  <2> QED BY <1>4, <1>5, <1>6, <2>1, <2>2
<1>8. SameRegistry
  <2>1. \A x \in Call : IsEntry(x)' <=> IsEntry(x)
    BY <1>7 DEF IsEntry, Owners
  <2>2. Distinct(entries)'
    BY <1>1, <1>5 DEF Distinct
  <2> QED BY <1>1, <2>1, <2>2 DEF SameRegistry
<1>9. ListsShrink
  BY <1>1 DEF ListsShrink, Lists
<1>10. pc'[w] = "returned" /\ \A v \in Call \ {w} : pc'[v] = pc[v]
  BY <1>0, <1>1 DEF TypeOK
<1>11. \A x \in Call : (Told(x)' <=> Told(x)) /\ (Running(x)' <=> Running(x))
  BY <1>1 DEF Told, Running
<1>12. OwnersInv'
  <2>1. ASSUME NEW x \in Call \ {w} PROVE OwnerOf(x)'
    <3>1. SameOwner(x) /\ (owner[x] = "none" => ~Told(x)')
      BY <1>0, <1>1, <1>10, <1>11 DEF SameOwner, OwnersInv, OwnerOf
    <3> QED BY <1>8, <3>1, OwnerKept
  <2>2. OwnerOf(w)'
    <3>1. (Gone(w)' <=> Gone(w)) /\ (IsEntry(w)' <=> IsEntry(w)) /\ inflight'[key'[w]] = inflight[key[w]]
      BY <1>8, GoneStays
    <3>2. OwnerOf(w)
      BY <1>0 DEF OwnersInv
    <3> QED BY <1>1, <1>10, <1>11, <3>1, <3>2 DEF OwnerOf
  <2> QED BY <2>1, <2>2 DEF OwnersInv
<1>13. \A v \in Call : Shape(v)'
  BY <1>0, <1>1, <1>10 DEF ListsInv, ListOf, Shape
<1>14. \A x \in Call : HandedOn(x)
  BY <1>1, <1>11 DEF HandedOn, Lists
<1> QED BY <1>1, <1>8, <1>9, <1>12, <1>13, <1>14, QuietStep

-----------------------------------------------------------------------------
(* Steps that take owners out of the registry, or put one in. *)

\* What is gone stays gone.
GoneHolds == \A o \in Call : Gone(o) /\ owner[o] # "none" => Gone(o)' /\ owner'[o] # "none"

\* What a step that changes the registry has to show.
LEMMA RegistryStep ==
  ASSUME Inv, TypeOK', RegistryInv', OwnersInv', GoneHolds, \A w \in Call : Shape(w)',
         \A w \in Call : \A o \in Lists(w)' : o \in Lists(w) \/ (Gone(o)' /\ owner'[o] # "none"),
         \A x \in posted' : x \in posted \/ (Gone(x.o)' /\ owner'[x.o] # "none"),
         \A o \in Call : Looked(o)'
  PROVE  Inv'
<1>1. ListsInv'
  <2> SUFFICES ASSUME NEW w \in Call, NEW o \in Lists(w)' PROVE Gone(o)' /\ owner'[o] # "none"
    BY DEF ListsInv, ListOf
  <2>1. CASE o \in Lists(w)
    <3>1. o \in Call /\ Gone(o) /\ owner[o] # "none"
      BY <2>1, ListsType DEF Inv, ListsInv, ListOf
    <3> QED BY <3>1 DEF GoneHolds
  <2> QED BY <2>1
<1>2. PostedInv'
  <2> SUFFICES ASSUME NEW x \in posted' PROVE Gone(x.o)' /\ owner'[x.o] # "none"
    BY DEF PostedInv
  <2>1. CASE x \in posted
    <3>1. x.o \in Call /\ Gone(x.o) /\ owner[x.o] # "none"
      BY <2>1 DEF Inv, PostedInv, TypeOK, Item
    <3> QED BY <3>1 DEF GoneHolds
  <2> QED BY <2>1
<1>3. NoOrphanSession'
  BY DEF NoOrphanSession, Looked
<1> QED BY <1>1, <1>2, <1>3 DEF Inv

\* A creation is forgotten when its owner is told or ends by itself.
LEMMA GiveUpStep ==
  ASSUME Inv, TypeOK', NEW w \in Call, GiveUp(w), pc[w] \in {"closing", "unwinding", "waiting"},
         Told(w) \/ owner[w] \notin Live \ {"closing"},
         UNCHANGED <<entries, loop, key, evicted, remote, owner, ready, closeEvt, cancelReq, posted>>
  PROVE  Inv'
<1>0. TypeOK /\ OwnersInv /\ ListsInv /\ RegistryInv
  BY DEF Inv
<1>1. pc' = [pc EXCEPT ![w] = "raised"]
  BY DEF GiveUp, Goto
<1>2. pc'[w] = "raised" /\ \A v \in Call \ {w} : pc'[v] = pc[v]
  BY <1>0, <1>1 DEF TypeOK
<1>3. \A k \in Key : inflight'[k] = inflight[k] \/ (inflight'[k] = Nobody /\ inflight[k] = w)
  BY <1>0 DEF GiveUp, TypeOK
<1>4. \A o \in Call : key[o] \in Key /\ key'[o] = key[o] /\ o # Nobody
  BY <1>0, NobodyAssumption DEF TypeOK
<1>5. inflight'[key[w]] # w
  BY <1>0, <1>4 DEF GiveUp, TypeOK
<1>6. \A o \in Call : /\ IsEntry(o)' <=> IsEntry(o)
                      /\ Gone(o) => Gone(o)'
                      /\ o # w => (Gone(o)' <=> Gone(o)) /\ inflight'[key[o]] \in {inflight[key[o]], Nobody}
                                  /\ (inflight[key[o]] = o => inflight'[key[o]] = o)
  BY <1>3, <1>4 DEF IsEntry, Gone
<1>7. \A o \in Call : (Told(o)' <=> Told(o)) /\ (Running(o)' <=> Running(o))
  BY DEF Told, Running
<1>8. RegistryInv'
  <2>1. Distinct(entries)'
    BY <1>0 DEF RegistryInv, Distinct
  <2>2. \A o \in Call : IsEntry(o)' => inflight'[key'[o]] = Nobody
    BY <1>0, <1>3, <1>4, <1>6 DEF RegistryInv
  <2>3. \A k \in Key : inflight'[k] # Nobody => key'[inflight'[k]] = k
    BY <1>0, <1>3 DEF RegistryInv
  <2> QED BY <2>1, <2>2, <2>3 DEF RegistryInv
<1>9. OwnersInv'
  <2>1. ASSUME NEW o \in Call \ {w} PROVE OwnerOf(o)'
    <3>1. OwnerOf(o) /\ pc'[o] = pc[o] /\ owner'[o] = owner[o] /\ ready'[o] = ready[o]
      BY <1>0, <1>2 DEF OwnersInv
    <3>2. /\ IsEntry(o)' <=> IsEntry(o)
          /\ Gone(o)' <=> Gone(o)
          /\ inflight'[key'[o]] = o => inflight[key[o]] = o
      BY <1>4, <1>6
    <3> QED BY <1>7, <3>1, <3>2 DEF OwnerOf
  <2>2. OwnerOf(w)'
    <3>1. OwnerOf(w) /\ owner'[w] = owner[w] /\ ready'[w] = ready[w]
      BY <1>0 DEF OwnersInv
    <3>2. ~IsEntry(w)' /\ Gone(w)'
      BY <1>4, <1>5, <1>6, <3>1 DEF OwnerOf, Gone
    <3> QED BY <1>2, <1>7, <3>1, <3>2 DEF OwnerOf
  <2> QED BY <2>1, <2>2 DEF OwnersInv
<1>10. \A v \in Call : Shape(v)'
  BY <1>0, <1>2 DEF ListsInv, ListOf, Shape
<1>11. \A o \in Call : Looked(o)'
  <2> SUFFICES ASSUME NEW o \in Call, owner[o] \in Live \ {"closing"}, Running(o) PROVE Looked(o)'
    BY <1>7 DEF Looked
  <2>1. Known(o) \/ \E v \in Call : pc[v] # "returned" /\ o \in Lists(v)
    BY DEF Inv, NoOrphanSession
  <2>2. CASE o = w
    BY <1>7, <2>2 DEF Looked, Known
  <2>3. CASE o # w /\ Known(o)
    BY <1>4, <1>6, <1>7, <2>3 DEF Looked, Known
  <2>4. CASE \E v \in Call : pc[v] # "returned" /\ o \in Lists(v)
    BY <1>2, <2>4 DEF Looked, Lists
  <2> QED BY <2>1, <2>2, <2>3, <2>4
<1>12. GoneHolds
  BY <1>6 DEF GoneHolds
<1>13. \A v \in Call : Lists(v)' = Lists(v)
  BY DEF Lists
<1> QED BY <1>8, <1>9, <1>10, <1>11, <1>12, <1>13, RegistryStep

\* Phase 4.
LEMMA PromoteStep ==
  ASSUME Inv, TypeOK', NEW w \in Call, Promote(w)
  PROVE  Inv'
<1>0. TypeOK /\ OwnersInv /\ ListsInv /\ RegistryInv
  BY DEF Inv
<1>1. /\ pc[w] = "waiting" /\ ready[w] = "set"
      /\ UNCHANGED <<loop, key, evicted, remote, owner, ready, cancelReq, posted>>
  BY DEF Promote
<1>2. OwnerOf(w) /\ ~IsEntry(w) /\ owner[w] # "none"
  BY <1>0, <1>1 DEF OwnersInv, OwnerOf
<1>3. CASE ~StillOurs(w)
  <2>1. Gone(w)
    BY <1>2, <1>3 DEF StillOurs, Gone
  <2>2. closeEvt' = closeEvt \cup {w} /\ UNCHANGED registry /\ pc' = [pc EXCEPT ![w] = "closing"]
    BY <1>3 DEF Promote, Goto
  <2>3. Telling({w})
    BY <1>1, <2>2 DEF Telling
  <2>4. UNCHANGED <<registry, key, evicted, remote, posted>>
    BY <1>1, <2>2
  <2> DEFINE T == {w}
  <2>5. Telling(T) /\ \A x \in T : Gone(x) /\ owner[x] # "none"
    BY <1>2, <2>1, <2>3
  <2> HIDE DEF T
  <2> QED BY <1>1, <2>1, <2>2, <2>4, <2>5, LeaveStep
<1>4. CASE StillOurs(w)
  <2>1. /\ inflight[key[w]] = w /\ inflight' = [inflight EXCEPT ![key[w]] = Nobody]
        /\ entries' = Append(entries, w) /\ pc' = [pc EXCEPT ![w] = "returned"] /\ closeEvt' = closeEvt
    BY <1>4 DEF Promote, StillOurs, Goto
  <2>2. pc'[w] = "returned" /\ \A v \in Call \ {w} : pc'[v] = pc[v]
    BY <1>0, <2>1 DEF TypeOK
  <2>3. \A o \in Call : key[o] \in Key /\ key'[o] = key[o] /\ o # Nobody
    BY <1>0, <1>1, NobodyAssumption DEF TypeOK
  <2>4. inflight'[key[w]] = Nobody /\ \A k \in Key \ {key[w]} : inflight'[k] = inflight[k]
    BY <1>0, <2>1, <2>3 DEF TypeOK
  <2>5. Owners(entries') = Owners(entries) \cup {w} /\ Distinct(entries')
    <3>1. entries \in Seq(Call) /\ Distinct(entries)
      BY <1>0 DEF TypeOK, RegistryInv
    <3>2. \A o \in Owners(entries) : o \in Call /\ IsEntry(o)
      BY <3>1 DEF Owners, IsEntry
    <3>3. \A o \in Owners(entries) : key[o] # key[w]
      BY <1>0, <2>1, <2>3, <3>2 DEF RegistryInv
    <3> QED BY <2>1, <3>1, <3>3, OwnersAppend
  <2>6. \A o \in Call : IsEntry(o)' <=> IsEntry(o) \/ o = w
    <3>1. \A o \in Call : IsEntry(o)' <=> o \in Owners(entries')
      BY DEF IsEntry, Owners
    <3> QED BY <2>5, <3>1, IsEntryOwners
  <2>7. \A o \in Call \ {w} : /\ Gone(o)' <=> Gone(o)
                              /\ inflight'[key[o]] = o <=> inflight[key[o]] = o
    BY <2>1, <2>3, <2>4, <2>6 DEF Gone
  <2>8. \A o \in Call : (Told(o)' <=> Told(o)) /\ (Running(o)' <=> Running(o))
    BY <1>1, <2>1 DEF Told, Running
  <2>9. RegistryInv'
    <3>1. Distinct(entries)'
      BY <1>1, <2>5 DEF Distinct
    <3>2. \A o \in Call : IsEntry(o)' => inflight'[key'[o]] = Nobody
      BY <1>0, <2>3, <2>4, <2>6 DEF RegistryInv
    <3>3. \A k \in Key : inflight'[k] # Nobody => key'[inflight'[k]] = k
      BY <1>0, <1>1, <2>4 DEF RegistryInv
    <3> QED BY <3>1, <3>2, <3>3 DEF RegistryInv
  <2>10. OwnersInv'
    <3>1. ASSUME NEW o \in Call \ {w} PROVE OwnerOf(o)'
      <4>1. OwnerOf(o) /\ pc'[o] = pc[o] /\ owner'[o] = owner[o] /\ ready'[o] = ready[o]
        BY <1>0, <1>1, <2>2 DEF OwnersInv
      <4>2. /\ IsEntry(o)' <=> IsEntry(o)
            /\ Gone(o)' <=> Gone(o)
            /\ inflight'[key'[o]] = o => inflight[key[o]] = o
        BY <2>3, <2>6, <2>7
      <4> QED BY <2>8, <4>1, <4>2 DEF OwnerOf
    <3>2. OwnerOf(w)'
      <4>1. ~Gone(w) /\ owner'[w] = owner[w] /\ ready'[w] = ready[w]
        BY <1>1, <2>1 DEF Gone
      <4>2. Running(w) => ~Told(w) /\ owner[w] = "open"
        BY <1>1, <1>2, <4>1 DEF OwnerOf
      <4> QED BY <1>1, <1>2, <2>2, <2>8, <4>1, <4>2 DEF OwnerOf
    <3> QED BY <3>1, <3>2 DEF OwnersInv
  <2>11. \A v \in Call : Shape(v)'
    BY <1>0, <1>1, <2>2 DEF ListsInv, ListOf, Shape
  <2>12. \A v \in Call : Lists(v)' = Lists(v)
    BY <1>1 DEF Lists
  <2>13. Lists(w) = {}
    <3>1. evicted[w] = <<>>
      BY <1>0, <1>1 DEF ListsInv, ListOf, Shape
    <3> QED BY <3>1 DEF Lists
  <2>14. \A o \in Call : Looked(o)'
    <3> SUFFICES ASSUME NEW o \in Call, owner[o] \in Live \ {"closing"}, Running(o) PROVE Looked(o)'
      BY <1>1, <2>8 DEF Looked
    <3>1. Known(o) \/ \E v \in Call : pc[v] # "returned" /\ o \in Lists(v)
      BY DEF Inv, NoOrphanSession
    <3>2. CASE o = w
      BY <2>6, <3>2 DEF Looked, Known
    <3>3. CASE o # w /\ Known(o)
      BY <1>1, <2>3, <2>6, <2>7, <2>8, <3>3 DEF Looked, Known
    <3>4. CASE \E v \in Call : pc[v] # "returned" /\ o \in Lists(v)
      BY <2>2, <2>12, <2>13, <3>4 DEF Looked
    <3> QED BY <3>1, <3>2, <3>3, <3>4
  <2>15. GoneHolds
    <3>1. ~Gone(w)
      BY <2>1 DEF Gone
    <3> QED BY <1>1, <2>7, <3>1 DEF GoneHolds
  <2> QED BY <1>1, <2>9, <2>10, <2>11, <2>12, <2>14, <2>15, RegistryStep
<1> QED BY <1>3, <1>4

\* Owners of the keys ks leave the registry.
LEMMA PopAllIs ==
  ASSUME Inv, NEW ks \in SUBSET Key, PopAll(ks), UNCHANGED key
  PROVE  /\ RegistryInv'
         /\ \A o \in Call : /\ IsEntry(o)' <=> IsEntry(o) /\ key[o] \notin ks
                            /\ inflight'[key[o]] = o <=> inflight[key[o]] = o /\ key[o] \notin ks
                            /\ Gone(o)' <=> Gone(o) \/ key[o] \in ks
                            /\ o \in Owners(Registered(ks)) <=> ~Gone(o) /\ key[o] \in ks
<1>0. TypeOK /\ RegistryInv
  BY DEF Inv
<1>1. /\ entries' = EntriesOf(Key \ ks)
      /\ inflight' = [k \in Key |-> IF k \in ks THEN Nobody ELSE inflight[k]]
  BY DEF PopAll
<1>2. \A o \in Call : key[o] \in Key /\ o # Nobody
  BY <1>0, NobodyAssumption DEF TypeOK
<1>3. /\ Owners(entries') = {o \in Owners(entries) : key[o] \in Key \ ks}
      /\ Distinct(entries')
  BY <1>0, <1>1, Kept DEF RegistryInv
<1>4. \A o \in Call : IsEntry(o)' <=> IsEntry(o) /\ key[o] \notin ks
  <2>1. \A o \in Call : IsEntry(o)' <=> o \in Owners(entries')
    BY DEF IsEntry, Owners
  <2> QED BY <1>2, <1>3, <2>1, IsEntryOwners
<1>5. \A o \in Call : inflight'[key[o]] = o <=> inflight[key[o]] = o /\ key[o] \notin ks
  BY <1>1, <1>2
<1>6. \A o \in Call : Gone(o)' <=> Gone(o) \/ key[o] \in ks
  BY <1>4, <1>5 DEF Gone
<1>7. \A o \in Call : o \in Owners(Registered(ks)) <=> ~Gone(o) /\ key[o] \in ks
  <2>1. Owners(Registered(ks)) = {o \in Owners(entries) : key[o] \in ks} \cup Creations(ks)
    BY <1>0, RegisteredIs
  <2>2. \A o \in Call : o \in Creations(ks) <=> inflight[key[o]] = o /\ key[o] \in ks
    <3>1. \A o \in Call, k \in ks : inflight[k] = o => key[o] = k
      BY <1>0, <1>2 DEF RegistryInv
    <3> QED BY <1>2, <3>1 DEF Creations
  <2> QED BY <2>1, <2>2, IsEntryOwners DEF Gone
<1>8. RegistryInv'
  <2>1. Distinct(entries)'
    BY <1>3 DEF Distinct
  <2>2. \A o \in Call : IsEntry(o)' => inflight'[key'[o]] = Nobody
    BY <1>0, <1>1, <1>2, <1>4 DEF RegistryInv
  <2>3. \A k \in Key : inflight'[k] # Nobody => key'[inflight'[k]] = k
    BY <1>0, <1>1 DEF RegistryInv
  <2> QED BY <2>1, <2>2, <2>3 DEF RegistryInv
<1> QED BY <1>4, <1>5, <1>6, <1>7, <1>8

\* close_scope, close_server and close_all.
LEMMA CloseStep ==
  ASSUME Inv, TypeOK', NEW w \in Call, NEW ks \in SUBSET Key, Close(w, ks)
  PROVE  Inv'
<1>0. TypeOK /\ OwnersInv /\ ListsInv
  BY DEF Inv
<1> DEFINE s == Registered(ks)
           list == [i \in DOMAIN s |-> LET o == s[i] IN [o |-> o, cancel |-> Cancelled(o), wait |-> TRUE]]
<1>1. /\ PopAll(ks) /\ pc[w] = "idle" /\ s # <<>>
      /\ evicted' = [evicted EXCEPT ![w] = list] /\ pc' = [pc EXCEPT ![w] = "evicting"]
      /\ UNCHANGED <<loop, key, remote, owner, ready, closeEvt, cancelReq, posted>>
  BY DEF Close, Goto, owners
<1>2. s \in Seq(Call)
  BY <1>0, RegisteredIs
<1> HIDE DEF s
<1>3. Of(list) = Owners(s) /\ list # <<>>
  <2>1. Of(list) = Owners(s)
    BY DEF Of, Owners
  <2>2. DOMAIN s # {}
    <3>1. Len(s) \in Nat /\ Len(s) # 0 /\ DOMAIN s = 1..Len(s)
      BY <1>1, <1>2
    <3>2. 1 \in 1..Len(s)
      BY <3>1
    <3> QED BY <3>1, <3>2
  <2>3. DOMAIN list = DOMAIN s
    OBVIOUS
  <2> QED BY <2>1, <2>2, <2>3
<1>4. evicted'[w] = list /\ pc'[w] = "evicting"
      /\ \A v \in Call \ {w} : evicted'[v] = evicted[v] /\ pc'[v] = pc[v]
  BY <1>0, <1>1 DEF TypeOK
<1> HIDE DEF list
<1>5. Lists(w)' = Owners(s) /\ \A v \in Call \ {w} : Lists(v)' = Lists(v)
  BY <1>3, <1>4 DEF Lists, Of
<1>6. evicted[w] = <<>> /\ remote[w] = "none"
  BY <1>0, <1>1 DEF ListsInv, ListOf, Shape
<1>7. RegistryInv'
  BY <1>1, PopAllIs
<1>8. \A o \in Call : /\ IsEntry(o)' <=> IsEntry(o) /\ key[o] \notin ks
                      /\ inflight'[key[o]] = o <=> inflight[key[o]] = o /\ key[o] \notin ks
                      /\ Gone(o)' <=> Gone(o) \/ key[o] \in ks
                      /\ o \in Owners(s) <=> ~Gone(o) /\ key[o] \in ks
  BY <1>1, PopAllIs DEF s
<1>9. \A o \in Call : (Told(o)' <=> Told(o)) /\ (Running(o)' <=> Running(o))
  BY <1>1 DEF Told, Running
<1>10. OwnersInv'
  <2>1. ASSUME NEW o \in Call PROVE OwnerOf(o)'
    <3>1. OwnerOf(o) /\ owner'[o] = owner[o] /\ ready'[o] = ready[o] /\ key'[o] = key[o]
      BY <1>0, <1>1 DEF OwnersInv
    <3>3. pc'[o] = pc[o] \/ (pc'[o] = "evicting" /\ pc[o] = "idle")
      BY <1>1, <1>4
    <3>2. /\ IsEntry(o)' => IsEntry(o)
          /\ Gone(o) => Gone(o)'
          /\ inflight'[key'[o]] = o => inflight[key[o]] = o
      BY <1>8, <3>1
    <3> QED BY <1>9, <3>1, <3>2, <3>3 DEF OwnerOf
  <2> QED BY <2>1 DEF OwnersInv
<1>11. \A v \in Call : Shape(v)'
  <2>1. ASSUME NEW v \in Call \ {w} PROVE Shape(v)'
    BY <1>0, <1>1, <1>4 DEF ListsInv, ListOf, Shape
  <2>2. Shape(w)'
    BY <1>1, <1>3, <1>4, <1>6 DEF Shape
  <2> QED BY <2>1, <2>2
<1>12. \A o \in Call : ~Gone(o) => owner[o] # "none"
  BY <1>0 DEF OwnersInv, OwnerOf
<1>13. \A o \in Lists(w)' : Gone(o)' /\ owner'[o] # "none"
  <2>1. Owners(s) \subseteq Call
    BY <1>2 DEF Owners
  <2> QED BY <1>1, <1>5, <1>8, <1>12, <2>1
<1>14. \A o \in Call : Looked(o)'
  <2> SUFFICES ASSUME NEW o \in Call, owner[o] \in Live \ {"closing"}, Running(o) PROVE Looked(o)'
    BY <1>1, <1>9 DEF Looked
  <2>1. Known(o) \/ \E v \in Call : pc[v] # "returned" /\ o \in Lists(v)
    BY DEF Inv, NoOrphanSession
  <2>2. CASE Known(o)
    <3>1. CASE ~Gone(o) /\ key[o] \in ks
      BY <1>4, <1>5, <1>8, <3>1 DEF Looked
    <3>2. CASE Gone(o) \/ key[o] \notin ks
      BY <1>1, <1>8, <1>9, <2>2, <3>2 DEF Looked, Known, Gone
    <3> QED BY <3>1, <3>2
  <2>3. CASE \E v \in Call : pc[v] # "returned" /\ o \in Lists(v)
    <3>1. PICK v \in Call : pc[v] # "returned" /\ o \in Lists(v)
      BY <2>3
    <3>2. v # w
      BY <1>6, <3>1 DEF Lists
    <3> QED BY <1>4, <1>5, <3>1, <3>2 DEF Looked
  <2> QED BY <2>1, <2>2, <2>3
<1>15. GoneHolds
  BY <1>1, <1>8 DEF GoneHolds
<1>16. \A v \in Call : \A o \in Lists(v)' : o \in Lists(v) \/ (Gone(o)' /\ owner'[o] # "none")
  BY <1>5, <1>13
<1>17. \A x \in posted' : x \in posted
  BY <1>1
<1> QED BY <1>7, <1>10, <1>11, <1>14, <1>15, <1>16, <1>17, RegistryStep

\* close_all_sync.
LEMMA CloseAllSyncStep ==
  ASSUME Inv, TypeOK', NEW onGateway \in BOOLEAN, CloseAllSync(onGateway)
  PROVE  Inv'
<1>0. TypeOK /\ OwnersInv /\ ListsInv
  BY DEF Inv
<1> DEFINE all == Owners(Registered(Key))
           here == IF onGateway THEN all \ OwnLoop ELSE {}
           there == {[o |-> o, cancel |-> Cancelled(o), wait |-> FALSE] : o \in {x \in all \ here : loop[x] # "closed"}}
<1>1. /\ PopAll(Key)
      /\ closeEvt' = closeEvt \cup here
      /\ cancelReq' = cancelReq \cup {o \in here : Cancelled(o)}
      /\ posted' = posted \cup there
      /\ UNCHANGED <<loop, pc, key, evicted, remote, owner, ready>>
  BY DEF CloseAllSync, Owners, calls
<1>2. all \subseteq Call /\ here \subseteq all
  <2>1. Registered(Key) \in Seq(Call)
    BY <1>0, RegisteredIs
  <2> QED BY <2>1 DEF Owners
<1> HIDE DEF all, here
<1>3. RegistryInv'
  BY <1>1, PopAllIs
<1>4. \A o \in Call : key[o] \in Key
  BY <1>0 DEF TypeOK
<1>5. \A o \in Call : /\ ~IsEntry(o)' /\ Gone(o)' /\ inflight'[key'[o]] # o
                      /\ o \in all <=> ~Gone(o)
  BY <1>1, <1>4, PopAllIs DEF all
<1>6. \A o \in Call : /\ Told(o)' <=> Told(o) \/ o \in here
                      /\ Running(o)' <=> Running(o)
  BY <1>1 DEF Told, Running
<1>7. \A o \in Call : ~Gone(o) => owner[o] # "none"
  BY <1>0 DEF OwnersInv, OwnerOf
<1>8. OwnersInv'
  <2>1. ASSUME NEW o \in Call PROVE OwnerOf(o)'
    <3>1. OwnerOf(o) /\ owner'[o] = owner[o] /\ ready'[o] = ready[o] /\ pc'[o] = pc[o]
      BY <1>0, <1>1 DEF OwnersInv
    <3>2. o \in here => owner[o] # "none"
      BY <1>2, <1>5, <1>7
    <3> QED BY <1>5, <1>6, <3>1, <3>2 DEF OwnerOf
  <2> QED BY <2>1 DEF OwnersInv
<1>9. \A v \in Call : Shape(v)' /\ Lists(v)' = Lists(v)
  BY <1>0, <1>1 DEF ListsInv, ListOf, Shape, Lists
<1>10. \A x \in posted' : x \in posted \/ (Gone(x.o)' /\ owner'[x.o] # "none")
  BY <1>1, <1>2, <1>5, <1>7
<1>11. \A o \in Call : Looked(o)'
  <2> SUFFICES ASSUME NEW o \in Call, owner[o] \in Live \ {"closing"}, Running(o) PROVE Looked(o)'
    BY <1>1, <1>6 DEF Looked
  <2>1. Known(o) \/ \E v \in Call : pc[v] # "returned" /\ o \in Lists(v)
    BY DEF Inv, NoOrphanSession
  <2>2. CASE o \in here
    BY <1>6, <2>2 DEF Looked, Known
  <2>3. CASE o \in all \ here
    <3>1. loop[o] # "closed"
      BY DEF Running
    <3>2. [o |-> o, cancel |-> Cancelled(o), wait |-> FALSE] \in there
      BY <2>3, <3>1
    <3>3. \E x \in there : x.o = o
      BY <3>2
    <3> QED BY <1>1, <3>3 DEF Looked, Known
  <2>4. CASE o \notin all
    <3>1. Gone(o)
      BY <1>5, <2>4
    <3> QED BY <1>1, <1>6, <1>9, <2>1, <3>1 DEF Looked, Known, Gone
  <2> QED BY <2>2, <2>3, <2>4
<1>12. GoneHolds
  BY <1>1, <1>5 DEF GoneHolds
<1> QED BY <1>3, <1>8, <1>9, <1>10, <1>11, <1>12, RegistryStep

\* get_session's phase 1: what it evicts leaves the registry, and its own
\* creation enters it unless it joins one.
LEMMA EnterStep ==
  ASSUME Inv, TypeOK', NEW w \in Call, Enter(w)
  PROVE  Inv'
<1>0. TypeOK /\ OwnersInv /\ ListsInv /\ RegistryInv
  BY DEF Inv
<1> DEFINE k == key[w]
           rest == Without(k)
           n == Surplus(rest)
           a == SubSeq(rest, 1, n)
           b == SubSeq(rest, n + 1, Len(rest))
           stale == inflight[k] # Nobody /\ ~SameLoop(w, inflight[k])
           last == IF stale THEN <<StaleCreation(inflight[k])>> ELSE <<>>
           list == Evictions(Entry(k)) \o last \o Evictions(a)
           Creates == inflight' = [inflight EXCEPT ![k] = w] /\ owner' = [owner EXCEPT ![w] = "created"]
           Joins == inflight[k] # Nobody /\ UNCHANGED <<inflight, owner>>
<1>1. /\ pc[w] = "idle" /\ entries' = b /\ evicted' = [evicted EXCEPT ![w] = list]
      /\ UNCHANGED <<loop, key, remote, ready, closeEvt, cancelReq, posted>>
  BY DEF Enter
<1>2. /\ evicted'[w] = list
      /\ \A v \in Call \ {w} : evicted'[v] = evicted[v] /\ Lists(v)' = Lists(v)
  <2> HIDE DEF list
  <2> QED BY <1>0, <1>1 DEF TypeOK, Lists
<1>3. /\ \A v \in Call \ {w} : pc'[v] = pc[v]
      /\ list # <<>> => pc'[w] = "evicting"
      /\ list = <<>> => pc'[w] \in {"joining", "waiting"}
      /\ Joinable(w) => pc'[w] # "waiting"
  <2>1. pc' = [pc EXCEPT ![w] = IF evicted'[w] # <<>> THEN "evicting" ELSE IF Joinable(w) THEN "joining" ELSE "waiting"]
    BY DEF Enter, Goto
  <2>2. pc'[w] = (IF evicted'[w] # <<>> THEN "evicting" ELSE IF Joinable(w) THEN "joining" ELSE "waiting")
        /\ \A v \in Call \ {w} : pc'[v] = pc[v]
    BY <1>0, <2>1 DEF TypeOK
  <2> HIDE DEF list
  <2> QED BY <1>2, <2>2
<1>4. (~Joinable(w) /\ Creates) \/ (Joinable(w) /\ Joins /\ ~stale)
  BY DEF Enter, Joinable
<1>5. rest \in Seq(Call) /\ Distinct(rest) /\ Entry(k) \in Seq(Call)
      /\ Owners(rest) = {x \in Owners(entries) : key[x] \in Key \ {k}}
      /\ Owners(Entry(k)) = {x \in Owners(entries) : key[x] \in {k}}
  BY <1>0, Kept DEF Without, Entry, RegistryInv
<1> HIDE DEF rest
<1>6. n \in 0..Len(rest)
  BY <1>5, SessionAssumption DEF Surplus
<1> HIDE DEF n
<1>7. /\ a \in Seq(Call) /\ b \in Seq(Call) /\ Distinct(b)
      /\ Owners(rest) = Owners(a) \cup Owners(b) /\ Owners(a) \cap Owners(b) = {}
  BY <1>5, <1>6, OwnersSplit
<1> HIDE DEF a, b
<1>8. last \in Seq(Item) /\ Of(last) = IF stale THEN {inflight[k]} ELSE {}
  <2>1. inflight[k] \in Call \cup {Nobody}
    BY <1>0 DEF TypeOK
  <2>2. CASE stale
    <3>1. StaleCreation(inflight[k]) \in Item /\ StaleCreation(inflight[k]).o = inflight[k]
      BY <2>1, <2>2 DEF StaleCreation, Item
    <3>2. last = <<StaleCreation(inflight[k])>>
      BY <2>2
    <3> HIDE DEF last
    <3>3. last \in Seq(Item) /\ DOMAIN last = {1} /\ last[1] = StaleCreation(inflight[k])
      BY <3>1, <3>2
    <3> QED BY <2>2, <3>1, <3>3 DEF Of
  <2>3. CASE ~stale
    BY <2>3 DEF Of
  <2> QED BY <2>2, <2>3
<1> HIDE DEF last
<1>9. Of(list) = Owners(Entry(k)) \cup Of(last) \cup Owners(a)
  <2>1. /\ Evictions(Entry(k)) \in Seq(Item) /\ Of(Evictions(Entry(k))) = Owners(Entry(k))
        /\ Evictions(a) \in Seq(Item) /\ Of(Evictions(a)) = Owners(a)
    BY <1>5, <1>7, OfEvictions
  <2>2. /\ Evictions(Entry(k)) \o last \in Seq(Item)
        /\ Of(Evictions(Entry(k)) \o last) = Owners(Entry(k)) \cup Of(last)
    BY <1>8, <2>1, OfConcat
  <2> QED BY <2>1, <2>2, OfConcat
<1> HIDE DEF list
<1>10. Lists(w)' = Owners(Entry(k)) \cup (IF stale THEN {inflight[k]} ELSE {}) \cup Owners(a)
  BY <1>2, <1>8, <1>9 DEF Lists, Of
<1>11. k \in Key /\ \A o \in Call : key[o] \in Key /\ key'[o] = key[o] /\ o # Nobody
  BY <1>0, <1>1, NobodyAssumption DEF TypeOK
<1>12. evicted[w] = <<>> /\ remote[w] = "none" /\ OwnerOf(w) /\ owner[w] = "none" /\ Gone(w) /\ ~Told(w)
  BY <1>0, <1>1 DEF ListsInv, ListOf, Shape, OwnersInv, OwnerOf
<1>13. \A o \in Call : /\ IsEntry(o)' <=> o \in Owners(b)
                       /\ IsEntry(o)' => IsEntry(o) /\ key[o] # k
                       /\ IsEntry(o) => IsEntry(o)' \/ o \in Lists(w)'
  <2>1. \A o \in Call : IsEntry(o)' <=> o \in Owners(b)
    BY <1>1 DEF IsEntry, Owners
  <2> QED BY <1>5, <1>7, <1>10, <1>11, <2>1, IsEntryOwners
<1>14. /\ \A l \in Key \ {k} : inflight'[l] = inflight[l]
       /\ inflight'[k] = w \/ (inflight'[k] = inflight[k] /\ ~stale /\ inflight[k] # Nobody /\ Joinable(w))
       /\ \A o \in Call \ {w} : owner'[o] = owner[o]
       /\ \/ owner'[w] = "created" /\ inflight'[k] = w /\ ~Joinable(w)
          \/ owner'[w] = "none" /\ inflight'[k] = inflight[k] /\ Joinable(w)
  BY <1>0, <1>4, <1>11, <1>12 DEF TypeOK
<1>15. \A o \in Call : ~Gone(o) => owner[o] # "none" /\ o # w
  BY <1>0, <1>12 DEF OwnersInv, OwnerOf
<1>16. \A o \in Call : /\ inflight'[key[o]] = o => o = w \/ inflight[key[o]] = o
                       /\ Gone(o) /\ o # w => Gone(o)'
                       /\ inflight[key[o]] = o => inflight'[key[o]] = o \/ o \in Lists(w)'
  <2>1. \A o \in Call : inflight'[key[o]] = o => o = w \/ inflight[key[o]] = o
    BY <1>11, <1>14
  <2>2. \A o \in Call : Gone(o) /\ o # w => Gone(o)'
    BY <1>11, <1>13, <2>1 DEF Gone
  <2>3. ASSUME NEW o \in Call, inflight[key[o]] = o PROVE inflight'[key[o]] = o \/ o \in Lists(w)'
    <3>1. CASE key[o] # k
      BY <1>11, <1>14, <2>3, <3>1
    <3>2. CASE key[o] = k
      <4>1. inflight[k] = o /\ inflight[k] # Nobody
        BY <1>11, <2>3, <3>2
      <4>2. Joinable(w) \/ stale
        BY <4>1 DEF Joinable
      <4> QED BY <1>10, <1>14, <2>3, <3>2, <4>1, <4>2
    <3> QED BY <3>1, <3>2
  <2> QED BY <2>1, <2>2, <2>3
<1>17. \A o \in Lists(w)' : o \in Call /\ Gone(o)' /\ owner'[o] # "none"
  <2> SUFFICES ASSUME NEW o \in Lists(w)' PROVE o \in Call /\ Gone(o)' /\ owner'[o] # "none"
    OBVIOUS
  <2>1. CASE o \in Owners(Entry(k)) \cup Owners(a)
    <3>1. o \in Call /\ IsEntry(o)
      <4>1. o \in Owners(entries)
        BY <1>5, <1>7, <2>1
      <4>2. Owners(entries) \subseteq Call
        BY <1>0 DEF Owners, TypeOK
      <4> QED BY <4>1, <4>2, IsEntryOwners
    <3>2. inflight[key[o]] = Nobody
      BY <1>0, <3>1 DEF RegistryInv
    <3>3. o # w /\ owner[o] # "none"
      BY <1>15, <3>1 DEF Gone
    <3>4. inflight'[key[o]] # o
      BY <1>11, <1>16, <3>1, <3>2, <3>3
    <3>5. ~IsEntry(o)'
      BY <1>5, <1>7, <1>13, <2>1, <3>1
    <3> QED BY <1>11, <1>14, <3>1, <3>3, <3>4, <3>5 DEF Gone
  <2>2. CASE stale /\ o = inflight[k]
    <3>1. o \in Call /\ key[o] = k
      BY <1>0, <1>11, <2>2 DEF TypeOK, RegistryInv
    <3>2. ~Gone(o) /\ o # w /\ owner[o] # "none"
      BY <1>15, <2>2, <3>1 DEF Gone
    <3>3. ~IsEntry(o)'
      BY <1>13, <3>1
    <3>4. inflight'[key[o]] # o
      BY <1>14, <2>2, <3>1, <3>2
    <3> QED BY <1>11, <1>14, <3>1, <3>2, <3>3, <3>4 DEF Gone
  <2> QED BY <1>10, <2>1, <2>2
<1>18. \A o \in Call : (Told(o)' <=> Told(o)) /\ (Running(o)' <=> Running(o))
  BY <1>1 DEF Told, Running
<1>19. RegistryInv'
  <2>1. Distinct(entries)'
    BY <1>1, <1>7 DEF Distinct
  <2>2. \A o \in Call : IsEntry(o)' => inflight'[key'[o]] = Nobody
    BY <1>0, <1>11, <1>13, <1>14 DEF RegistryInv
  <2>3. \A l \in Key : inflight'[l] # Nobody => key'[inflight'[l]] = l
    BY <1>0, <1>1, <1>14 DEF RegistryInv
  <2> QED BY <2>1, <2>2, <2>3 DEF RegistryInv
<1>20. OwnersInv'
  <2>1. ASSUME NEW o \in Call \ {w} PROVE OwnerOf(o)'
    <3>1. OwnerOf(o) /\ owner'[o] = owner[o] /\ ready'[o] = ready[o] /\ key'[o] = key[o] /\ pc'[o] = pc[o]
      BY <1>0, <1>1, <1>3, <1>14 DEF OwnersInv
    <3>2. /\ IsEntry(o)' => IsEntry(o)
          /\ Gone(o) => Gone(o)'
          /\ inflight'[key'[o]] = o => inflight[key[o]] = o
      BY <1>13, <1>16, <3>1
    <3> QED BY <1>18, <3>1, <3>2 DEF OwnerOf
  <2>2. OwnerOf(w)'
    <3>1. ready[w] = "pending" /\ ready'[w] = ready[w]
      BY <1>0, <1>1, <1>12 DEF TypeOK, OwnerOf
    <3>2. ~IsEntry(w)' /\ ~Told(w)'
      BY <1>12, <1>13, <1>18 DEF Gone
    <3>3. pc'[w] \in {"evicting", "joining", "waiting"}
      BY <1>3
    <3>4. owner'[w] = "none" => Gone(w)' /\ pc'[w] # "waiting"
      BY <1>3, <1>11, <1>12, <1>14, <3>2 DEF Gone
    <3> QED BY <3>1, <3>2, <3>3, <3>4 DEF OwnerOf
  <2> QED BY <2>1, <2>2 DEF OwnersInv
<1>21. \A v \in Call : Shape(v)'
  <2>1. ASSUME NEW v \in Call \ {w} PROVE Shape(v)'
    BY <1>0, <1>1, <1>2, <1>3 DEF ListsInv, ListOf, Shape
  <2>2. Shape(w)'
    BY <1>1, <1>2, <1>3, <1>12 DEF Shape
  <2> QED BY <2>1, <2>2
<1>22. \A o \in Call : Looked(o)'
  <2> SUFFICES ASSUME NEW o \in Call, owner'[o] \in Live \ {"closing"}, Running(o)' PROVE Looked(o)'
    BY DEF Looked
  <2>1. CASE o = w
    <3>1. inflight'[key'[w]] = w
      BY <1>11, <1>14, <2>1 DEF Live
    <3> QED BY <2>1, <3>1 DEF Looked, Known
  <2>2. CASE o # w
    <3>1. owner[o] = owner'[o] /\ Running(o)
      BY <1>14, <1>18, <2>2
    <3>2. Known(o) \/ \E v \in Call : pc[v] # "returned" /\ o \in Lists(v)
      BY <3>1 DEF Inv, NoOrphanSession
    <3>3. CASE o \in Lists(w)'
      <4>1. list # <<>>
        BY <1>2, <3>3 DEF Lists
      <4> QED BY <1>3, <3>3, <4>1 DEF Looked
    <3>4. CASE Known(o) /\ o \notin Lists(w)'
      BY <1>1, <1>11, <1>13, <1>16, <1>18, <3>4 DEF Looked, Known
    <3>5. CASE \E v \in Call : pc[v] # "returned" /\ o \in Lists(v)
      <4>1. PICK v \in Call : pc[v] # "returned" /\ o \in Lists(v)
        BY <3>5
      <4>2. v # w
        BY <1>12, <4>1 DEF Lists
      <4> QED BY <1>2, <1>3, <4>1, <4>2 DEF Looked
    <3> QED BY <3>2, <3>3, <3>4, <3>5
  <2> QED BY <2>1, <2>2
<1>23. GoneHolds
  BY <1>12, <1>14, <1>16 DEF GoneHolds
<1> QED BY <1>1, <1>2, <1>17, <1>19, <1>20, <1>21, <1>22, <1>23, RegistryStep

\* A call is cancelled.
LEMMA CancelStep ==
  ASSUME Inv, TypeOK', NEW w \in Call, Cancel(w)
  PROVE  Inv'
<1>0. TypeOK /\ OwnersInv /\ ListsInv
  BY DEF Inv
<1>1. UNCHANGED <<entries, loop, key, evicted, join, remote, owner, ready, posted>>
  BY DEF Cancel
<1>2. pc[w] \in {"awaitOwner", "awaitRemote"} =>
        First(w).o \in Call /\ Gone(First(w).o) /\ owner[First(w).o] # "none"
  <2>1. pc[w] \in {"awaitOwner", "awaitRemote"} => evicted[w] # <<>>
    BY <1>0 DEF ListsInv, ListOf, Shape
  <2> QED BY <1>0, <2>1, ListHead DEF ListsInv, ListOf
<1>3. OwnerOf(w)
  BY <1>0 DEF OwnersInv
<1>4. CASE /\ pc[w] = "waiting" /\ closeEvt' = closeEvt \cup {w} /\ cancelReq' = cancelReq \cup {w}
           /\ pc' = [pc EXCEPT ![w] = "unwinding"] /\ inflight' = inflight
  BY <1>1, <1>4, UnwindStep DEF registry
<1>5. CASE Unwinding(w) /\ GiveUp(w) /\ UNCHANGED <<closeEvt, cancelReq>>
  <2>1. pc[w] \in {"unwinding", "waiting"} /\ (Told(w) \/ owner[w] \in {"closing", "ended"})
    BY <1>3, <1>5 DEF Unwinding, OwnerOf
  <2>2. pc[w] \in {"closing", "unwinding", "waiting"} /\ (Told(w) \/ owner[w] \notin Live \ {"closing"})
    BY <2>1 DEF Live
  <2> QED BY <1>1, <1>5, <2>2, GiveUpStep
<1>6. ASSUME pc[w] \in {"joining", "awaitRemote"}, pc' = [pc EXCEPT ![w] = "raised"],
             UNCHANGED <<inflight, closeEvt>>,
             \/ cancelReq' = cancelReq
             \/ pc[w] = "awaitRemote" /\ cancelReq' = cancelReq \cup {First(w).o}
      PROVE  Inv'
  <2> DEFINE T == IF pc[w] = "awaitRemote" THEN {First(w).o} ELSE {}
  <2>1. \A x \in T : Gone(x) /\ owner[x] # "none"
    BY <1>2
  <2>2. Telling(T)
    BY <1>1, <1>6 DEF Telling
  <2> HIDE DEF T
  <2> QED BY <1>1, <1>6, <2>1, <2>2, LeaveStep DEF registry
<1>7. ASSUME pc[w] \in {"awaitOwner", "closing"}, UNCHANGED <<inflight, closeEvt, pc>>,
             cancelReq' = cancelReq \cup {IF pc[w] = "closing" THEN w ELSE First(w).o}
      PROVE  Inv'
  <2> DEFINE T == {IF pc[w] = "closing" THEN w ELSE First(w).o}
  <2>1. pc[w] = "closing" => Gone(w) /\ owner[w] # "none"
    BY <1>3 DEF OwnerOf, Gone
  <2>2. \A x \in T : Gone(x) /\ owner[x] # "none"
    BY <1>2, <1>7, <2>1
  <2>3. Telling(T)
    BY <1>1, <1>7 DEF Telling
  <2> HIDE DEF T
  <2>4. SameRegistry /\ ListsShrink
    BY <1>1, <1>7, UnchangedRegistry DEF ListsShrink, Lists, registry
  <2>5. \A v \in Call : Shape(v)'
    BY <1>0, <1>1, <1>7 DEF ListsInv, ListOf, Shape
  <2>6. \A o \in Call : HandedOn(o)
    <3>1. \A o \in Call : (Told(o) => Told(o)') /\ (Running(o)' <=> Running(o))
      BY <2>2, <2>3, TellKeeps
    <3> QED BY <1>1, <3>1 DEF HandedOn, Lists
  <2> QED BY <1>7, <2>2, <2>3, <2>4, <2>5, <2>6, TellStep
<1>8. CASE pc[w] = "joining" /\ Goto(w, "raised") /\ UNCHANGED <<inflight, closeEvt, cancelReq>>
  BY <1>6, <1>8, Zenon DEF Goto
<1>9. CASE /\ pc[w] = "awaitRemote"
           /\ cancelReq' = IF remote[w] = "taken" THEN cancelReq \cup {First(w).o} ELSE cancelReq
           /\ Goto(w, "raised") /\ UNCHANGED <<inflight, closeEvt>>
  <2>1. cancelReq' = cancelReq \/ cancelReq' = cancelReq \cup {First(w).o}
    BY <1>9
  <2> QED BY <1>6, <1>9, <2>1, Zenon DEF Goto
<1> QED BY <1>4, <1>5, <1>7, <1>8, <1>9, Zenon DEF Cancel, Goto

\* It has ended.
LEMMA UnwoundStep ==
  ASSUME Inv, TypeOK', NEW w \in Call, Unwound(w)
  PROVE  Inv'
<1>1. pc[w] \in {"closing", "unwinding", "waiting"}
  BY DEF Unwound, Unwinding
<1>2. owner[w] \notin Live \ {"closing"}
  BY DEF Unwound, Ended, Live
<1>3. UNCHANGED <<entries, loop, key, evicted, remote, owner, ready, closeEvt, cancelReq, posted>>
  BY DEF Unwound, owners
<1> QED BY <1>1, <1>2, <1>3, GiveUpStep DEF Unwound

LEMMA StutterStep ==
  ASSUME Inv, TypeOK', UNCHANGED vars
  PROVE  Inv'
<1>0. ListsInv
  BY DEF Inv
<1>1. UNCHANGED <<registry, key, loop, owner, ready, pc, evicted, remote, posted, closeEvt, cancelReq>>
  BY DEF vars, registry
<1>2. SameRegistry /\ ListsShrink
  BY <1>1, UnchangedRegistry DEF ListsShrink, Lists
<1>3. \A v \in Call : Shape(v)'
  BY <1>0, <1>1 DEF ListsInv, ListOf, Shape
<1>4. \A o \in Call : HandedOn(o)
  BY <1>1 DEF HandedOn, Lists, Told, Running
<1>5. Telling({})
  BY <1>1 DEF Telling
<1> QED BY <1>1, <1>2, <1>3, <1>4, <1>5, TellStep

LEMMA InvStep == Inv /\ [Next]_vars => Inv'
<1> SUFFICES ASSUME Inv, [Next]_vars PROVE Inv'
  OBVIOUS
<1>1. TypeOK'
  BY TypeStep
<1>2. ASSUME NEW w \in Call, Reuse(w) \/ Enter(w) \/ Cancel(w) PROVE Inv'
  BY <1>1, <1>2, ReuseStep, EnterStep, CancelStep
<1>3. ASSUME NEW w \in Call, Proceed(w) PROVE Inv'
  BY <1>1, <1>3, ShutDownStep, AwaitedStep, RemoteStep, JoinedStep, PromoteStep, UnwoundStep, LoopStep
  DEF Proceed
<1>4. ASSUME NEW w \in Call, NEW ks \in SUBSET Key, Close(w, ks) PROVE Inv'
  BY <1>1, <1>4, CloseStep
<1>5. ASSUME NEW here \in BOOLEAN, CloseAllSync(here) PROVE Inv'
  BY <1>1, <1>5, CloseAllSyncStep
<1>6. ASSUME NEW x \in posted, Posted(x) PROVE Inv'
  BY <1>1, <1>6, PostedStep
<1>7. ASSUME NEW o \in Call, Serve(o) \/ Initialize(o) \/ InitializeFails(o) PROVE Inv'
  BY <1>1, <1>7, ServeStep
<1>8. CASE UNCHANGED vars
  BY <1>1, <1>8, StutterStep
<1> QED BY <1>2, <1>3, <1>4, <1>5, <1>6, <1>7, <1>8 DEF Next

LEMMA InvAlways == Spec => []Inv
BY InvInit, InvStep, PTL DEF Spec

-----------------------------------------------------------------------------
(* Theorems. *)

\* The registry hands out sessions that are open and that nobody told to close,
\* and a key has one entry or one creation in flight.
THEOREM RegistryIsSound == Spec => []RegistryOK
<1>1. Inv => RegistryOK
  <2> SUFFICES ASSUME Inv PROVE RegistryOK
    OBVIOUS
  <2>0. TypeOK /\ OwnersInv /\ RegistryInv
    BY DEF Inv
  <2>1. RegisteredIsLive
    BY <2>0 DEF RegisteredIsLive, OwnersInv, OwnerOf, Gone
  <2>2. OnePerKey
    <3> SUFFICES ASSUME NEW k \in Key
                 PROVE  Cardinality({o \in Call : IsEntry(o) /\ key[o] = k} \cup ({inflight[k]} \ {Nobody})) <= 1
      BY DEF OnePerKey
    <3> DEFINE C == {o \in Call : IsEntry(o) /\ key[o] = k} \cup ({inflight[k]} \ {Nobody})
    <3>1. \A x, y \in C : x = y
      <4>1. \A x, y \in Call : IsEntry(x) /\ IsEntry(y) /\ key[x] = key[y] => x = y
        BY <2>0 DEF RegistryInv, Distinct, IsEntry
      <4>2. \A x \in Call : IsEntry(x) => inflight[key[x]] = Nobody
        BY <2>0 DEF RegistryInv
      <4> QED BY <4>1, <4>2
    <3> HIDE DEF C
    <3>2. C = {} \/ \E x : C = {x}
      <4>1. ASSUME NEW x \in C PROVE C = {x}
        BY <3>1
      <4> QED BY <4>1
    <3>3. Cardinality(C) = 0 \/ Cardinality(C) = 1
      BY <3>2, FS_EmptySet, FS_Singleton
    <3>4. Cardinality(C) <= 1
      BY <3>3
    <3> QED BY <3>4 DEF C
  <2> QED BY <2>0, <2>1, <2>2 DEF RegistryOK
<1> QED BY <1>1, InvAlways, PTL

\* No session is leaked: an owner task that does not end by itself is in the
\* registry, told to close, or on the list of somebody who will tell it.
THEOREM NoSessionIsLeaked == Spec => []NoOrphanSession
<1>1. Inv => NoOrphanSession
  BY DEF Inv
<1> QED BY <1>1, InvAlways, PTL
=============================================================================
