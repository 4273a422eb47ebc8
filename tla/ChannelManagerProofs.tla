------------------------ MODULE ChannelManagerProofs ------------------------
(***************************************************************************)
(* ChannelManager for every number of messages, conversations, deliveries  *)
(* and failures: its deduplication, its registry of locks, and one thread  *)
(* per chat where no creation failed under the lock.                       *)
(***************************************************************************)
EXTENDS ChannelManager, SequenceTheorems, TLAPS

\* The loop takes the deliveries in order; an answer ends a handler.
QueueOf(d) ==
    /\ pc[d] = "queued" <=> d \in taken + 1 .. Len(inbound)
    /\ pc[d] # "done" => answer[d] = "none"

\* No key is there twice, and a message that is or was handled has its key in
\* the map unless it was forgotten.
KeysOnce == \A i, j \in 1 .. Len(recent) : recent[i] = recent[j] => i = j
KeptOf(d) == Kept(d) => inbound[d] \in Range(recent) \cup forgotten

DedupeInv ==
    /\ KeysOnce
    /\ \A d \in Delivery : QueueOf(d) /\ KeptOf(d)
    /\ HandledOnce
    /\ FailureForgiven

\* A lock is held or awaited at its places only, and one handler is inside.
HoldsAt(d) == mine[d] # 0 <=> pc[d] \in Locked \cup {"locking"}
Mutex == \A d, e \in Delivery : mine[d] = mine[e] /\ {pc[d], pc[e]} \subseteq Locked => d = e

\* While no creation failed, a conversation has one lock, and it is in the
\* registry until a thread is stored.
OneLock(c) ==
    c \notin frayed =>
      \A d, e \in Delivery :
        mine[d] # 0 /\ Conv(d) = c =>
          /\ thread[c] = 0 => mine[d] = locks[c]
          /\ mine[e] # 0 /\ Conv(e) = c => mine[d] = mine[e]

\* The places of the commands; some of them keep a thread they made themselves.
CommandOf(d) ==
    /\ pc[d] = "admitting" => kind[inbound[d]] # "chat"
    /\ pc[d] = "opening" => kind[inbound[d]] = "goal"
    /\ pc[d] = "keeping" => kind[inbound[d]] \in {"goal", "new"}

\* Where the ids of the threads come from.
MadeOf(c) ==
    IF mode[c] = "fire" THEN made[c] \subseteq {Prescribed}
    ELSE \A t \in made[c] : t \in 1 .. Len(inbound) /\ Conv(t) = c

\* A thread made under the lock is stored, or about to be; whoever is about to
\* make one finds none.
ChatOf(c) ==
    c \notin frayed /\ mode[c] # "fire" =>
      /\ \A t \in made[c] : Unlocked(t) \/ thread[c] # 0 \/ pc[t] = "storing"
      /\ \A d \in Delivery : pc[d] = "creating" /\ Conv(d) = c => \A t \in made[c] : Unlocked(t)

LockInv ==
    /\ \A d \in Delivery : HoldsAt(d) /\ CommandOf(d)
    /\ Mutex
    /\ \A c \in Conversation : OneLock(c) /\ MadeOf(c) /\ ChatOf(c)
USE DEF Delivery

-----------------------------------------------------------------------------
(* The recent keys. *)

\* A sequence without repetitions.
Once(s) == \A i, j \in 1 .. Len(s) : s[i] = s[j] => i = j

\* The expiry of the oldest keys.
LEMMA RecentKeys ==
  ASSUME recent \in Seq(Message), KeysOnce, NEW n \in 0 .. Len(recent)
  PROVE  /\ Recent(n) \in Seq(Message) /\ Once(Recent(n))
         /\ Range(Recent(n)) \subseteq Range(recent)
         /\ Range(recent) \subseteq Range(Recent(n)) \cup {recent[i] : i \in 1 .. n}
         /\ {recent[i] : i \in 1 .. n} \subseteq Message
<1> DEFINE s == SubSeq(recent, n + 1, Len(recent))
<1>1. /\ s \in Seq(Message) /\ Len(s) = Len(recent) - n
      /\ \A i \in 1 .. Len(recent) - n : s[i] = recent[n + i]
  BY SMT
<1> HIDE DEF s
<1>2. Once(s)
  BY <1>1 DEF Once, KeysOnce
<1>3. Range(s) \subseteq Range(recent)
  <2>1. \A i \in 1 .. Len(s) : n + i \in 1 .. Len(recent) /\ s[i] = recent[n + i]
    BY <1>1
  <2> QED BY <2>1, <1>1, RangeEquality
<1>4. ASSUME NEW k \in 1 .. Len(recent), k \notin 1 .. n
      PROVE  recent[k] \in Range(s)
  <2>1. k - n \in 1 .. Len(s) /\ s[k - n] = recent[k]
    BY <1>1, <1>4
  <2> QED BY <2>1, <1>1, RangeEquality
<1>5. Range(recent) \subseteq Range(s) \cup {recent[i] : i \in 1 .. n}
  BY <1>4, RangeEquality
<1> QED BY <1>1, <1>2, <1>3, <1>5, RangeEquality, RangeOfSeq DEF Recent, s

\* The release of a key.
LEMMA WithoutKey ==
  ASSUME recent \in Seq(Message), KeysOnce, NEW m
  PROVE  /\ Without(m) \in Seq(Message) /\ Once(Without(m))
         /\ Range(Without(m)) = Range(recent) \ {m}
<1>1. CASE m \notin Range(recent)
  BY <1>1 DEF Without, Once, KeysOnce
<1>2. CASE m \in Range(recent)
  <2> DEFINE p == Place(m)
             s == SubSeq(recent, 1, p - 1) \o SubSeq(recent, p + 1, Len(recent))
  <2>1. p \in 1 .. Len(recent) /\ recent[p] = m
    BY <1>2, RangeEquality DEF Place
  <2>2. /\ s \in Seq(Message) /\ Len(s) = Len(recent) - 1
        /\ \A i \in 1 .. Len(recent) - 1 : s[i] = IF i < p THEN recent[i] ELSE recent[i + 1]
    <3> DEFINE a == SubSeq(recent, 1, p - 1)
               b == SubSeq(recent, p + 1, Len(recent))
    <3> HIDE DEF p
    <3>1. /\ a \in Seq(Message) /\ Len(a) = p - 1
          /\ \A i \in 1 .. p - 1 : a[i] = recent[i]
      BY <2>1, SMT
    <3>2. /\ b \in Seq(Message) /\ Len(b) = Len(recent) - p
          /\ \A i \in 1 .. Len(recent) - p : b[i] = recent[p + i]
      BY <2>1, SMT
    <3> HIDE DEF a, b
    <3>3. /\ a \o b \in Seq(Message) /\ Len(a \o b) = Len(recent) - 1
          /\ \A i \in 1 .. Len(recent) - 1 :
               (a \o b)[i] = IF i < p THEN recent[i] ELSE recent[i + 1]
      <4>1. /\ a \o b \in Seq(Message) /\ Len(a \o b) = Len(recent) - 1
            /\ \A i \in 1 .. Len(recent) - 1 :
                 (a \o b)[i] = IF i <= p - 1 THEN a[i] ELSE b[i - (p - 1)]
        <5>1. /\ a \o b \in Seq(Message) /\ Len(a \o b) = Len(a) + Len(b)
              /\ \A i \in 1 .. Len(a) + Len(b) :
                   (a \o b)[i] = IF i <= Len(a) THEN a[i] ELSE b[i - Len(a)]
          BY <3>1, <3>2, ConcatProperties
        <5>2. Len(a) + Len(b) = Len(recent) - 1
          BY <2>1, <3>1, <3>2
        <5> QED BY <3>1, <5>1, <5>2
      <4> QED BY <2>1, <3>1, <3>2, <4>1, SMT
    <3> QED BY <3>3 DEF a, b
  <2>3. Once(s)
    <3> HIDE DEF p, s
    <3> QED BY <2>1, <2>2, SMT DEF Once, KeysOnce
  <2>4. Range(s) = {s[i] : i \in 1 .. Len(s)} /\ Range(recent) = {recent[i] : i \in 1 .. Len(recent)}
    BY <2>2, RangeEquality
  <2>5. \A k \in 1 .. Len(recent) : k # p => \E i \in 1 .. Len(s) : s[i] = recent[k]
    <3> HIDE DEF p, s
    <3>1. TAKE k \in 1 .. Len(recent)
    <3>2. CASE k < p
      <4>1. k \in 1 .. Len(s) /\ s[k] = recent[k]
        BY <2>1, <2>2, <3>2
      <4> QED BY <4>1
    <3>3. CASE k > p
      <4>1. k - 1 \in 1 .. Len(s) /\ s[k - 1] = recent[k]
        BY <2>1, <2>2, <3>3
      <4> QED BY <4>1
    <3> QED BY <2>1, <3>2, <3>3
  <2>6. \A i \in 1 .. Len(s) : \E k \in 1 .. Len(recent) : k # p /\ s[i] = recent[k]
    <3> HIDE DEF p, s
    <3>1. TAKE i \in 1 .. Len(s)
    <3>2. CASE i < p
      <4>1. i \in 1 .. Len(recent) /\ s[i] = recent[i]
        BY <2>1, <2>2, <3>2
      <4> QED BY <4>1, <3>2
    <3>3. CASE ~(i < p)
      <4>1. i + 1 \in 1 .. Len(recent) /\ i + 1 # p /\ s[i] = recent[i + 1]
        BY <2>1, <2>2, <3>3
      <4> QED BY <4>1
    <3> QED BY <3>2, <3>3
  <2>7. \A k \in 1 .. Len(recent) : recent[k] = m <=> k = p
    <3> HIDE DEF p, s
    <3> QED BY <2>1 DEF KeysOnce
  <2>8. Range(s) = Range(recent) \ {m}
    <3> HIDE DEF p, s
    <3>1. ASSUME NEW x \in Range(s)
          PROVE  x \in Range(recent) \ {m}
      <4>1. PICK k \in 1 .. Len(recent) : k # p /\ x = recent[k]
        BY <2>4, <2>6
      <4> QED BY <2>4, <2>7, <4>1
    <3>2. ASSUME NEW x \in Range(recent) \ {m}
          PROVE  x \in Range(s)
      <4>1. PICK k \in 1 .. Len(recent) : x = recent[k]
        BY <2>4
      <4> QED BY <2>4, <2>5, <2>7, <4>1
    <3> QED BY <3>1, <3>2
  <2> QED BY <1>2, <2>2, <2>3, <2>8 DEF Without
<1> QED BY <1>1, <1>2

\* A new key.
LEMMA AppendKey ==
  ASSUME NEW s \in Seq(Message), Once(s), NEW m \in Message, m \notin Range(s)
  PROVE  Once(Append(s, m)) /\ Range(Append(s, m)) = Range(s) \cup {m}
<1> DEFINE t == Append(s, m)
<1>1. /\ t \in Seq(Message) /\ Len(t) = Len(s) + 1
      /\ \A i \in 1 .. Len(s) : t[i] = s[i]
      /\ t[Len(s) + 1] = m
  BY AppendProperties
<1> HIDE DEF t
<1>2. \A i \in 1 .. Len(t) : i \in 1 .. Len(s) \/ i = Len(s) + 1
  BY <1>1
<1>3. Range(s) = {s[i] : i \in 1 .. Len(s)} /\ Range(t) = {t[i] : i \in 1 .. Len(t)}
  BY <1>1, RangeEquality
<1>4. \A i \in 1 .. Len(s) : s[i] # m
  BY <1>3
<1>5. Once(t)
  BY <1>1, <1>2, <1>4 DEF Once
<1>6. ASSUME NEW i \in 1 .. Len(t)
      PROVE  t[i] \in Range(s) \cup {m}
  BY <1>1, <1>2, <1>3
<1>7. Range(s) \subseteq Range(t)
  BY <1>1, <1>3
<1>8. m \in Range(t)
  <2>1. Len(s) + 1 \in 1 .. Len(t)
    BY <1>1
  <2> QED BY <1>1, <1>3, <2>1
<1> QED BY <1>3, <1>5, <1>6, <1>7, <1>8 DEF t

-----------------------------------------------------------------------------
(* What a step of a handler does to its delivery and to the keys. *)

Attempt == InSlot \cup {"checking", "waiting", "declining"}
Handle(d) == Work(d) \/ CreateFails(d) \/ RunFails(d) \/ LookupFails(d)

\* It goes on, or answers; it raises; the apology for that is over.
Continues(d) ==
    /\ pc[d] \in Attempt /\ UNCHANGED dedupe
    /\ \/ (\E to \in Attempt : Go(d, to)) /\ UNCHANGED answer
       \/ \E what \in Answer \ {"error", "silent"} : Reply(d, what)
       \/ Go(d, "done") /\ UNCHANGED answer
Raises(d) == pc[d] \in Attempt /\ Raise(d)
Apologizes(d) ==
    /\ pc[d] = "apologizing" /\ UNCHANGED dedupe
    /\ \E what \in {"error", "silent"} : Reply(d, what)

LEMMA HandlerKinds ==
  ASSUME TypeOK, NEW d \in Delivery, CommandOf(d), Handle(d)
  PROVE  UNCHANGED bus /\ (Continues(d) \/ Raises(d) \/ Apologizes(d))
<1> USE DEF Continues, Raises, Apologizes, Attempt, InSlot, Locked, Answer, bus, dedupe
<1>1. CASE Admit(d)
  <2>1. kind[inbound[d]] \in Kind
    BY <1>1 DEF Admit, TypeOK
  <2>2. CASE pc[d] = "checking" /\ Go(d, "waiting") /\ UNCHANGED answer
    BY <1>1, <2>2 DEF Admit, Go
  <2>3. CASE /\ pc[d] = "admitting" /\ UNCHANGED answer
             /\ \E to \in {"finding", "opening", "keeping", "replying"} : Go(d, to)
    BY <1>1, <2>3 DEF Admit, Go
  <2>4. CASE pc[d] \in {"checking", "admitting"} /\ Reply(d, "rejected")
    BY <1>1, <2>4 DEF Admit, Reply
  <2>5. CASE pc[d] = "admitting" /\ UNCHANGED answer
             /\ Go(d, CASE kind[inbound[d]] = "skill" -> "finding"
                        [] kind[inbound[d]] = "goal"  -> "opening"
                        [] kind[inbound[d]] = "new"   -> "keeping"
                        [] kind[inbound[d]] = "help"  -> "replying")
    <3>1. kind[inbound[d]] \in {"skill", "goal", "new", "help"}
      BY <2>1, <2>5 DEF CommandOf, Kind
    <3>2. \E to \in {"finding", "opening", "keeping", "replying"} : Go(d, to)
      BY <2>5, <3>1
    <3> QED BY <1>1, <2>3, <2>5, <3>2 DEF Admit
  <2> QED BY <1>1, <2>2, <2>4, <2>5 DEF Admit
<1>2. CASE TakeSlot(d)
  BY <1>2 DEF TakeSlot, Go, Stays
<1>3. CASE Find(d)
  BY <1>3 DEF Find, Go, Stays
<1>4. CASE EnterLock(d)
  BY <1>4 DEF EnterLock, Go, Stays
<1>5. CASE Recheck(d)
  BY <1>5 DEF Recheck, Go, Stays
<1>6. CASE OpenGoal(d)
  BY <1>6 DEF OpenGoal, Go, Stays
<1>7. CASE Create(d)
  BY <1>7 DEF Create, Go, Stays
<1>8. CASE Store(d)
  BY <1>8 DEF Store, Go, Stays
<1>9. CASE SetGoal(d)
  BY <1>9 DEF SetGoal, Go
<1>10. CASE Start(d)
  BY <1>10 DEF Start, Go, Stays
<1>11. CASE Decline(d)
  BY <1>11 DEF Decline, Go, Stays
<1>12. CASE Refused(d)
  BY <1>12 DEF Refused, Go, Reply
<1>13. CASE Deliverable(d)
  BY <1>13 DEF Deliverable, Reply
<1>14. CASE Say(d)
  BY <1>14 DEF Say, Reply
<1>15. CASE CreateFails(d)
  BY <1>15 DEF CreateFails
<1>16. CASE RunFails(d)
  BY <1>16 DEF RunFails, Reply
<1>17. CASE LookupFails(d)
  BY <1>17 DEF LookupFails, Reply
<1> QED
  BY <1>1, <1>2, <1>3, <1>4, <1>5, <1>6, <1>7, <1>8, <1>9, <1>10, <1>11, <1>12, <1>13, <1>14, <1>15, <1>16, <1>17
  DEF Handle, Work

-----------------------------------------------------------------------------
(* Types. *)

\* The part of TypeOK that HandlerKinds decides.
LEMMA HandlerType ==
  ASSUME TypeOK, KeysOnce, NEW d \in Delivery, CommandOf(d), Handle(d)
  PROVE  /\ recent' \in Seq(Message) /\ forgotten' \subseteq Message
         /\ pc' \in [Delivery -> Pc] /\ answer' \in [Delivery -> Answer]
         /\ \A e \in Delivery : pc'[e] = "none" <=> e > Len(inbound)
         /\ UNCHANGED <<kind, mode, inbound, taken>>
<1> USE DEF Attempt, InSlot, Locked, Pc, Answer, TypeOK
<1>1. UNCHANGED <<kind, mode, inbound, taken>>
  BY HandlerKinds DEF bus
<1>2. CASE Continues(d)
  <2>1. PICK to \in Attempt \cup {"done"} : pc[d] \in Attempt /\ pc' = [pc EXCEPT ![d] = to]
    BY <1>2 DEF Continues, Go, Reply
  <2>2. answer' \in [Delivery -> Answer]
    BY <1>2 DEF Continues, Reply
  <2> QED BY <1>1, <1>2, <2>1, <2>2 DEF Continues, dedupe
<1>3. CASE Raises(d)
  <2>1. recent' \in Seq(Message)
    BY <1>3, WithoutKey DEF Raises, Raise
  <2> QED BY <1>1, <1>3, <2>1 DEF Raises, Raise, Go
<1>4. CASE Apologizes(d)
  BY <1>1, <1>4 DEF Apologizes, Reply, Go, dedupe
<1> QED BY <1>2, <1>3, <1>4, <1>1, HandlerKinds

LEMMA LeaveType ==
  ASSUME TypeOK, NEW d \in Delivery, Leave(d)
  PROVE  mine' \in [Delivery -> {0} \cup Delivery] /\ locks' \in [Conversation -> {0} \cup Delivery]
BY DEF TypeOK, Leave

LEMMA MadeType ==
  ASSUME TypeOK, NEW d \in Delivery, pc[d] # "none"
  PROVE  /\ Conv(d) \in Conversation
         /\ Mint(d) \in 1 .. Prescribed
         /\ Made(d) \in [Conversation -> SUBSET (1 .. Prescribed)]
<1>1. inbound[d] \in Message
  BY DEF TypeOK
<1>2. Conv(d) \in Conversation
  BY <1>1, ChannelAssumption DEF Conv
<1>3. Mint(d) \in 1 .. Prescribed
  BY ChannelAssumption DEF Mint, Prescribed
<1> QED BY <1>2, <1>3 DEF Made, TypeOK

LEMMA FaultType == TypeOK /\ Fault => faults' \in 0 .. MaxFaults
  BY ChannelAssumption DEF TypeOK, Fault

\* The part that Leave, Mint and the guards decide.
RestOK ==
    /\ on \in [Delivery -> 0 .. Prescribed] /\ mine \in [Delivery -> {0} \cup Delivery]
    /\ locks \in [Conversation -> {0} \cup Delivery]
    /\ thread \in [Conversation -> 0 .. Prescribed]
    /\ made \in [Conversation -> SUBSET (1 .. Prescribed)]
    /\ runs \subseteq Delivery /\ frayed \subseteq Conversation
    /\ faults \in 0 .. MaxFaults

LEMMA HandlerRest ==
  ASSUME TypeOK, NEW d \in Delivery, CommandOf(d), Handle(d)
  PROVE  RestOK'
<1> USE DEF creation, gateway, bus, dedupe, Stays, RestOK
<1>0. RestOK /\ pc[d] # "none" /\ Conv(d) \in Conversation
  <2>1. pc[d] # "none"
    BY HandlerKinds DEF Continues, Raises, Apologizes, Attempt, InSlot, Locked
  <2> QED BY <2>1, MadeType DEF TypeOK
<1>1. ASSUME Admit(d)
      PROVE  RestOK'
  BY <1>0, <1>1 DEF Admit
<1>2. ASSUME TakeSlot(d)
      PROVE  RestOK'
  BY <1>0, <1>2 DEF TakeSlot
<1>3. ASSUME Find(d)
      PROVE  RestOK'
  <2>1. locks' \in [Conversation -> {0} \cup Delivery] /\ mine' \in [Delivery -> {0} \cup Delivery]
    BY <1>0, <1>3 DEF Find
  <2>2. on' \in [Delivery -> 0 .. Prescribed]
    BY <1>0, <1>3 DEF Find
  <2> QED BY <1>0, <1>3, <2>1, <2>2 DEF Find
<1>4. ASSUME EnterLock(d)
      PROVE  RestOK'
  BY <1>0, <1>4 DEF EnterLock
<1>5. ASSUME Recheck(d)
      PROVE  RestOK'
  BY <1>0, <1>5, LeaveType DEF Recheck
<1>6. ASSUME OpenGoal(d)
      PROVE  RestOK'
  BY <1>0, <1>6 DEF OpenGoal
<1>7. ASSUME Create(d)
      PROVE  RestOK'
  BY <1>0, <1>7, MadeType DEF Create
<1>8. ASSUME Store(d)
      PROVE  RestOK'
  BY <1>0, <1>8, LeaveType DEF Store
<1>9. ASSUME SetGoal(d)
      PROVE  RestOK'
  BY <1>0, <1>9, FaultType DEF SetGoal
<1>10. ASSUME Start(d)
      PROVE  RestOK'
  BY <1>0, <1>10 DEF Start
<1>11. ASSUME Decline(d)
      PROVE  RestOK'
  BY <1>0, <1>11 DEF Decline
<1>12. ASSUME Refused(d)
      PROVE  RestOK'
  BY <1>0, <1>12 DEF Refused
<1>13. ASSUME Deliverable(d)
      PROVE  RestOK'
  BY <1>0, <1>13 DEF Deliverable
<1>14. ASSUME Say(d)
      PROVE  RestOK'
  BY <1>0, <1>14 DEF Say
<1>15. ASSUME CreateFails(d)
      PROVE  RestOK'
  BY <1>0, <1>15, LeaveType, MadeType, FaultType DEF CreateFails
<1>16. ASSUME RunFails(d)
      PROVE  RestOK'
  BY <1>0, <1>16, FaultType DEF RunFails
<1>17. ASSUME LookupFails(d)
      PROVE  RestOK'
  BY <1>0, <1>17, LeaveType, FaultType DEF LookupFails
<1> QED
  BY <1>1, <1>2, <1>3, <1>4, <1>5, <1>6, <1>7, <1>8, <1>9, <1>10, <1>11, <1>12,
     <1>13, <1>14, <1>15, <1>16, <1>17 DEF Handle, Work

\* A dispatch takes the delivery that is next in the inbound queue.
LEMMA DispatchTakes ==
  ASSUME TypeOK, Dispatch
  PROVE  \E k \in Delivery : k = taken + 1 /\ k <= Len(inbound) /\ taken' = k /\ inbound[k] \in Message
<1>1. /\ inbound \in Seq(Message) /\ Len(inbound) \in Nat
      /\ Len(inbound) <= MaxDeliveries /\ MaxDeliveries \in Nat
      /\ taken \in 0 .. Len(inbound)
  BY ChannelAssumption DEF TypeOK
<1>2. taken < Len(inbound) /\ taken' = taken + 1
  BY DEF Dispatch
<1>3. taken + 1 \in 1 .. Len(inbound) /\ taken + 1 \in Delivery
  BY <1>1, <1>2 DEF Delivery
<1>4. inbound[taken + 1] \in Message
  BY <1>1, <1>3
<1> QED BY <1>2, <1>3, <1>4

LEMMA TypeStep ==
  ASSUME TypeOK, KeysOnce, \A d \in Delivery : CommandOf(d) /\ QueueOf(d), [Next]_vars
  PROVE  TypeOK'
<1>1. ASSUME NEW m \in Message, Deliver(m)
      PROVE  TypeOK'
  <2>1. /\ inbound' \in Seq(Message) /\ Len(inbound') = Len(inbound) + 1
        /\ Len(inbound) + 1 \in Delivery
    BY <1>1, ChannelAssumption DEF Deliver, TypeOK
  <2>2. pc' \in [Delivery -> Pc] /\ \A e \in Delivery : pc'[e] = "none" <=> e > Len(inbound')
    BY <1>1, <2>1 DEF Deliver, TypeOK, Pc
  <2> QED BY <1>1, <2>1, <2>2 DEF Deliver, TypeOK, dedupe, creation, gateway
<1>2. CASE Dispatch
  <2>1. PICK k \in Delivery : k = taken + 1 /\ k <= Len(inbound) /\ taken' = k /\ inbound[k] \in Message
    BY <1>2, DispatchTakes
  <2>2. PICK n \in 0 .. Len(recent) :
          /\ forgotten' = forgotten \cup {recent[i] : i \in 1 .. n}
          /\ recent' = Recent(n) \/ recent' = Append(Recent(n), inbound[k])
          /\ \E to \in {"dropped", "checking", "waiting"} : pc' = [pc EXCEPT ![k] = to]
    BY <1>2, <2>1 DEF Dispatch, FirstPc
  <2>3. recent' \in Seq(Message) /\ forgotten' \subseteq Message
    <3>1. Recent(n) \in Seq(Message) /\ {recent[i] : i \in 1 .. n} \subseteq Message
      BY RecentKeys DEF TypeOK
    <3>2. recent' \in Seq(Message)
      BY <2>1, <2>2, <3>1
    <3>3. forgotten' \subseteq Message
      BY <2>2, <3>1, Zenon DEF TypeOK
    <3> QED BY <3>2, <3>3
  <2>4. pc' \in [Delivery -> Pc] /\ \A e \in Delivery : pc'[e] = "none" <=> e > Len(inbound)
    <3>1. PICK to \in {"dropped", "checking", "waiting"} : pc' = [pc EXCEPT ![k] = to]
      BY <2>2
    <3> QED BY <2>1, <3>1 DEF TypeOK, Pc
  <2> QED BY <1>2, <2>1, <2>3, <2>4, SMTT(30) DEF Dispatch, TypeOK, creation, gateway
<1>3. ASSUME NEW d \in Delivery, RunEnds(d)
      PROVE  TypeOK'
  BY <1>3 DEF RunEnds, TypeOK, bus, dedupe, creation
<1>4. ASSUME NEW d \in Delivery, Handle(d)
      PROVE  TypeOK'
  <2>1. /\ kind' \in [Message -> Kind] /\ mode' \in [Conversation -> Mode]
         /\ inbound' \in Seq(Message) /\ Len(inbound') <= MaxDeliveries
         /\ taken' \in 0 .. Len(inbound')
    BY <1>4, HandlerType DEF TypeOK
  <2> QED BY <1>4, HandlerType, HandlerRest, <2>1 DEF TypeOK, RestOK
<1>5. CASE UNCHANGED vars
  BY <1>5 DEF TypeOK, vars
<1> QED BY <1>1, <1>2, <1>3, <1>4, <1>5 DEF Next, Handle

-----------------------------------------------------------------------------
(* Deduplication. *)

\* A handler that goes on, or answers, was and stays kept.
LEMMA ContinuesKeeps ==
  ASSUME TypeOK, DedupeInv, NEW d \in Delivery, Continues(d), UNCHANGED bus
  PROVE  DedupeInv'
<1> USE DEF DedupeInv, TypeOK, Attempt, InSlot, Locked, bus, dedupe
<1>1. PICK to \in Attempt \cup {"done"} : pc[d] \in Attempt /\ pc' = [pc EXCEPT ![d] = to]
  BY DEF Continues, Go, Reply
<1>2. /\ answer[d] = "none"
      /\ answer'[d] \notin {"error", "silent"}
      /\ \A e \in Delivery : e # d => answer'[e] = answer[e]
  BY DEF Continues, Reply, QueueOf
<1>3. \A e \in Delivery : Kept(e)' <=> Kept(e)
  BY <1>1, <1>2 DEF Kept
<1>4. UNCHANGED <<inbound, taken, recent, forgotten>>
  BY DEF Continues
<1>5. \A e \in Delivery : QueueOf(e)'
  <2>1. TAKE e \in Delivery
  <2>2. CASE e = d
    BY <1>1, <1>4, <2>2 DEF Continues, QueueOf, Go, Reply
  <2>3. CASE e # d
    BY <1>1, <1>2, <1>4, <2>3 DEF QueueOf
  <2> QED BY <2>2, <2>3
<1>6. KeysOnce' /\ (\A e \in Delivery : KeptOf(e)') /\ HandledOnce' /\ FailureForgiven'
  BY <1>3, <1>4 DEF KeysOnce, KeptOf, HandledOnce, FailureForgiven
<1> QED BY <1>5, <1>6

\* One that raises releases its key, which no other attempt relies on.
LEMMA RaisesKeeps ==
  ASSUME TypeOK, DedupeInv, NEW d \in Delivery, Raises(d), UNCHANGED bus
  PROVE  DedupeInv'
<1> USE DEF DedupeInv, TypeOK, Attempt, InSlot, Locked, bus
<1>1. /\ pc[d] \in Attempt /\ pc' = [pc EXCEPT ![d] = "apologizing"]
      /\ recent' = Without(inbound[d]) /\ UNCHANGED <<answer, forgotten, inbound, taken>>
  BY DEF Raises, Raise, Go
<1>2. Kept(d) /\ ~Kept(d)' /\ \A e \in Delivery : e # d => (Kept(e)' <=> Kept(e))
  BY <1>1 DEF Kept, QueueOf
<1>3. recent' \in Seq(Message) /\ Once(recent') /\ Range(recent') = Range(recent) \ {inbound[d]}
  BY <1>1, WithoutKey
<1>4. \A e \in Delivery : QueueOf(e)'
  BY <1>1 DEF QueueOf
<1>5. \A e \in Delivery : KeptOf(e)'
  BY <1>1, <1>2, <1>3 DEF KeptOf, HandledOnce
<1>6. HandledOnce'
  BY <1>1, <1>2 DEF HandledOnce
<1>7. FailureForgiven'
  BY <1>1, <1>2, <1>3 DEF FailureForgiven
<1>8. KeysOnce'
  BY <1>3 DEF KeysOnce, Once
<1> QED BY <1>4, <1>5, <1>6, <1>7, <1>8

LEMMA ApologizesKeeps ==
  ASSUME TypeOK, DedupeInv, NEW d \in Delivery, Apologizes(d), UNCHANGED bus
  PROVE  DedupeInv'
<1> USE DEF DedupeInv, TypeOK, bus, dedupe
<1>1. PICK what \in {"error", "silent"} :
        /\ pc[d] = "apologizing" /\ pc' = [pc EXCEPT ![d] = "done"]
        /\ answer' = [answer EXCEPT ![d] = what]
        /\ UNCHANGED <<recent, forgotten, inbound, taken>>
  BY DEF Apologizes, Reply, Go
<1>2. \A e \in Delivery : Kept(e)' <=> Kept(e)
  BY <1>1 DEF Kept, InSlot, Locked
<1>3. \A e \in Delivery : QueueOf(e)'
  BY <1>1 DEF QueueOf
<1>4. KeysOnce' /\ (\A e \in Delivery : KeptOf(e)') /\ HandledOnce' /\ FailureForgiven'
  BY <1>1, <1>2 DEF KeysOnce, KeptOf, HandledOnce, FailureForgiven
<1> QED BY <1>3, <1>4

LEMMA DeliverKeeps ==
  ASSUME TypeOK, DedupeInv, NEW m \in Message, Deliver(m)
  PROVE  DedupeInv'
<1> USE DEF DedupeInv, TypeOK
<1> DEFINE k == Len(inbound) + 1
<1>1. /\ k \in Delivery /\ pc[k] = "none" /\ pc' = [pc EXCEPT ![k] = "queued"]
      /\ Len(inbound') = k /\ \A i \in 1 .. Len(inbound) : inbound'[i] = inbound[i]
      /\ UNCHANGED <<taken, recent, forgotten, answer>>
  <2>1. k \in Delivery
    BY ChannelAssumption DEF Deliver
  <2>2. Len(inbound') = k /\ \A i \in 1 .. Len(inbound) : inbound'[i] = inbound[i]
    BY AppendProperties DEF Deliver
  <2> QED BY <2>1, <2>2 DEF Deliver, dedupe
<1>2. \A e \in Delivery : /\ Kept(e)' <=> Kept(e)
                          /\ Kept(e) => inbound'[e] = inbound[e]
  BY <1>1 DEF Kept, InSlot, Locked
<1>3. \A e \in Delivery : QueueOf(e)'
  BY <1>1 DEF QueueOf
<1>4. KeysOnce' /\ (\A e \in Delivery : KeptOf(e)') /\ HandledOnce' /\ FailureForgiven'
  BY <1>1, <1>2 DEF KeysOnce, KeptOf, HandledOnce, FailureForgiven
<1> QED BY <1>3, <1>4

LEMMA DispatchKeeps ==
  ASSUME TypeOK, DedupeInv, Dispatch
  PROVE  DedupeInv'
<1> USE DEF DedupeInv, TypeOK
<1>1. PICK k \in Delivery :
        /\ k = taken + 1 /\ k <= Len(inbound) /\ taken' = k /\ inbound[k] \in Message
        /\ pc[k] = "queued" /\ answer[k] = "none"
        /\ UNCHANGED <<inbound, answer>>
  <2>1. PICK k \in Delivery : k = taken + 1 /\ k <= Len(inbound) /\ taken' = k /\ inbound[k] \in Message
    BY DispatchTakes
  <2>2. pc[k] = "queued" /\ answer[k] = "none"
    <3>1. QueueOf(k) /\ k \in taken + 1 .. Len(inbound)
      BY <2>1
    <3> QED BY <3>1 DEF QueueOf
  <2>3. UNCHANGED <<inbound, answer>>
    BY DEF Dispatch
  <2> QED BY <2>1, <2>2, <2>3
<1> DEFINE m == inbound[k]
<1>2. PICK n \in 0 .. Len(recent) :
        /\ forgotten' = forgotten \cup {recent[i] : i \in 1 .. n}
        /\ \/ m \in Range(Recent(n)) /\ recent' = Recent(n) /\ pc' = [pc EXCEPT ![k] = "dropped"]
           \/ /\ m \notin Range(Recent(n)) /\ recent' = Append(Recent(n), m)
              /\ \E to \in {"checking", "waiting"} : pc' = [pc EXCEPT ![k] = to]
  BY <1>1 DEF Dispatch, FirstPc
<1> HIDE DEF m
<1>3. /\ Recent(n) \in Seq(Message) /\ Once(Recent(n)) /\ m \in Message
      /\ Range(Recent(n)) \subseteq Range(recent)
      /\ Range(recent) \subseteq Range(Recent(n)) \cup {recent[i] : i \in 1 .. n}
  BY <1>1, RecentKeys DEF m
<1>4. Range(recent) \cup forgotten \subseteq Range(Recent(n)) \cup forgotten'
  BY <1>2, <1>3, Zenon
<1>5. \A e \in Delivery : e # k => (Kept(e)' <=> Kept(e))
  BY <1>1, <1>2 DEF Kept
<1>6. ~Kept(k)
  BY <1>1 DEF Kept, InSlot, Locked
<1>7. \A e \in Delivery : QueueOf(e)'
  <2>1. PICK to \in {"dropped", "checking", "waiting"} : pc' = [pc EXCEPT ![k] = to]
    BY <1>2
  <2> QED BY <1>1, <2>1 DEF QueueOf
<1>8. CASE m \in Range(Recent(n)) /\ recent' = Recent(n) /\ pc' = [pc EXCEPT ![k] = "dropped"]
  <2>1. ~Kept(k)'
    BY <1>8 DEF Kept, InSlot, Locked
  <2>2. \A e \in Delivery : Kept(e)' <=> Kept(e)
    BY <1>5, <1>6, <2>1
  <2>3. \A e \in Delivery : KeptOf(e)'
    BY <1>1, <1>4, <1>8, <2>2 DEF KeptOf
  <2>4. HandledOnce'
    BY <1>1, <1>2, <2>2 DEF HandledOnce
  <2>5. FailureForgiven' /\ KeysOnce'
    BY <1>1, <1>3, <1>8, <2>2 DEF FailureForgiven, KeysOnce, Once
  <2> QED BY <1>7, <2>3, <2>4, <2>5
<1>9. CASE /\ m \notin Range(Recent(n)) /\ recent' = Append(Recent(n), m)
           /\ \E to \in {"checking", "waiting"} : pc' = [pc EXCEPT ![k] = to]
  <2>1. Kept(k)' /\ m = inbound'[k]
    BY <1>1, <1>9 DEF Kept, m
  <2>2. Once(recent') /\ Range(recent') = Range(Recent(n)) \cup {m}
    BY <1>3, <1>9, AppendKey
  <2>3. \A e \in Delivery : KeptOf(e)'
    BY <1>1, <1>4, <1>5, <2>1, <2>2 DEF KeptOf
  <2>4. \A e \in Delivery : e # k /\ Kept(e) /\ inbound[e] = m => m \in forgotten'
    BY <1>4, <1>9 DEF KeptOf
  <2>5. HandledOnce'
    BY <1>1, <1>2, <1>5, <2>1, <2>4 DEF HandledOnce
  <2>6. FailureForgiven'
    BY <1>1, <1>3, <1>5, <1>6, <2>1, <2>2 DEF FailureForgiven
  <2> QED BY <1>7, <2>2, <2>3, <2>5, <2>6 DEF KeysOnce, Once
<1> QED BY <1>2, <1>8, <1>9

LEMMA DedupeStep ==
  ASSUME TypeOK, DedupeInv, \A d \in Delivery : CommandOf(d), [Next]_vars
  PROVE  DedupeInv'
<1>1. ASSUME NEW d \in Delivery, Handle(d)
      PROVE  DedupeInv'
  BY <1>1, HandlerKinds, ContinuesKeeps, RaisesKeeps, ApologizesKeeps
<1>2. ASSUME UNCHANGED <<inbound, taken, dedupe, pc, answer>>
      PROVE  DedupeInv'
  BY <1>2 DEF DedupeInv, KeysOnce, QueueOf, KeptOf, Kept, HandledOnce, FailureForgiven, dedupe
<1>3. ASSUME NEW d \in Delivery, RunEnds(d)
      PROVE  DedupeInv'
  BY <1>2, <1>3 DEF RunEnds, bus
<1>4. CASE UNCHANGED vars
  BY <1>2, <1>4 DEF vars, dedupe
<1> QED BY <1>1, <1>3, <1>4, DeliverKeeps, DispatchKeeps DEF Next, Handle

-----------------------------------------------------------------------------
(* Locks and threads. *)

RegistryOf(c) == locks[c] # 0 => \E d \in Delivery : mine[d] = locks[c] /\ Conv(d) = c

ThreadInv == LockInv /\ (\A c \in Conversation : RegistryOf(c)) /\ OneThreadPerChat

InLock == Locked \cup {"locking"}

\* A handler that moves outside of the locks.
LEMMA QuietMove ==
  ASSUME TypeOK, ThreadInv, NEW d \in Delivery, NEW to \in Pc,
         pc' = [pc EXCEPT ![d] = to], pc[d] \notin InLock, to \notin InLock,
         CommandOf(d)',
         UNCHANGED <<kind, mode, inbound, creation, thread, made>>
  PROVE  ThreadInv'
<1> USE DEF InLock, Locked, LockInv, ThreadInv, TypeOK, creation, Conv
<1>1. \A e \in Delivery : HoldsAt(e)' /\ CommandOf(e)'
  <2>1. TAKE e \in Delivery
  <2>2. CASE e = d
    BY <2>2 DEF HoldsAt
  <2>3. CASE e # d
    BY <2>3 DEF HoldsAt, CommandOf
  <2> QED BY <2>2, <2>3
<1>2. Mutex'
  BY DEF Mutex
<1>3. ASSUME NEW c \in Conversation
      PROVE  OneLock(c)' /\ MadeOf(c)' /\ ChatOf(c)' /\ RegistryOf(c)'
  <2>1. OneLock(c)' /\ MadeOf(c)' /\ RegistryOf(c)'
    BY DEF OneLock, MadeOf, RegistryOf
  <2>2. ChatOf(c)'
    BY SMTT(30) DEF ChatOf, Unlocked
  <2> QED BY <2>1, <2>2
<1>4. OneThreadPerChat'
  BY DEF OneThreadPerChat, Unlocked
<1> QED BY <1>1, <1>2, <1>3, <1>4

\* A delivery, and its dispatch.
LEMMA DeliverMove ==
  ASSUME TypeOK, ThreadInv, NEW m \in Message, Deliver(m)
  PROVE  ThreadInv'
<1> USE DEF LockInv, ThreadInv, TypeOK, creation, gateway
<1> DEFINE k == Len(inbound) + 1
<1>1. /\ k \in Delivery /\ pc[k] = "none" /\ pc' = [pc EXCEPT ![k] = "queued"]
      /\ Len(inbound') = k /\ \A i \in 1 .. Len(inbound) : inbound'[i] = inbound[i]
      /\ UNCHANGED <<kind, mode, creation, thread, made>>
  <2>1. k \in Delivery
    BY ChannelAssumption DEF Deliver
  <2>2. Len(inbound') = k /\ \A i \in 1 .. Len(inbound) : inbound'[i] = inbound[i]
    BY AppendProperties DEF Deliver
  <2> QED BY <2>1, <2>2 DEF Deliver
<1> HIDE DEF k
<1>2. \A i \in 1 .. Len(inbound) : i \in Delivery /\ Conv(i)' = Conv(i) /\ (Unlocked(i)' <=> Unlocked(i))
  BY <1>1, ChannelAssumption DEF Conv, Unlocked
<1>3. \A e \in Delivery : /\ HoldsAt(e)' /\ CommandOf(e)'
                          /\ mine[e] # 0 => e \in 1 .. Len(inbound)
                          /\ e # k => pc'[e] = pc[e]
                          /\ pc[e] # "none" => e \in 1 .. Len(inbound)
  <2>1. TAKE e \in Delivery
  <2>2. pc[e] # "none" => e \in 1 .. Len(inbound)
    OBVIOUS
  <2>3. mine[e] # 0 => e \in 1 .. Len(inbound)
    BY <2>2 DEF HoldsAt, Locked
  <2>4. CASE e = k
    BY <1>1, <2>2, <2>3, <2>4 DEF HoldsAt, CommandOf, Locked
  <2>5. CASE e # k
    BY <1>1, <2>2, <2>3, <2>5 DEF HoldsAt, CommandOf, Locked
  <2> QED BY <2>4, <2>5
<1>4. Mutex'
  BY <1>1, <1>3 DEF Mutex, Locked
<1>5. ASSUME NEW c \in Conversation
      PROVE  OneLock(c)' /\ MadeOf(c)' /\ ChatOf(c)' /\ RegistryOf(c)'
  <2>1. OneLock(c)'
    BY <1>1, <1>2, <1>3 DEF OneLock
  <2>2. MadeOf(c)'
    <3>1. 1 .. Len(inbound) \subseteq 1 .. Len(inbound')
      BY <1>1 DEF k
    <3> QED BY <1>1, <1>2, <3>1 DEF MadeOf
  <2>3. RegistryOf(c)'
    BY <1>1, <1>2, <1>3 DEF RegistryOf
  <2>4. ChatOf(c)'
    <3>1. SUFFICES ASSUME c \notin frayed, mode[c] # "fire"
                   PROVE  ChatOf(c)'
      BY <1>1 DEF ChatOf
    <3>2. \A t \in made[c] : t \in 1 .. Len(inbound)
      BY <3>1 DEF MadeOf
    <3>3. \A d \in Delivery : pc'[d] = "creating" => pc[d] = "creating" /\ Conv(d)' = Conv(d)
      BY <1>1, <1>2, <1>3
    <3>4. \A t \in 1 .. Len(inbound) : pc[t] = "storing" => pc'[t] = "storing"
      BY <1>1, <1>2
    <3>5. \A t \in made[c] : Unlocked(t)' \/ thread[c] # 0 \/ pc'[t] = "storing"
      BY <1>2, <3>1, <3>2, <3>4 DEF ChatOf
    <3>6. \A d \in Delivery : (pc[d] = "creating" /\ Conv(d) = c)' => \A t \in made[c] : Unlocked(t)'
      BY <1>2, <3>1, <3>2, <3>3 DEF ChatOf
    <3> QED BY <1>1, <3>5, <3>6 DEF ChatOf
  <2> QED BY <2>1, <2>2, <2>3, <2>4
<1>6. OneThreadPerChat'
  <2>1. ASSUME NEW c \in Conversation \ frayed, NEW t \in made[c], NEW u \in made[c]
        PROVE  t = u \/ Unlocked(t)' \/ Unlocked(u)'
    <3>1. CASE mode[c] = "fire"
      BY <3>1 DEF MadeOf
    <3>2. CASE mode[c] # "fire"
      BY <1>2, <3>2 DEF MadeOf, OneThreadPerChat
    <3> QED BY <3>1, <3>2
  <2> QED BY <1>1, <2>1 DEF OneThreadPerChat
<1> QED BY <1>3, <1>4, <1>5, <1>6

LEMMA DispatchMove ==
  ASSUME TypeOK, ThreadInv, \A d \in Delivery : QueueOf(d), Dispatch
  PROVE  ThreadInv'
<1>0. PICK k \in Delivery : k = taken' /\ pc[k] = "queued"
  BY ChannelAssumption DEF Dispatch, TypeOK, QueueOf
<1>1. PICK to \in {"dropped", "checking", "waiting"} : pc' = [pc EXCEPT ![k] = to]
  BY <1>0 DEF Dispatch, FirstPc
<1> QED BY <1>0, <1>1, QuietMove DEF Dispatch, gateway, InLock, Locked, Pc, CommandOf, TypeOK

\* A handler leaves the lock, if it is in one.
LEMMA LeaveMove ==
  ASSUME TypeOK, ThreadInv, NEW d \in Delivery, NEW to \in Pc, pc[d] # "none",
         Leave(d), pc' = [pc EXCEPT ![d] = to], to \notin InLock \cup {"admitting", "opening", "keeping"},
         UNCHANGED <<kind, mode, inbound>>
  PROVE  /\ \A e \in Delivery : HoldsAt(e)' /\ CommandOf(e)'
         /\ Mutex'
         /\ \A c \in Conversation : RegistryOf(c)'
         /\ \A e \in Delivery : mine'[e] # 0 => mine'[e] = mine[e]
         /\ \A c \in Conversation : c # Conv(d) \/ mine[d] = 0 => locks'[c] = locks[c]
<1> USE DEF InLock, Locked, LockInv, ThreadInv, TypeOK, Leave
<1>1. \A e \in Delivery : HoldsAt(e)' /\ CommandOf(e)'
  <2>1. TAKE e \in Delivery
  <2>2. CASE e = d
    BY <2>2 DEF HoldsAt, CommandOf
  <2>3. CASE e # d
    BY <2>3 DEF HoldsAt, CommandOf
  <2> QED BY <2>2, <2>3
<1>2. Mutex'
  BY DEF Mutex
<1>3. Conv(d) \in Conversation
  BY MadeType
<1>4. \A e \in Delivery : Conv(e)' = Conv(e)
  BY DEF Conv
<1>5. ASSUME NEW c \in Conversation
      PROVE  RegistryOf(c)'
  BY <1>3, <1>4 DEF RegistryOf
<1> QED BY <1>1, <1>2, <1>3, <1>5

\* The first handler in a lock, or one that waits for it.
LEMMA FindMove ==
  ASSUME TypeOK, ThreadInv, NEW d \in Delivery, Find(d)
  PROVE  ThreadInv'
<1> USE DEF Locked, LockInv, ThreadInv, TypeOK, gateway, bus
<1>0. pc[d] = "finding" /\ mine[d] = 0 /\ Conv(d) \in Conversation
  BY MadeType DEF Find, HoldsAt
<1>1. CASE thread[Conv(d)] # 0 /\ on' = [on EXCEPT ![d] = thread[Conv(d)]]
           /\ Go(d, "starting") /\ UNCHANGED <<locks, mine>>
  BY <1>0, <1>1, QuietMove DEF Find, Go, InLock, Pc, InSlot, CommandOf, creation
<1>2. CASE thread[Conv(d)] = 0
  <2> DEFINE c == Conv(d)
             lock == IF locks[c] = 0 THEN d ELSE locks[c]
  <2>1. /\ lock \in Delivery /\ locks' = [locks EXCEPT ![c] = lock]
        /\ mine' = [mine EXCEPT ![d] = lock]
        /\ pc' = [pc EXCEPT ![d] = IF Taken(lock) THEN "locking" ELSE "recheck"]
        /\ UNCHANGED <<kind, mode, inbound, thread, made, frayed>>
    BY <1>0, <1>2 DEF Find, Go
  <2>2. locks[c] # 0 => lock = locks[c]
    OBVIOUS
  <2> HIDE DEF lock
  <2>3. \A e \in Delivery : Conv(e)' = Conv(e) /\ (Unlocked(e)' <=> Unlocked(e))
    BY <2>1 DEF Conv, Unlocked
  <2>4. \A e \in Delivery : HoldsAt(e)' /\ CommandOf(e)'
    <3>1. TAKE e \in Delivery
    <3>2. CASE e = d
      BY <1>0, <2>1, <3>2 DEF HoldsAt, CommandOf
    <3>3. CASE e # d
      BY <2>1, <3>3 DEF HoldsAt, CommandOf
    <3> QED BY <3>2, <3>3
  <2>5. Mutex'
    <3>1. CASE Taken(lock)
      BY <2>1, <3>1 DEF Mutex
    <3>2. CASE ~Taken(lock)
      BY <2>1, <3>2 DEF Mutex, Taken
    <3> QED BY <3>1, <3>2
  <2>6. ASSUME NEW x \in Conversation
        PROVE  OneLock(x)' /\ MadeOf(x)' /\ ChatOf(x)' /\ RegistryOf(x)'
    <3>1. RegistryOf(x)'
      <4>1. CASE x = c
        BY <1>0, <2>1, <2>3, <4>1 DEF RegistryOf
      <4>2. CASE x # c
        BY <1>0, <2>1, <2>3, <4>2 DEF RegistryOf
      <4> QED BY <4>1, <4>2
    <3>2. MadeOf(x)'
      BY <2>1 DEF MadeOf, Conv
    <3>3. ChatOf(x)'
      BY <1>0, <2>1, <2>3 DEF ChatOf, Unlocked, Conv
    <3>4. CASE x = c /\ x \notin frayed
      <4>1. \A e \in Delivery : mine[e] # 0 /\ Conv(e) = c => mine[e] = lock
        BY <1>2, <2>2, <3>4 DEF OneLock
      <4>2. \A e \in Delivery : mine'[e] # 0 /\ Conv(e) = c => mine'[e] = lock
        BY <2>1, <4>1
      <4> QED BY <1>0, <2>1, <2>3, <3>1, <3>2, <3>3, <3>4, <4>2 DEF OneLock
    <3>5. CASE x # c \/ x \in frayed
      <4>1. OneLock(x)'
        BY <1>0, <2>1, <2>3, <3>5 DEF OneLock
      <4> QED BY <3>1, <3>2, <3>3, <4>1
    <3> QED BY <3>4, <3>5
  <2>7. OneThreadPerChat'
    BY <2>1 DEF OneThreadPerChat, Unlocked
  <2> QED BY <2>4, <2>5, <2>6, <2>7
<1> QED BY <1>1, <1>2 DEF Find

LEMMA EnterMove ==
  ASSUME TypeOK, ThreadInv, NEW d \in Delivery, EnterLock(d)
  PROVE  ThreadInv'
<1> USE DEF Locked, LockInv, ThreadInv, TypeOK, gateway, bus, creation
<1>1. /\ pc[d] = "locking" /\ pc' = [pc EXCEPT ![d] = "recheck"]
      /\ \A e \in Delivery : mine[e] = mine[d] => pc[e] \notin Locked
      /\ UNCHANGED <<kind, mode, inbound, locks, mine, frayed, thread, made>>
  BY DEF EnterLock, Go
<1>2. \A e \in Delivery : HoldsAt(e)' /\ CommandOf(e)'
  BY <1>1 DEF HoldsAt, CommandOf
<1>3. Mutex'
  BY <1>1 DEF Mutex
<1>4. ASSUME NEW c \in Conversation
      PROVE  OneLock(c)' /\ MadeOf(c)' /\ ChatOf(c)' /\ RegistryOf(c)'
  <2>1. OneLock(c)' /\ MadeOf(c)' /\ RegistryOf(c)'
    BY <1>1 DEF OneLock, MadeOf, RegistryOf, Conv
  <2>2. ChatOf(c)'
    BY <1>1 DEF ChatOf, Unlocked, Conv
  <2> QED BY <2>1, <2>2
<1>5. OneThreadPerChat'
  BY <1>1 DEF OneThreadPerChat, Unlocked
<1> QED BY <1>2, <1>3, <1>4, <1>5

\* Two handlers of a conversation are not inside at once where no creation
\* failed.
LEMMA Alone ==
  ASSUME TypeOK, ThreadInv, NEW d \in Delivery, NEW e \in Delivery,
         {pc[d], pc[e]} \subseteq Locked, Conv(d) = Conv(e), Conv(d) \in Conversation \ frayed
  PROVE  d = e
BY DEF ThreadInv, LockInv, HoldsAt, Mutex, OneLock

LEMMA RecheckMove ==
  ASSUME TypeOK, ThreadInv, NEW d \in Delivery, Recheck(d)
  PROVE  ThreadInv'
<1> USE DEF Locked, LockInv, ThreadInv, TypeOK, gateway, bus, creation
<1>0. pc[d] = "recheck" /\ mine[d] # 0 /\ Conv(d) \in Conversation
  BY MadeType DEF Recheck, HoldsAt
<1>1. CASE /\ thread[Conv(d)] # 0 /\ Leave(d) /\ pc' = [pc EXCEPT ![d] = "starting"]
           /\ UNCHANGED <<kind, mode, inbound, frayed, thread, made>>
  <2>1. /\ \A e \in Delivery : HoldsAt(e)' /\ CommandOf(e)'
        /\ Mutex'
        /\ \A c \in Conversation : RegistryOf(c)'
        /\ \A e \in Delivery : mine'[e] # 0 => mine'[e] = mine[e]
        /\ \A c \in Conversation : c # Conv(d) \/ mine[d] = 0 => locks'[c] = locks[c]
    BY <1>0, <1>1, LeaveMove DEF InLock, Pc, InSlot
  <2>2. ASSUME NEW c \in Conversation
        PROVE  OneLock(c)' /\ MadeOf(c)' /\ ChatOf(c)'
    <3>1. OneLock(c)'
      BY <1>0, <1>1, <2>1, SMTT(30) DEF OneLock, Conv
    <3>2. MadeOf(c)'
      BY <1>1 DEF MadeOf, Conv
    <3>3. ChatOf(c)'
      <4>1. mode[c] # "fire" => \A t \in made[c] : t \in Delivery
        BY ChannelAssumption DEF MadeOf
      <4>2. \A t \in made[c] : Unlocked(t)' <=> Unlocked(t)
        BY <1>1 DEF Unlocked
      <4>3. \A e \in Delivery : pc'[e] = "creating" => pc[e] = "creating" /\ Conv(e)' = Conv(e)
        BY <1>1 DEF Conv
      <4>4. \A e \in Delivery : pc[e] = "storing" => pc'[e] = "storing"
        BY <1>0, <1>1
      <4> QED BY <1>1, <4>1, <4>2, <4>3, <4>4 DEF ChatOf
    <3> QED BY <3>1, <3>2, <3>3
  <2>3. OneThreadPerChat'
    BY <1>1 DEF OneThreadPerChat, Unlocked
  <2> QED BY <2>1, <2>2, <2>3
<1>2. CASE /\ thread[Conv(d)] = 0 /\ pc' = [pc EXCEPT ![d] = "creating"]
           /\ UNCHANGED <<kind, mode, inbound, locks, mine, frayed, thread, made>>
  <2>1. \A e \in Delivery : HoldsAt(e)' /\ CommandOf(e)'
    BY <1>0, <1>2 DEF HoldsAt, CommandOf
  <2>2. Mutex'
    BY <1>0, <1>2 DEF Mutex
  <2>3. ASSUME NEW c \in Conversation
        PROVE  OneLock(c)' /\ MadeOf(c)' /\ ChatOf(c)' /\ RegistryOf(c)'
    <3>1. OneLock(c)' /\ MadeOf(c)' /\ RegistryOf(c)'
      BY <1>2 DEF OneLock, MadeOf, RegistryOf, Conv
    <3>2. ChatOf(c)'
      <4>1. SUFFICES ASSUME c \notin frayed, mode[c] # "fire"
                     PROVE  ChatOf(c)'
        BY <1>2 DEF ChatOf
      <4>2. \A t \in made[c] : t \in Delivery /\ Conv(t) = c
        BY <4>1, ChannelAssumption DEF MadeOf
      <4>3. ASSUME Conv(d) = c, NEW t \in made[c]
            PROVE  Unlocked(t)
        BY <1>0, <1>2, <4>1, <4>2, <4>3, Alone DEF ChatOf
      <4>4. \A t \in made[c] : Unlocked(t)' <=> Unlocked(t)
        BY <1>2 DEF Unlocked
      <4>5. \A t \in made[c] : Unlocked(t) \/ thread[c] # 0 \/ pc'[t] = "storing"
        BY <1>0, <1>2, <4>1 DEF ChatOf
      <4>6. \A e \in Delivery : (pc[e] = "creating" /\ Conv(e) = c)' => \A t \in made[c] : Unlocked(t)
        BY <1>0, <1>2, <4>1, <4>3 DEF ChatOf, Conv
      <4> QED BY <1>2, <4>4, <4>5, <4>6 DEF ChatOf
    <3> QED BY <3>1, <3>2
  <2>4. OneThreadPerChat'
    BY <1>2 DEF OneThreadPerChat, Unlocked
  <2> QED BY <2>1, <2>2, <2>3, <2>4
<1> QED BY <1>1, <1>2 DEF Recheck, Go

\* A new thread of d's conversation that does not belong to the lock, or that
\* is the first of those that do.
LEMMA MadeOneThread ==
  ASSUME TypeOK, ThreadInv, NEW d \in Delivery, Conv(d) \in Conversation, d <= Len(inbound),
         made' = Made(d), UNCHANGED <<kind, mode, inbound>>, frayed \subseteq frayed',
         Conv(d) \notin frayed' /\ mode[Conv(d)] # "fire" =>
           Unlocked(d) \/ \A t \in made[Conv(d)] : Unlocked(t)
  PROVE  OneThreadPerChat' /\ \A c \in Conversation : MadeOf(c)'
<1> USE DEF LockInv, ThreadInv, TypeOK
<1>1. made' = [made EXCEPT ![Conv(d)] = @ \cup {Mint(d)}]
  BY DEF Made
<1>2. Mint(d) = IF mode[Conv(d)] = "fire" THEN Prescribed ELSE d
  BY DEF Mint
<1>3. ASSUME NEW c \in Conversation
      PROVE  MadeOf(c)'
  <2>1. MadeOf(c)
    OBVIOUS
  <2>2. CASE c = Conv(d)
    <3>1. made'[c] = made[c] \cup {Mint(d)}
      BY <1>1, <2>2
    <3> QED BY <1>2, <2>1, <2>2, <3>1 DEF MadeOf, Conv
  <2>3. CASE c # Conv(d)
    BY <1>1, <2>1, <2>3 DEF MadeOf, Conv
  <2> QED BY <2>2, <2>3
<1>4. ASSUME NEW c \in Conversation \ frayed', NEW t \in made'[c], NEW u \in made'[c]
      PROVE  t = u \/ Unlocked(t)' \/ Unlocked(u)'
  <2>1. (Unlocked(t)' <=> Unlocked(t)) /\ (Unlocked(u)' <=> Unlocked(u))
    BY DEF Unlocked
  <2>2. CASE c # Conv(d)
    BY <1>1, <1>4, <2>1, <2>2 DEF OneThreadPerChat
  <2>3. CASE c = Conv(d) /\ mode[c] = "fire"
    BY <1>3, <2>3 DEF MadeOf
  <2>4. CASE c = Conv(d) /\ mode[c] # "fire"
    <3>1. made'[c] = made[c] \cup {d}
      BY <1>1, <1>2, <2>4
    <3> QED BY <2>1, <2>4, <3>1 DEF OneThreadPerChat
  <2> QED BY <2>2, <2>3, <2>4
<1> QED BY <1>3, <1>4 DEF OneThreadPerChat

LEMMA CreateMove ==
  ASSUME TypeOK, ThreadInv, NEW d \in Delivery, Create(d)
  PROVE  ThreadInv'
<1> USE DEF Locked, LockInv, ThreadInv, TypeOK, creation, bus
<1>0. /\ pc[d] \in {"creating", "keeping"} /\ Conv(d) \in Conversation /\ d <= Len(inbound)
      /\ pc' = [pc EXCEPT ![d] = IF pc[d] = "creating" THEN "storing" ELSE "keeping"]
      /\ made' = Made(d) /\ UNCHANGED <<kind, mode, inbound, locks, mine, frayed, thread>>
  BY MadeType DEF Create, Go
<1>1. \A e \in Delivery : Conv(e)' = Conv(e) /\ (Unlocked(e)' <=> Unlocked(e))
  BY <1>0 DEF Conv, Unlocked
<1>2. pc[d] = "keeping" => Unlocked(d)
  BY DEF CommandOf, Unlocked
<1>3. \A e \in Delivery : HoldsAt(e)' /\ CommandOf(e)'
  BY <1>0 DEF HoldsAt, CommandOf
<1>4. Mutex'
  BY <1>0 DEF Mutex
<1>5. OneThreadPerChat' /\ \A c \in Conversation : MadeOf(c)'
  BY <1>0, <1>2, MadeOneThread DEF ChatOf
<1>6. ASSUME NEW c \in Conversation
      PROVE  OneLock(c)' /\ RegistryOf(c)'
  BY <1>0, <1>1 DEF OneLock, RegistryOf
<1>7. ASSUME NEW c \in Conversation, c \notin frayed, mode[c] # "fire"
      PROVE  ChatOf(c)'
  <2>1. \A t \in made[c] : t \in Delivery /\ Conv(t) = c
    BY <1>7, ChannelAssumption DEF MadeOf
  <2>2. made'[c] = IF c = Conv(d) THEN made[c] \cup {d} ELSE made[c]
    BY <1>0, <1>7 DEF Made, Mint
  <2>3. \A t \in made'[c] : Unlocked(t)' \/ thread[c] # 0 \/ pc'[t] = "storing"
    BY <1>0, <1>1, <1>2, <1>7, <2>1, <2>2 DEF ChatOf
  <2>4. ASSUME NEW e \in Delivery, pc'[e] = "creating", Conv(e) = c
        PROVE  \A t \in made'[c] : Unlocked(t)
    <3>1. pc[e] = "creating" /\ e # d
      BY <1>0, <2>4
    <3>2. \A t \in made[c] : Unlocked(t)
      BY <1>7, <2>4, <3>1 DEF ChatOf
    <3>3. c = Conv(d) => pc[d] = "keeping"
      BY <1>0, <1>7, <2>4, <3>1, Alone
    <3> QED BY <1>2, <2>2, <3>2, <3>3
  <2> QED BY <1>0, <1>1, <2>1, <2>2, <2>3, <2>4 DEF ChatOf
<1>8. \A c \in Conversation : ChatOf(c)'
  BY <1>0, <1>7 DEF ChatOf
<1> QED BY <1>3, <1>4, <1>5, <1>6, <1>8

LEMMA StoreMove ==
  ASSUME TypeOK, ThreadInv, NEW d \in Delivery, Store(d)
  PROVE  ThreadInv'
<1> USE DEF Locked, LockInv, ThreadInv, TypeOK, gateway, bus
<1>0. /\ pc[d] \in {"storing", "keeping"} /\ Conv(d) \in Conversation /\ on[d] # 0
      /\ thread' = [thread EXCEPT ![Conv(d)] = on[d]] /\ Leave(d)
      /\ UNCHANGED <<kind, mode, inbound, frayed, made>>
  BY MadeType DEF Store
<1>1. PICK to \in {"replying", "setting", "starting"} : pc' = [pc EXCEPT ![d] = to]
  BY DEF Store, Go
<1>2. /\ \A e \in Delivery : HoldsAt(e)' /\ CommandOf(e)'
      /\ Mutex'
      /\ \A c \in Conversation : RegistryOf(c)'
      /\ \A e \in Delivery : mine'[e] # 0 => mine'[e] = mine[e]
      /\ \A c \in Conversation : c # Conv(d) \/ mine[d] = 0 => locks'[c] = locks[c]
  BY <1>0, <1>1, LeaveMove DEF InLock, Pc, InSlot
<1>3. \A e \in Delivery : Conv(e)' = Conv(e) /\ (Unlocked(e)' <=> Unlocked(e))
  BY <1>0 DEF Conv, Unlocked
<1>4. ASSUME NEW c \in Conversation
      PROVE  OneLock(c)' /\ MadeOf(c)'
  <2>1. c # Conv(d) => thread'[c] = thread[c]
    BY <1>0
  <2>2. thread'[Conv(d)] # 0
    BY <1>0
  <2>3. OneLock(c)'
    BY <1>0, <1>2, <1>3, <2>1, <2>2 DEF OneLock
  <2> QED BY <1>0, <2>3 DEF MadeOf, Conv
<1>5. ASSUME NEW c \in Conversation, c \notin frayed, mode[c] # "fire"
      PROVE  ChatOf(c)'
  <2>1. \A t \in made[c] : t \in Delivery /\ Conv(t) = c
    BY <1>5, ChannelAssumption DEF MadeOf
  <2>2. \A t \in made[c] : Unlocked(t)' \/ thread'[c] # 0 \/ pc'[t] = "storing"
    BY <1>0, <1>1, <1>3, <1>5, <2>1 DEF ChatOf
  <2>3. \A e \in Delivery : pc'[e] = "creating" => pc[e] = "creating"
    BY <1>1
  <2> QED BY <1>0, <1>3, <1>5, <2>1, <2>2, <2>3 DEF ChatOf
<1>6. \A c \in Conversation : ChatOf(c)'
  BY <1>0, <1>5 DEF ChatOf
<1>7. OneThreadPerChat'
  BY <1>0 DEF OneThreadPerChat, Unlocked
<1> QED BY <1>2, <1>4, <1>6, <1>7

\* A failure: under the lock it frays the conversation, otherwise the thread
\* that may be left behind is a command's.
LEMMA FailureMove ==
  ASSUME TypeOK, ThreadInv, NEW d \in Delivery, Leave(d), pc' = [pc EXCEPT ![d] = "apologizing"],
         pc[d] \in Locked \cup {"keeping"}, made' \in {made, Made(d)},
         frayed' = IF mine[d] = 0 THEN frayed ELSE frayed \cup {Conv(d)},
         UNCHANGED <<kind, mode, inbound, thread>>
  PROVE  ThreadInv'
<1> USE DEF Locked, LockInv, ThreadInv, TypeOK
<1>0. Conv(d) \in Conversation /\ d <= Len(inbound) /\ frayed \subseteq frayed'
  BY MadeType
<1>1. /\ \A e \in Delivery : HoldsAt(e)' /\ CommandOf(e)'
      /\ Mutex'
      /\ \A c \in Conversation : RegistryOf(c)'
      /\ \A e \in Delivery : mine'[e] # 0 => mine'[e] = mine[e]
      /\ \A c \in Conversation : c # Conv(d) \/ mine[d] = 0 => locks'[c] = locks[c]
  BY LeaveMove DEF InLock, Pc, InSlot
<1>2. \A e \in Delivery : Conv(e)' = Conv(e) /\ (Unlocked(e)' <=> Unlocked(e))
  BY DEF Conv, Unlocked
<1>3. Conv(d) \notin frayed' => pc[d] = "keeping" /\ Unlocked(d) /\ mine[d] = 0
  BY DEF HoldsAt, CommandOf, Unlocked
<1>4. OneThreadPerChat' /\ \A c \in Conversation : MadeOf(c)'
  <2>1. CASE made' = Made(d)
    BY <1>0, <1>3, <2>1, MadeOneThread
  <2>2. CASE made' = made
    BY <1>0, <2>2 DEF OneThreadPerChat, MadeOf, Unlocked, Conv
  <2> QED BY <2>1, <2>2
<1>5. ASSUME NEW c \in Conversation
      PROVE  OneLock(c)'
  BY <1>0, <1>1, <1>2, <1>3 DEF OneLock
<1>6. ASSUME NEW c \in Conversation, c \notin frayed', mode[c] # "fire"
      PROVE  ChatOf(c)'
  <2>1. \A t \in made[c] : t \in Delivery /\ Conv(t) = c
    BY <1>6, ChannelAssumption DEF MadeOf
  <2>2. \A t \in made'[c] : t \in made[c] \/ (t = d /\ c = Conv(d))
    BY <1>0, <1>6 DEF Made, Mint
  <2>3. \A t \in made'[c] : Unlocked(t)' \/ thread[c] # 0 \/ pc'[t] = "storing"
    <3>1. TAKE t \in made'[c]
    <3>2. CASE t = d
      BY <1>0, <1>2, <1>3, <1>6, <2>1, <2>2, <3>2 DEF ChatOf
    <3>3. CASE t # d
      BY <1>0, <1>2, <1>6, <2>1, <2>2, <3>3 DEF ChatOf
    <3> QED BY <3>2, <3>3
  <2>4. \A e \in Delivery : pc'[e] = "creating" => pc[e] = "creating"
    OBVIOUS
  <2>5. \A e \in Delivery : pc'[e] = "creating" /\ Conv(e) = c => \A t \in made'[c] : Unlocked(t)
    BY <1>0, <1>3, <1>6, <2>2, <2>4 DEF ChatOf
  <2> QED BY <1>0, <1>2, <2>1, <2>2, <2>3, <2>5 DEF ChatOf
<1>7. \A c \in Conversation : ChatOf(c)'
  BY <1>6 DEF ChatOf
<1> QED BY <1>1, <1>4, <1>5, <1>7

\* The steps of a handler, most of which have nothing to do with locks.
LEMMA HandlerMove ==
  ASSUME TypeOK, ThreadInv, NEW d \in Delivery, Handle(d)
  PROVE  ThreadInv'
<1> USE DEF Pc, InSlot, InLock, Locked, bus, gateway, creation, Go
<1>0. CommandOf(d) /\ HoldsAt(d)
  BY DEF ThreadInv, LockInv
<1>1. CASE Admit(d)
  <2>1. kind[inbound[d]] \in Kind
    BY <1>1 DEF Admit, TypeOK
  <2>2. PICK to \in {"waiting", "finding", "opening", "keeping", "replying", "done"} :
          /\ pc' = [pc EXCEPT ![d] = to]
          /\ to = "opening" => kind[inbound[d]] = "goal"
          /\ to = "keeping" => kind[inbound[d]] = "new"
    <3>1. CASE pc[d] = "checking" /\ Go(d, "waiting")
      BY <3>1
    <3>2. CASE Reply(d, "rejected")
      BY <3>2 DEF Reply
    <3>3. CASE pc[d] = "admitting"
               /\ Go(d, CASE kind[inbound[d]] = "skill" -> "finding"
                          [] kind[inbound[d]] = "goal"  -> "opening"
                          [] kind[inbound[d]] = "new"   -> "keeping"
                          [] kind[inbound[d]] = "help"  -> "replying")
      <4>1. kind[inbound[d]] \in {"skill", "goal", "new", "help"}
        BY <1>0, <2>1, <3>3 DEF CommandOf, Kind
      <4> QED BY <3>3, <4>1
    <3> QED BY <1>1, <3>1, <3>2, <3>3 DEF Admit
  <2>3. CommandOf(d)'
    BY <1>1, <2>2 DEF Admit, CommandOf, TypeOK
  <2> QED BY <1>1, <2>2, <2>3, QuietMove DEF Admit
<1>2. CASE TakeSlot(d)
  <2>1. PICK to \in {"finding", "admitting"} :
          pc' = [pc EXCEPT ![d] = to] /\ (to = "admitting" => kind[inbound[d]] # "chat")
    BY <1>2 DEF TakeSlot
  <2>2. CommandOf(d)'
    BY <1>2, <2>1 DEF TakeSlot, CommandOf, TypeOK
  <2> QED BY <1>2, <2>1, <2>2, QuietMove DEF TakeSlot
<1>3. CASE OpenGoal(d)
  <2>1. PICK to \in {"setting", "keeping"} : pc' = [pc EXCEPT ![d] = to]
    BY <1>3 DEF OpenGoal
  <2>2. CommandOf(d)'
    BY <1>0, <1>3, <2>1 DEF OpenGoal, CommandOf, TypeOK
  <2> QED BY <1>3, <2>1, <2>2, QuietMove DEF OpenGoal
<1>4. ASSUME NEW to \in {"finding", "replying", "done", "awaiting", "declining", "refusing", "apologizing"},
             pc' = [pc EXCEPT ![d] = to], pc[d] \notin InLock,
             UNCHANGED <<kind, mode, inbound, creation, thread, made>>
      PROVE  ThreadInv'
  <2>1. CommandOf(d)'
    BY <1>4 DEF CommandOf, TypeOK
  <2> QED BY <1>4, <2>1, QuietMove
<1>5. CASE SetGoal(d)
  BY <1>4, <1>5 DEF SetGoal
<1>6. CASE Start(d)
  BY <1>4, <1>6 DEF Start, Reply
<1>7. CASE Decline(d)
  BY <1>4, <1>7 DEF Decline
<1>8. CASE Refused(d)
  BY <1>4, <1>8 DEF Refused, Reply
<1>9. CASE Deliverable(d)
  BY <1>4, <1>9 DEF Deliverable, Reply
<1>10. CASE Say(d)
  BY <1>4, <1>10 DEF Say, Reply
<1>11. CASE RunFails(d)
  BY <1>4, <1>11 DEF RunFails, Reply, Raise
<1>12. CASE CreateFails(d)
  BY <1>12, FailureMove DEF CreateFails, Raise
<1>13. CASE LookupFails(d)
  <2>1. CASE pc[d] = "recheck"
    <3>1. mine[d] # 0
      BY <1>0, <2>1 DEF HoldsAt
    <3> QED BY <1>13, <2>1, <3>1, FailureMove DEF LookupFails, Raise
  <2>2. CASE pc[d] \in {"apologizing", "declining"}
    BY <1>4, <1>13, <2>2 DEF LookupFails, Reply
  <2>3. CASE pc[d] \in {"checking", "admitting", "refusing", "replying", "finding", "opening"}
    <3>1. mine[d] = 0
      BY <1>0, <2>3 DEF HoldsAt
    <3>2. UNCHANGED <<locks, mine, frayed>>
      BY <1>13, <2>3, <3>1 DEF LookupFails, Leave, TypeOK
    <3> QED BY <1>4, <1>13, <2>3, <3>2 DEF LookupFails, Raise
  <2> QED BY <1>13, <2>1, <2>2, <2>3 DEF LookupFails
<1> QED
  BY <1>1, <1>2, <1>3, <1>5, <1>6, <1>7, <1>8, <1>9, <1>10, <1>11, <1>12, <1>13,
     FindMove, EnterMove, RecheckMove, CreateMove, StoreMove DEF Handle, Work

LEMMA ThreadStep ==
  ASSUME TypeOK, ThreadInv, \A d \in Delivery : QueueOf(d), [Next]_vars
  PROVE  ThreadInv'
<1>1. ASSUME UNCHANGED <<kind, mode, inbound, pc, creation, thread, made>>
      PROVE  ThreadInv'
  BY <1>1 DEF ThreadInv, LockInv, HoldsAt, CommandOf, Mutex, OneLock, MadeOf, ChatOf, RegistryOf,
              OneThreadPerChat, Unlocked, Conv, creation
<1>2. ASSUME NEW d \in Delivery, RunEnds(d)
      PROVE  ThreadInv'
  BY <1>1, <1>2 DEF RunEnds, bus
<1>3. CASE UNCHANGED vars
  BY <1>1, <1>3 DEF vars, creation
<1> QED BY <1>2, <1>3, DeliverMove, DispatchMove, HandlerMove DEF Next, Handle

-----------------------------------------------------------------------------
(* The theorems. *)

LEMMA InvInit == Init => TypeOK /\ DedupeInv /\ ThreadInv
<1> SUFFICES ASSUME Init
             PROVE  TypeOK /\ DedupeInv /\ ThreadInv
  OBVIOUS
<1> USE DEF Init
<1>1. TypeOK
  BY ChannelAssumption DEF TypeOK, Pc, Answer, Prescribed
<1>2. DedupeInv
  BY DEF DedupeInv, KeysOnce, QueueOf, KeptOf, HandledOnce, FailureForgiven, Kept, InSlot, Locked, Range
<1>3. ThreadInv
  BY DEF ThreadInv, LockInv, HoldsAt, CommandOf, Mutex, OneLock, MadeOf, ChatOf, RegistryOf,
         OneThreadPerChat, Locked
<1> QED BY <1>1, <1>2, <1>3

LEMMA InvStep ==
  TypeOK /\ DedupeInv /\ ThreadInv /\ [Next]_vars => (TypeOK /\ DedupeInv /\ ThreadInv)'
BY TypeStep, DedupeStep, ThreadStep DEF DedupeInv, ThreadInv, LockInv

LEMMA InvHolds == Spec => [](TypeOK /\ DedupeInv /\ ThreadInv)
BY InvInit, InvStep, PTL DEF Spec

\* No message is handled twice, and none is turned away for an attempt that
\* failed, unless its key was forgotten.
THEOREM Deduplication == Spec => []DedupeOK
<1>1. DedupeInv => DedupeOK
  BY DEF DedupeInv, DedupeOK
<1> QED BY <1>1, InvHolds, PTL

\* The registry of locks holds the locks of handlers at work only.
THEOREM RegistryBounded == Spec => []RegistryOK
<1>1. TypeOK /\ ThreadInv => RegistryOK
  BY DEF ThreadInv, RegistryOf, RegistryOK
<1> QED BY <1>1, InvHolds, PTL

\* The chats of a conversation share a thread, unless a creation failed under
\* the lock or a command made one without it.
THEOREM ChatsShareThread == Spec => []OneThreadPerChat
<1>1. ThreadInv => OneThreadPerChat
  BY DEF ThreadInv
<1> QED BY <1>1, InvHolds, PTL
=============================================================================
