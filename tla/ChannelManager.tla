--------------------------- MODULE ChannelManager ---------------------------
(***************************************************************************)
(* IM channels (app/channels): the message bus, the dispatch loop with its *)
(* deduplication of redeliveries, the handlers of chats and commands, and  *)
(* the mapping of conversations to threads of the gateway.                 *)
(*                                                                         *)
(* Deliveries are numbered in the order of the inbound queue; the handler  *)
(* of a delivery and a lock it created carry its number.  All handlers run *)
(* on one event loop: a step is what runs between two awaits, except that  *)
(* a read of the mapping is one step with what follows it.  A thread has   *)
(* the number of the delivery it was made for.                             *)
(*                                                                         *)
(* Left out: what runs answer, the deltas of a streaming reply, files,     *)
(* metadata of threads, and the end of the process, which forgets the      *)
(* queue, the handlers and the recent keys.                                *)
(***************************************************************************)
EXTENDS Naturals, Sequences, FiniteSets, Functions

CONSTANTS
    Message,        \* what the provider may deliver, by its stable id
    Conversation,   \* channel, chat and topic
    ConversationOf,
    MaxConcurrency, \* max_concurrency
    MaxDeliveries,  \* bound: deliveries and redeliveries
    MaxFaults       \* bound: calls of the gateway or of the store that fail

ASSUME ChannelAssumption ==
    /\ ConversationOf \in [Message -> Conversation]
    /\ MaxConcurrency \in Nat \ {0}
    /\ {MaxDeliveries, MaxFaults} \subseteq Nat

VARIABLES
    kind,       \* per message, what it asks for
    mode,       \* per conversation, how its channel runs a chat
    inbound,    \* the messages delivered so far
    taken,      \* how many of them the dispatch loop took
    recent,     \* _recent_inbound_events, oldest first
    pc,         \* per delivery, where its handler is
    on,         \* per delivery, the thread its handler found or made, or 0
    locks,      \* _thread_create_locks: per conversation, a lock, or 0
    mine,       \* per delivery, the lock it holds or waits for, or 0
    thread,     \* per conversation, the stored thread, or 0
    made,       \* per conversation, the threads the gateway has for it
    runs,       \* deliveries whose run is active in the gateway
    answer,     \* per delivery, the final reply
    forgotten,  \* messages whose key expired or overflowed
    frayed,     \* conversations in which a creation failed under its lock
    faults

dedupe == <<recent, forgotten>>
bus == <<kind, mode, inbound, taken>>
creation == <<locks, mine, frayed>>
gateway == <<made, runs>>
vars == <<kind, mode, inbound, taken, recent, pc, on, locks, mine, thread, made,
          runs, answer, forgotten, frayed, faults>>

Delivery == 1 .. MaxDeliveries

\* "skill": /bootstrap and skills, commands that continue as a chat.
Kind == {"chat", "skill", "goal", "new", "help"}

\* runs.wait, runs.stream and runs.create.
Mode == {"wait", "stream", "fire"}

Locked == {"recheck", "creating", "storing"}
InSlot == Locked \cup {"admitting", "finding", "locking", "opening", "keeping",
                       "setting", "starting", "awaiting", "refusing", "replying"}
Pc == InSlot \cup {"none", "queued", "dropped", "checking", "waiting", "declining",
               "apologizing", "done"}

\* Of a webhook, the run posts the answer itself.  The last two were never sent:
\* the lookup failed that precedes an apology, or a refusal.
Answer == {"none", "result", "partial", "busy", "error", "rejected", "reply", "posted",
           "silent", "unheard"}

Conv(d) == ConversationOf[inbound[d]]

Init ==
    /\ kind \in [Message -> Kind]
    /\ mode \in [Conversation -> Mode]
    /\ inbound = <<>> /\ taken = 0
    /\ recent = <<>> /\ forgotten = {}
    /\ pc = [d \in Delivery |-> "none"]
    /\ on = [d \in Delivery |-> 0]
    /\ mine = [d \in Delivery |-> 0]
    /\ answer = [d \in Delivery |-> "none"]
    /\ locks = [c \in Conversation |-> 0]
    /\ thread = [c \in Conversation |-> 0]
    /\ made = [c \in Conversation |-> {}]
    /\ runs = {} /\ frayed = {}
    /\ faults = 0

Fault == faults < MaxFaults /\ faults' = faults + 1

-----------------------------------------------------------------------------
(* Delivery and dispatch. *)

\* publish_inbound, for a message or for the provider's redelivery of it.
Deliver(m) ==
    /\ Len(inbound) < MaxDeliveries
    /\ inbound' = Append(inbound, m)
    /\ pc' = [pc EXCEPT ![Len(inbound) + 1] = "queued"]
    /\ UNCHANGED <<kind, mode, taken, dedupe, on, creation, thread, gateway, answer, faults>>

\* A chat is checked before it takes a slot, a command once it has one.
FirstPc(m) == IF kind[m] = "chat" THEN "checking" ELSE "waiting"

\* What is left when the n oldest keys are older than the TTL, or too many.
Recent(n) == SubSeq(recent, n + 1, Len(recent))

\* _dispatch_loop and _is_duplicate_inbound.
Dispatch ==
    /\ taken < Len(inbound)
    /\ taken' = taken + 1
    /\ \E n \in 0 .. Len(recent) :
        LET m == inbound[taken'] IN
        /\ forgotten' = forgotten \cup {recent[i] : i \in 1 .. n}
        /\ \/ /\ m \in Range(Recent(n))
              /\ recent' = Recent(n)
              /\ pc' = [pc EXCEPT ![taken'] = "dropped"]
           \/ /\ m \notin Range(Recent(n))
              /\ recent' = Append(Recent(n), m)
              /\ pc' = [pc EXCEPT ![taken'] = FirstPc(m)]
    /\ UNCHANGED <<kind, mode, inbound, on, creation, thread, gateway, answer, faults>>

-----------------------------------------------------------------------------
(* How a handler goes on. *)

Go(d, to) == pc' = [pc EXCEPT ![d] = to]

\* The final outbound message.
Reply(d, what) == Go(d, "done") /\ answer' = [answer EXCEPT ![d] = what]

\* _recent_inbound_events without the key m; it has a key once at most.
Place(m) == CHOOSE i \in DOMAIN recent : recent[i] = m

Without(m) ==
    IF m \in Range(recent)
    THEN SubSeq(recent, 1, Place(m) - 1) \o SubSeq(recent, Place(m) + 1, Len(recent))
    ELSE recent

\* The same without the release of the key (mutation).
RaiseKeeping(d) == Go(d, "apologizing") /\ UNCHANGED <<recent, answer, forgotten>>

\* The same without a word to the sender (mutation).
RaiseUnanswered(d) == Go(d, "done") /\ recent' = Without(inbound[d]) /\ UNCHANGED <<answer, forgotten>>

\* An exception leaves the slot and releases the key, so that a redelivery may
\* be handled.
Raise(d) ==
    /\ Go(d, "apologizing")
    /\ recent' = Without(inbound[d])
    /\ UNCHANGED <<answer, forgotten>>

\* The same with the registry left alone (mutation).
LeaveQuietly(d) == mine' = [mine EXCEPT ![d] = 0] /\ UNCHANGED locks

\* Leaving the lock drops the registry's entry, whichever lock that is.
Leave(d) ==
    /\ mine' = [mine EXCEPT ![d] = 0]
    /\ locks' = IF mine[d] = 0 THEN locks ELSE [locks EXCEPT ![Conv(d)] = 0]

Stays == UNCHANGED <<dedupe, answer, faults>>

-----------------------------------------------------------------------------
(* Admission. *)

\* The sender may have no binding (any more): nothing is created for him.
Admit(d) ==
    /\ \/ pc[d] = "checking" /\ Go(d, "waiting") /\ UNCHANGED answer
       \/ /\ pc[d] = "admitting"
          /\ Go(d, CASE kind[inbound[d]] = "skill" -> "finding"
                     [] kind[inbound[d]] = "goal"  -> "opening"
                     [] kind[inbound[d]] = "new"   -> "keeping"
                     [] kind[inbound[d]] = "help"  -> "replying")
          /\ UNCHANGED answer
       \/ pc[d] \in {"checking", "admitting"} /\ Reply(d, "rejected")
    /\ UNCHANGED <<bus, dedupe, on, creation, thread, gateway, faults>>

Slots == Cardinality({d \in Delivery : pc[d] \in InSlot})

TakeSlot(d) ==
    /\ pc[d] = "waiting"
    /\ Slots < MaxConcurrency
    /\ Go(d, IF kind[inbound[d]] = "chat" THEN "finding" ELSE "admitting")
    /\ UNCHANGED <<bus, on, creation, thread, gateway>>
    /\ Stays

-----------------------------------------------------------------------------
(* The thread of a conversation. *)

\* Somebody is in the lock, or waits for it.
Taken(lock) == \E e \in Delivery : mine[e] = lock

\* The mapping, and if it is missing the conversation's lock.
Find(d) ==
    /\ pc[d] = "finding"
    /\ LET c == Conv(d)
           lock == IF locks[c] = 0 THEN d ELSE locks[c]
       IN  \/ /\ thread[c] # 0
              /\ on' = [on EXCEPT ![d] = thread[c]]
              /\ Go(d, "starting")
              /\ UNCHANGED <<locks, mine>>
           \/ /\ thread[c] = 0
              /\ locks' = [locks EXCEPT ![c] = lock]
              /\ mine' = [mine EXCEPT ![d] = lock]
              /\ Go(d, IF Taken(lock) THEN "locking" ELSE "recheck")
              /\ UNCHANGED on
    /\ UNCHANGED <<bus, thread, gateway, frayed>>
    /\ Stays

EnterLock(d) ==
    /\ pc[d] = "locking"
    /\ \A e \in Delivery : mine[e] = mine[d] => pc[e] \notin Locked
    /\ Go(d, "recheck")
    /\ UNCHANGED <<bus, on, creation, thread, gateway>>
    /\ Stays

\* The same without the second lookup (mutation).
RecheckNot(d) ==
    /\ pc[d] = "recheck"
    /\ Go(d, "creating")
    /\ UNCHANGED <<bus, on, creation, thread, gateway>>
    /\ Stays

\* A concurrent message may have created the thread.
Recheck(d) ==
    /\ pc[d] = "recheck"
    /\ \/ /\ thread[Conv(d)] # 0
          /\ on' = [on EXCEPT ![d] = thread[Conv(d)]]
          /\ Leave(d) /\ Go(d, "starting")
       \/ /\ thread[Conv(d)] = 0
          /\ Go(d, "creating")
          /\ UNCHANGED <<on, locks, mine>>
    /\ UNCHANGED <<bus, thread, gateway, frayed>>
    /\ Stays

\* /goal creates a thread if it finds none; it takes no lock.
OpenGoal(d) ==
    /\ pc[d] = "opening"
    /\ on' = [on EXCEPT ![d] = thread[Conv(d)]]
    /\ Go(d, IF thread[Conv(d)] # 0 THEN "setting" ELSE "keeping")
    /\ UNCHANGED <<bus, creation, thread, gateway>>
    /\ Stays

\* A webhook prescribes the id of its thread, and creating it again returns it.
Prescribed == MaxDeliveries + 1
Mint(d) == IF mode[Conv(d)] = "fire" THEN Prescribed ELSE d
Made(d) == [made EXCEPT ![Conv(d)] = @ \cup {Mint(d)}]

\* threads.create; "keeping" is the call of a command, outside of any lock.
Create(d) ==
    /\ pc[d] \in {"creating", "keeping"} /\ on[d] = 0
    /\ on' = [on EXCEPT ![d] = Mint(d)]
    /\ made' = Made(d)
    /\ Go(d, IF pc[d] = "creating" THEN "storing" ELSE "keeping")
    /\ UNCHANGED <<bus, creation, thread, runs>>
    /\ Stays

\* _store_thread_id.
Store(d) ==
    /\ pc[d] \in {"storing", "keeping"} /\ on[d] # 0
    /\ thread' = [thread EXCEPT ![Conv(d)] = on[d]]
    /\ Leave(d)
    /\ Go(d, CASE kind[inbound[d]] = "new"  -> "replying"
               [] kind[inbound[d]] = "goal" /\ pc[d] = "keeping" -> "setting"
               [] OTHER -> "starting")
    /\ UNCHANGED <<bus, on, gateway, frayed>>
    /\ Stays

\* The gateway or the store fails, perhaps after the thread was made, or the
\* store finds that another row was inserted meanwhile.
CreateFails(d) ==
    /\ pc[d] \in {"creating", "storing", "keeping"}
    /\ Fault
    /\ made' \in {made, Made(d)}
    /\ frayed' = IF mine[d] = 0 THEN frayed ELSE frayed \cup {Conv(d)}
    /\ Leave(d)
    /\ Raise(d)
    /\ UNCHANGED <<bus, on, thread, runs>>

\* The goal is put, and the command goes on as a chat; or the put fails.
SetGoal(d) ==
    /\ pc[d] = "setting"
    /\ \/ Go(d, "finding") /\ UNCHANGED faults
       \/ Go(d, "replying") /\ Fault
    /\ UNCHANGED <<bus, dedupe, on, creation, thread, gateway, answer>>

-----------------------------------------------------------------------------
(* The run, which the gateway rejects while another is active on its thread. *)

Busy(d) == \E e \in runs : Conv(e) = Conv(d) /\ on[e] = on[d]

Start(d) ==
    /\ pc[d] = "starting" /\ ~Busy(d)
    /\ runs' = runs \cup {d}
    /\ IF mode[Conv(d)] = "fire" THEN Reply(d, "posted") ELSE Go(d, "awaiting") /\ UNCHANGED answer
    /\ UNCHANGED <<bus, dedupe, on, creation, thread, made, faults>>

Refused(d) ==
    /\ pc[d] = "starting" /\ Busy(d)
    /\ IF mode[Conv(d)] = "stream" THEN Reply(d, "busy") ELSE Go(d, "refusing") /\ UNCHANGED answer
    /\ UNCHANGED <<bus, dedupe, on, creation, thread, gateway, faults>>

\* The session of the conversation, or the skill, is not configured: an answer
\* outside of the slot, and the key is kept.
Decline(d) ==
    /\ \/ pc[d] = "starting"
       \/ pc[d] = "admitting" /\ kind[inbound[d]] = "skill"
    /\ Go(d, "declining")
    /\ UNCHANGED <<bus, on, creation, thread, gateway>>
    /\ Stays

RunEnds(d) ==
    /\ d \in runs
    /\ runs' = runs \ {d}
    /\ UNCHANGED <<bus, dedupe, pc, on, creation, thread, made, answer, faults>>

Deliverable(d) ==
    /\ pc[d] = "awaiting" /\ d \notin runs
    /\ Reply(d, "result")
    /\ UNCHANGED <<bus, dedupe, on, creation, thread, gateway, faults>>

\* A failure while the chat is prepared (its channel's policy, its files), or of
\* the call that starts the run or of the connection that waits for it: that one
\* a streaming handler answers itself, and it keeps the key.
RunFails(d) ==
    /\ pc[d] \in {"starting", "awaiting"}
    /\ Fault
    /\ \/ pc[d] = "starting" /\ Raise(d) /\ UNCHANGED runs
       \/ /\ runs' \in {runs, IF pc[d] = "starting" /\ ~Busy(d) THEN runs \cup {d} ELSE runs}
          /\ IF mode[Conv(d)] = "stream" THEN Reply(d, "partial") /\ UNCHANGED dedupe ELSE Raise(d)
    /\ UNCHANGED <<bus, on, creation, thread, made>>

-----------------------------------------------------------------------------
(* Replies that look the thread up. *)

Say(d) ==
    /\ \/ pc[d] = "refusing" /\ Reply(d, "busy")
       \/ pc[d] = "replying" /\ Reply(d, "reply")
       \/ pc[d] = "apologizing" /\ Reply(d, "error")
       \/ pc[d] = "declining" /\ Reply(d, "rejected")
    /\ UNCHANGED <<bus, dedupe, on, creation, thread, gateway, faults>>

\* The lookup of the sender's binding or of the mapping fails; nobody catches it
\* once more when it was to answer an exception, and then nothing is sent.
LookupFails(d) ==
    /\ Fault
    /\ \/ pc[d] \in {"checking", "admitting", "refusing", "replying", "finding", "recheck", "opening"}
          /\ Leave(d) /\ Raise(d)
          /\ frayed' = IF pc[d] = "recheck" THEN frayed \cup {Conv(d)} ELSE frayed
       \/ /\ pc[d] \in {"apologizing", "declining"}
          /\ Reply(d, IF pc[d] = "apologizing" THEN "silent" ELSE "unheard")
          /\ UNCHANGED <<dedupe, creation>>
    /\ UNCHANGED <<bus, on, thread, gateway>>

Work(d) ==
    \/ Admit(d) \/ TakeSlot(d)
    \/ Find(d) \/ EnterLock(d) \/ Recheck(d) \/ OpenGoal(d) \/ Create(d) \/ Store(d) \/ SetGoal(d)
    \/ Start(d) \/ Decline(d) \/ Refused(d) \/ Deliverable(d) \/ Say(d)

Next ==
    \/ \E m \in Message : Deliver(m)
    \/ Dispatch
    \/ \E d \in Delivery : Work(d) \/ RunEnds(d) \/ CreateFails(d) \/ RunFails(d) \/ LookupFails(d)

Spec == Init /\ [][Next]_vars

\* While a handler is ready the loop resumes one, and the gateway ends runs.
Fairness ==
    /\ WF_vars(Dispatch)
    /\ WF_vars(\E d \in Delivery : Work(d))
    /\ WF_vars(\E d \in Delivery : RunEnds(d))

FairSpec == Spec /\ Fairness

-----------------------------------------------------------------------------
(* Properties. *)

TypeOK ==
    /\ kind \in [Message -> Kind] /\ mode \in [Conversation -> Mode]
    /\ inbound \in Seq(Message) /\ Len(inbound) <= MaxDeliveries
    /\ taken \in 0 .. Len(inbound)
    /\ recent \in Seq(Message) /\ forgotten \subseteq Message
    /\ pc \in [Delivery -> Pc] /\ answer \in [Delivery -> Answer]
    /\ on \in [Delivery -> 0 .. Prescribed] /\ mine \in [Delivery -> {0} \cup Delivery]
    /\ locks \in [Conversation -> {0} \cup Delivery]
    /\ thread \in [Conversation -> 0 .. Prescribed]
    /\ made \in [Conversation -> SUBSET (1 .. Prescribed)]
    /\ runs \subseteq Delivery /\ frayed \subseteq Conversation
    /\ faults \in 0 .. MaxFaults
    /\ \A d \in Delivery : pc[d] = "none" <=> d > Len(inbound)

\* Handled, and not so that the provider's retry is wanted.
Kept(d) == pc[d] \in InSlot \cup {"checking", "waiting", "declining", "done"} /\ answer[d] \notin {"error", "silent"}

\* A message is not handled twice, however often the provider delivers it,
\* unless the first attempt failed or its key was forgotten.
HandledOnce ==
    \A d, e \in Delivery :
        Kept(d) /\ Kept(e) /\ inbound[d] = inbound[e] => d = e \/ inbound[d] \in forgotten

\* "we must not turn a recoverable error into a TTL-long black hole": a key that
\* turns redeliveries away is the key of a message that is, or was, handled.
FailureForgiven ==
    \A m \in Range(recent) : \E d \in Delivery : Kept(d) /\ inbound[d] = m

DedupeOK == HandledOnce /\ FailureForgiven

\* A lock in the registry is in use: the registry is "bounded to in-flight
\* conversations" (_get_or_create_thread).
RegistryOK ==
    /\ TypeOK
    /\ \A c \in Conversation : locks[c] # 0 => \E d \in Delivery : mine[d] = locks[c] /\ Conv(d) = c

\* Threads a command asked for without the lock.
Unlocked(t) == t \in Delivery /\ kind[inbound[t]] \in {"goal", "new"}

\* The chats of a conversation share one thread, unless a creation failed under
\* the lock: its waiters and the messages that come next then use two locks.
OneThreadPerChat ==
    \A c \in Conversation \ frayed :
        \A t, u \in made[c] : t = u \/ Unlocked(t) \/ Unlocked(u)

With(what) == {d \in Delivery : answer[d] = what}

\* Not there, turned away as a duplicate, or answered.
Answered(d) == pc[d] \in {"none", "dropped"} \/ answer[d] \notin {"none", "silent", "unheard"}

\* Enough failures to silence those who were not told anything: to silence a
\* handler takes the failure that it was to apologize for and the one of the
\* apology's lookup, to silence a refusal the one of its lookup.
SilenceIsPaid == Cardinality(With("unheard")) + 2 * Cardinality(With("silent")) <= faults

\* Whenever the provider pauses, every message comes to be turned away as a
\* duplicate, answered, or silenced by failing lookups of _send_error itself;
\* no single failure of a handler is left without an answer (_handle_message:
\* "await self._send_error"), and no slot and no lock is kept.
AnsweredUnlessSilenced ==
    []<>(SilenceIsPaid /\ \A d \in Delivery \ (With("silent") \cup With("unheard")) : Answered(d))

\* Without the exception it does not hold: nobody catches what _send_error
\* raises, and where a session or a skill was refused the key is kept too.
EveryMessageAnswered == []<>(\A d \in Delivery : Answered(d))

\* What the docstring of _get_or_create_thread promises; it does not hold.
ChatsNeverSplit ==
    \A c \in Conversation : \A t, u \in made[c] : t = u \/ Unlocked(t) \/ Unlocked(u)
=============================================================================
