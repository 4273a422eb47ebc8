------------------------- MODULE StreamBridgeProofs -------------------------
(***************************************************************************)
(* The two stream bridges keep their types, cost their readers old events  *)
(* only, and implement EventStream, for every set of clients and every     *)
(* size of the stream: MemoryStream without losing a wake-up, RedisStream  *)
(* across crashes and recoveries.                                          *)
(***************************************************************************)
EXTENDS MemoryStream, RedisStream, TLAPS

-----------------------------------------------------------------------------
(* The in-process bridge. *)

\* A response and its subscription, stage by stage.
StageOf(c) ==
    /\ stream[c] = "absent" <=> pc[c] = "idle"
    /\ stream[c] # "first" => wire[c] = <<>>
    /\ pc[c] # "idle" => ~done[c]
    /\ next[c] <= published
    /\ stream[c] = "first" => last[c] < next[c]
    /\ pc[c] = "closing" => stream[c] = "first" /\ ended
    /\ pc[c] = "waiting" /\ stream[c] = "first" => next[c] = published /\ ~ended

\* The wire carries increasing events the client has not received, and END
\* behind them, when everything else is drained.
WireOf(c) ==
    \A i \in 1 .. Len(wire[c]) :
        /\ wire[c][i] # END =>
            /\ wire[c][i] \in last[c] + 1 .. next[c] - 1
            /\ \A j \in 1 .. i - 1 : wire[c][j] # END /\ wire[c][j] < wire[c][i]
        /\ wire[c][i] = END => i = Len(wire[c]) /\ pc[c] = "closing"

\* What a client has not received is still to be sent, on the wire, or gone.
CoverOf(c) ==
    /\ last[c] < published
    /\ stream[c] = "first" => \A k \in last[c] + 1 .. next[c] - 1 :
        k < start \/ \E i \in 1 .. Len(wire[c]) : wire[c][i] = k
    /\ pc[c] = "closing" => \A k \in next[c] .. published - 1 : k < start

\* What a client skipped had been evicted.
MissOf(c) == \A e \in 0 .. last[c] : e \notin Range(got[c]) => e < start

StageInv == \A c \in Client : StageOf(c)
WireInv == \A c \in Client : WireOf(c)
CoverInv == \A c \in Client : CoverOf(c)
MissInv == \A c \in Client : MissOf(c)

\* The buffer is empty only before the first event, and full once it evicted.
BufferInv ==
    /\ published > 0 => start < published
    /\ start > 0 => published - start = MaxSize

MemoryInv == TypeOK /\ StageInv /\ WireInv /\ CoverInv /\ BufferInv /\ MissInv

-----------------------------------------------------------------------------
(* Types. *)

LEMMA TypeInit == Init => TypeOK
<1> SUFFICES ASSUME Init PROVE TypeOK
  OBVIOUS
<1>1. wire \in [Client -> Seq(Event \cup {END})] /\ got \in [Client -> Seq(Event)]
  <2>1. <<>> \in Seq(Event \cup {END}) /\ <<>> \in Seq(Event)
    OBVIOUS
  <2> QED BY <2>1 DEF Init
<1>2. last \in [Client -> Event \cup {-1}]
  BY DEF Init
<1>3. published - start <= MaxSize /\ published \in 0 .. MaxEvents /\ start \in 0 .. published
  BY MemoryStreamAssumption DEF Init
<1>4. next \in [Client -> 0 .. MaxEvents] /\ connects \in [Client -> 0 .. MaxConnects]
  BY MemoryStreamAssumption DEF Init
<1> QED
  BY <1>1, <1>2, <1>3, <1>4 DEF Init, TypeOK, Entry, ResponsePc

\* One more event leaves at most MaxSize in the buffer.
LEMMA TrimType ==
  ASSUME TypeOK
  PROVE  /\ Trimmed \in 0 .. published + 1
         /\ published + 1 - Trimmed <= MaxSize
         /\ Trimmed >= start
         /\ Trimmed <= published
BY MemoryStreamAssumption DEF TypeOK, Trimmed

LEMMA CursorType ==
  ASSUME TypeOK, NEW c \in Client
  PROVE  /\ Bottom(c) \in 0 .. published /\ Top(c) \in 0 .. published
         /\ Bottom(c) <= Top(c)
         /\ Cursor(c) \in 0 .. MaxEvents /\ Cursor(c) >= next[c] /\ Cursor(c) >= Bottom(c)
         /\ Cursor(c) = next[c] \/ Cursor(c) = Bottom(c)
BY MemoryStreamAssumption DEF TypeOK, Bottom, Top, Cursor

\* The positions of a client are integers.
LEMMA Positions ==
  ASSUME TypeOK, NEW c \in Client
  PROVE  /\ last[c] \in Int /\ next[c] \in Nat /\ Cursor(c) \in Nat
         /\ published \in Nat /\ start \in Nat /\ Cursor(c) >= next[c]
<1>1. Cursor(c) \in Nat /\ Cursor(c) >= next[c]
  BY CursorType, MemoryStreamAssumption
<1> QED BY <1>1, MemoryStreamAssumption DEF TypeOK, Event

LEMMA TypeStep == TypeOK /\ [Next]_vars => TypeOK'
<1> SUFFICES ASSUME TypeOK, [Next]_vars PROVE TypeOK'
  OBVIOUS
<1> USE MemoryStreamAssumption
<1>0. Created \in Entry /\ NotifyAll \in [Client -> ResponsePc]
  BY DEF TypeOK, Created, NotifyAll, Entry, ResponsePc
<1>1. CASE Publish
  <2>1. published' \in 0 .. MaxEvents /\ start' \in 0 .. published' /\ published' - start' <= MaxSize
    BY <1>1, TrimType DEF TypeOK, Publish
  <2> QED BY <1>0, <1>1, <2>1 DEF TypeOK, Publish, client
<1>2. CASE PublishEnd
  BY <1>0, <1>2 DEF TypeOK, PublishEnd, client
<1>3. CASE Cleanup
  BY <1>3 DEF TypeOK, Cleanup, client, Entry
<1>4. ASSUME NEW c \in Client, NEW id \in Event \cup {-1}, Connect(c, id) PROVE TypeOK'
  <2>1. ResolveStart(start, published, id) \in 0 .. MaxEvents
    BY DEF TypeOK, ResolveStart, Event
  <2>2. <<>> \in Seq(Event)
    OBVIOUS
  <2>3. got' \in [Client -> Seq(Event)]
    BY <1>4, <2>2 DEF TypeOK, Connect
  <2>4. next' \in [Client -> 0 .. MaxEvents] /\ connects' \in [Client -> 0 .. MaxConnects]
    BY <1>4, <2>1 DEF TypeOK, Connect
  <2>5. last' \in [Client -> Event \cup {-1}] /\ stream' \in [Client -> Entry]
    BY <1>0, <1>4 DEF TypeOK, Connect
  <2>6. pc' \in [Client -> ResponsePc] /\ done' \in [Client -> BOOLEAN] /\ entry' \in Entry
    BY <1>0, <1>4 DEF TypeOK, Connect, ResponsePc
  <2> QED BY <1>4, <2>3, <2>4, <2>5, <2>6 DEF TypeOK, Connect
<1>5. ASSUME NEW c \in Client, SendEvent(c) PROVE TypeOK'
  <2>1. Cursor(c) \in Event /\ Cursor(c) + 1 \in 0 .. MaxEvents
    <3>1. Cursor(c) \in 0 .. MaxEvents /\ Top(c) \in 0 .. published
      BY CursorType
    <3>2. ~(Cursor(c) >= Top(c))
      BY <1>5 DEF SendEvent, Drained
    <3>3. published \in 0 .. MaxEvents
      BY DEF TypeOK
    <3> QED BY <3>1, <3>2, <3>3 DEF Event
  <2>2. Append(wire[c], Cursor(c)) \in Seq(Event \cup {END})
    BY <2>1 DEF TypeOK
  <2> QED BY <1>5, <2>1, <2>2 DEF TypeOK, SendEvent, producer, client
<1>6. ASSUME NEW c \in Client, SendEnd(c) PROVE TypeOK'
  <2>1. Append(wire[c], END) \in Seq(Event \cup {END})
    BY DEF TypeOK
  <2> QED BY <1>6, <2>1 DEF TypeOK, SendEnd, producer, client, ResponsePc
<1>7. ASSUME NEW c \in Client, Wait(c) PROVE TypeOK'
  <2>1. Cursor(c) \in 0 .. MaxEvents
    BY CursorType DEF TypeOK
  <2> QED BY <1>7, <2>1 DEF TypeOK, Wait, producer, client, ResponsePc
<1>8. ASSUME NEW c \in Client, Heartbeat(c) PROVE TypeOK'
  BY <1>8 DEF TypeOK, Heartbeat, producer, client, ResponsePc
<1>9. ASSUME NEW c \in Client, ReceiveEvent(c) PROVE TypeOK'
  <2>1. Head(wire[c]) \in Event /\ Tail(wire[c]) \in Seq(Event \cup {END})
    BY <1>9 DEF TypeOK, ReceiveEvent
  <2>2. Append(got[c], Head(wire[c])) \in Seq(Event)
    BY <2>1 DEF TypeOK
  <2> QED BY <1>9, <2>1, <2>2 DEF TypeOK, ReceiveEvent, producer
<1>10. ASSUME NEW c \in Client, ReceiveEnd(c) PROVE TypeOK'
  BY <1>10 DEF TypeOK, ReceiveEnd, producer, ResponsePc, Entry
<1>11. ASSUME NEW c \in Client, Disconnect(c) PROVE TypeOK'
  BY <1>11 DEF TypeOK, Disconnect, producer, client, ResponsePc, Entry
<1>12. CASE UNCHANGED vars
  BY <1>12 DEF TypeOK, vars
<1> QED
  BY <1>1, <1>2, <1>3, <1>4, <1>5, <1>6, <1>7, <1>8, <1>9, <1>10, <1>11, <1>12
  DEF Next, Serve, Receive

-----------------------------------------------------------------------------
(* The stages of a response. *)

LEMMA BufferStep == TypeOK /\ BufferInv /\ [Next]_vars => BufferInv'
<1> SUFFICES ASSUME TypeOK, BufferInv, [Next]_vars PROVE BufferInv'
  OBVIOUS
<1>1. CASE Publish
  BY <1>1, TrimType, MemoryStreamAssumption DEF TypeOK, BufferInv, Publish, Trimmed
<1>2. CASE UNCHANGED <<published, start>>
  BY <1>2 DEF BufferInv
<1> QED
  BY <1>1, <1>2 DEF Next, vars, PublishEnd, Cleanup, Connect, Serve, SendEvent, SendEnd, Wait,
     Heartbeat, Receive, ReceiveEvent, ReceiveEnd, Disconnect, producer

LEMMA StageStep == TypeOK /\ StageInv /\ WireInv /\ CoverInv /\ [Next]_vars => StageInv'
<1> SUFFICES ASSUME TypeOK, StageInv, WireInv, CoverInv, [Next]_vars, NEW d \in Client
             PROVE  StageOf(d)'
  BY DEF StageInv
<1> USE MemoryStreamAssumption
<1>0. StageOf(d) /\ WireOf(d) /\ CoverOf(d)
  BY DEF StageInv, WireInv, CoverInv
<1>1. CASE Publish
  BY <1>0, <1>1 DEF TypeOK, Publish, NotifyAll, StageOf, client, Entry, ResponsePc
<1>2. CASE PublishEnd
  BY <1>0, <1>2 DEF TypeOK, PublishEnd, NotifyAll, StageOf, client, Entry, ResponsePc
<1>3. CASE Cleanup
  BY <1>0, <1>3 DEF TypeOK, Cleanup, StageOf, client
<1>4. ASSUME NEW c \in Client, NEW id \in Event \cup {-1}, Connect(c, id) PROVE StageOf(d)'
  <2>1. ResolveStart(start, published, id) <= published
    BY DEF TypeOK, ResolveStart, Event
  <2>2. Created \in {"first", "fresh"}
    BY DEF TypeOK, Created, Entry
  <2>3. id = -1 \/ id = last[d] => id < ResolveStart(start, published, id)
    BY <1>0 DEF TypeOK, ResolveStart, Event, CoverOf
  <2> QED BY <1>0, <1>4, <2>1, <2>2, <2>3 DEF TypeOK, Connect, StageOf
<1>5. ASSUME NEW c \in Client, SendEvent(c) PROVE StageOf(d)'
  <2>1. CASE c # d
    BY <1>0, <1>5, <2>1 DEF TypeOK, SendEvent, StageOf, producer, client
  <2>2. CASE c = d
    <3>1. stream[d] = "first"
      BY <1>0, <1>5, <2>2, CursorType DEF SendEvent, Drained, TypeOK, Top
    <3>2. Cursor(d) + 1 <= published
      BY <1>5, <2>2, CursorType DEF SendEvent, Drained, TypeOK
    <3>3. last[d] < Cursor(d) + 1
      <4>1. last[d] < next[d]
        BY <1>0, <3>1 DEF StageOf
      <4> QED BY <4>1, Positions
    <3> QED BY <1>0, <1>5, <2>2, <3>1, <3>2, <3>3 DEF TypeOK, SendEvent, StageOf, producer, client
  <2> QED BY <2>1, <2>2
<1>6. ASSUME NEW c \in Client, SendEnd(c) PROVE StageOf(d)'
  BY <1>0, <1>6 DEF TypeOK, SendEnd, StageOf, producer, client
<1>7. ASSUME NEW c \in Client, Wait(c) PROVE StageOf(d)'
  <2>1. CASE c # d
    BY <1>0, <1>7, <2>1 DEF TypeOK, Wait, StageOf, producer, client
  <2>2. CASE c = d
    <3>1. Cursor(d) <= published
      <4>1. Cursor(d) = next[d] \/ (Cursor(d) = Bottom(d) /\ Bottom(d) \in 0 .. published)
        BY CursorType
      <4>2. next[d] <= published /\ published \in Nat
        BY <1>0 DEF StageOf, TypeOK
      <4> QED BY <4>1, <4>2
    <3>2. stream[d] = "first" => Cursor(d) = published
      BY <1>7, <2>2, <3>1, CursorType DEF Wait, Drained, TypeOK, Top
    <3>3. stream[d] = "first" => last[d] < Cursor(d)
      <4>1. stream[d] = "first" => last[d] < next[d]
        BY <1>0 DEF StageOf
      <4> QED BY <4>1, Positions
    <3> QED BY <1>0, <1>7, <2>2, <3>1, <3>2, <3>3 DEF TypeOK, Wait, StageOf, producer, client
  <2> QED BY <2>1, <2>2
<1>8. ASSUME NEW c \in Client, Heartbeat(c) PROVE StageOf(d)'
  BY <1>0, <1>8 DEF TypeOK, Heartbeat, StageOf, producer, client
<1>9. ASSUME NEW c \in Client, ReceiveEvent(c) PROVE StageOf(d)'
  <2>1. CASE c # d
    BY <1>0, <1>9, <2>1 DEF TypeOK, ReceiveEvent, StageOf, producer
  <2>2. CASE c = d
    <3>1. Head(wire[d]) = wire[d][1] /\ 1 \in 1 .. Len(wire[d])
      BY <1>9, <2>2 DEF ReceiveEvent, TypeOK
    <3>2. Head(wire[d]) < next[d] /\ stream[d] = "first"
      BY <1>0, <1>9, <2>2, <3>1 DEF ReceiveEvent, TypeOK, WireOf, StageOf
    <3> QED BY <1>0, <1>9, <2>2, <3>2 DEF TypeOK, ReceiveEvent, StageOf, producer
  <2> QED BY <2>1, <2>2
<1>10. ASSUME NEW c \in Client, ReceiveEnd(c) PROVE StageOf(d)'
  BY <1>0, <1>10 DEF TypeOK, ReceiveEnd, StageOf, producer
<1>11. ASSUME NEW c \in Client, Disconnect(c) PROVE StageOf(d)'
  BY <1>0, <1>11 DEF TypeOK, Disconnect, StageOf, producer, client
<1>12. CASE UNCHANGED vars
  BY <1>0, <1>12 DEF StageOf, vars
<1> QED
  BY <1>1, <1>2, <1>3, <1>4, <1>5, <1>6, <1>7, <1>8, <1>9, <1>10, <1>11, <1>12
  DEF Next, Serve, Receive

-----------------------------------------------------------------------------
(* What is on the wire, and what is not. *)

LEMMA WireStep == TypeOK /\ StageInv /\ WireInv /\ [Next]_vars => WireInv'
<1> SUFFICES ASSUME TypeOK, StageInv, WireInv, [Next]_vars, NEW d \in Client
             PROVE  WireOf(d)'
  BY DEF WireInv
<1> USE MemoryStreamAssumption
<1>0. StageOf(d) /\ WireOf(d)
  BY DEF StageInv, WireInv
<1>a. /\ wire[d] \in Seq(Event \cup {END}) /\ last[d] \in Int /\ next[d] \in Nat
      /\ pc \in [Client -> ResponsePc] /\ wire \in [Client -> Seq(Event \cup {END})]
  BY DEF TypeOK, Event
<1>1. CASE UNCHANGED <<wire, last, next>> /\ (pc[d] = "closing" => pc'[d] = "closing")
  BY <1>0, <1>1 DEF WireOf
<1>2. CASE wire'[d] = <<>>
  BY <1>2 DEF WireOf
<1>3. CASE Publish \/ PublishEnd \/ Cleanup
  BY <1>a, <1>1, <1>3 DEF Publish, PublishEnd, Cleanup, NotifyAll, client
<1>4. ASSUME NEW c \in Client, NEW id \in Event \cup {-1}, Connect(c, id) PROVE WireOf(d)'
  <2>1. CASE c # d
    BY <1>0, <1>4, <2>1 DEF TypeOK, Connect, WireOf
  <2>2. CASE c = d
    BY <1>0, <1>2, <1>4, <2>2 DEF Connect, StageOf
  <2> QED BY <2>1, <2>2
<1>5. ASSUME NEW c \in Client, SendEvent(c) PROVE WireOf(d)'
  <2>1. CASE c # d
    BY <1>0, <1>5, <2>1 DEF TypeOK, SendEvent, WireOf, producer, client
  <2>2. CASE c = d
    <3>1. /\ wire'[d] = Append(wire[d], Cursor(d)) /\ next'[d] = Cursor(d) + 1
          /\ last'[d] = last[d] /\ pc[d] = "reading"
      BY <1>5, <2>2 DEF SendEvent, TypeOK, client
    <3>2. Cursor(d) \in Nat /\ Cursor(d) >= next[d]
      BY Positions
    <3>3. stream[d] = "first"
      BY <1>5, <2>2, CursorType DEF SendEvent, Drained, TypeOK, Top
    <3>4. last[d] < next[d]
      BY <1>0, <3>3 DEF StageOf
    <3>5. \A i \in 1 .. Len(wire[d]) : wire[d][i] # END /\ wire[d][i] \in last[d] + 1 .. next[d] - 1
      BY <1>0, <3>1 DEF WireOf
    <3> DEFINE s == wire[d]
               t == Append(s, Cursor(d))
    <3>6. /\ Len(t) = Len(s) + 1 /\ Len(s) \in Nat
          /\ \A i \in 1 .. Len(s) : t[i] = s[i]
          /\ t[Len(s) + 1] = Cursor(d)
      BY <1>a
    <3>7. Cursor(d) # END
      BY <3>2
    <3>8. ASSUME NEW i \in 1 .. Len(t)
          PROVE  /\ t[i] # END
                 /\ t[i] \in last[d] + 1 .. Cursor(d)
                 /\ \A j \in 1 .. i - 1 : t[j] # END /\ t[j] < t[i]
      <4>1. CASE i = Len(s) + 1
        BY <1>a, <3>2, <3>4, <3>5, <3>6, <3>7, <4>1
      <4>2. CASE i \in 1 .. Len(s)
        <5>1. \A j \in 1 .. i - 1 : s[j] # END /\ s[j] < s[i]
          BY <1>0, <3>5, <4>2 DEF WireOf
        <5> QED BY <1>a, <3>2, <3>5, <3>6, <4>2, <5>1
      <4> QED BY <3>6, <4>1, <4>2
    <3>9. Cursor(d) = next'[d] - 1 /\ wire'[d] = t /\ last'[d] = last[d]
      BY <3>1, <3>2
    <3> HIDE DEF t
    <3> QED BY <3>8, <3>9 DEF WireOf
  <2> QED BY <2>1, <2>2
<1>6. ASSUME NEW c \in Client, SendEnd(c) PROVE WireOf(d)'
  <2>1. CASE c # d
    BY <1>0, <1>6, <2>1 DEF TypeOK, SendEnd, WireOf, producer, client
  <2>2. CASE c = d
    <3>1. /\ wire'[d] = Append(wire[d], END) /\ next'[d] = next[d]
          /\ last'[d] = last[d] /\ pc[d] = "reading" /\ pc'[d] = "closing"
      BY <1>6, <2>2 DEF SendEnd, TypeOK, client
    <3> DEFINE s == wire[d]
               t == Append(s, END)
    <3>2. /\ Len(t) = Len(s) + 1 /\ Len(s) \in Nat
          /\ \A i \in 1 .. Len(s) : t[i] = s[i]
          /\ t[Len(s) + 1] = END
      BY <1>a
    <3>3. ASSUME NEW i \in 1 .. Len(t)
          PROVE  /\ t[i] # END =>
                      /\ t[i] \in last[d] + 1 .. next[d] - 1
                      /\ \A j \in 1 .. i - 1 : t[j] # END /\ t[j] < t[i]
                 /\ t[i] = END => i = Len(t)
      <4>1. CASE i = Len(s) + 1
        BY <3>2, <4>1
      <4>2. CASE i \in 1 .. Len(s)
        <5>1. /\ s[i] # END /\ s[i] \in last[d] + 1 .. next[d] - 1
              /\ \A j \in 1 .. i - 1 : s[j] # END /\ s[j] < s[i]
          BY <1>0, <3>1, <4>2 DEF WireOf
        <5> QED BY <3>2, <4>2, <5>1, SMTT(30)
      <4> QED BY <3>2, <4>1, <4>2
    <3> HIDE DEF t
    <3> QED BY <3>1, <3>3 DEF WireOf, t
  <2> QED BY <2>1, <2>2
<1>7. ASSUME NEW c \in Client, Wait(c) PROVE WireOf(d)'
  <2>1. CASE c # d
    BY <1>0, <1>7, <2>1 DEF TypeOK, Wait, WireOf, producer, client
  <2>2. CASE c = d
    <3>1. /\ wire'[d] = wire[d] /\ next'[d] = Cursor(d) /\ last'[d] = last[d]
          /\ pc[d] = "reading"
      BY <1>7, <2>2 DEF Wait, TypeOK, client
    <3>2. Cursor(d) \in Nat /\ Cursor(d) >= next[d]
      BY Positions
    <3> QED BY <1>0, <1>a, <3>1, <3>2 DEF WireOf
  <2> QED BY <2>1, <2>2
<1>8. ASSUME NEW c \in Client, Heartbeat(c) PROVE WireOf(d)'
  BY <1>1, <1>8, <1>a DEF Heartbeat, producer, client
<1>9. ASSUME NEW c \in Client, ReceiveEvent(c) PROVE WireOf(d)'
  <2>1. CASE c # d
    BY <1>0, <1>9, <2>1 DEF TypeOK, ReceiveEvent, WireOf, producer
  <2>2. CASE c = d
    <3> DEFINE s == wire[d]
               t == Tail(s)
    <3>1. /\ wire'[d] = t /\ next'[d] = next[d] /\ last'[d] = s[1] /\ pc'[d] = pc[d]
          /\ s # <<>> /\ s[1] # END
      BY <1>9, <1>a, <2>2 DEF ReceiveEvent, TypeOK, producer
    <3>2. /\ Len(s) \in Nat \ {0} /\ Len(t) = Len(s) - 1
          /\ \A i \in 1 .. Len(t) : t[i] = s[i + 1]
      BY <1>a, <3>1
    <3>3. ASSUME NEW i \in 1 .. Len(t)
          PROVE  /\ t[i] # END =>
                      /\ t[i] \in s[1] + 1 .. next[d] - 1
                      /\ \A j \in 1 .. i - 1 : t[j] # END /\ t[j] < t[i]
                 /\ t[i] = END => i = Len(t) /\ pc[d] = "closing"
      <4>1. i + 1 \in 1 .. Len(s) /\ 1 \in 1 .. (i + 1) - 1 /\ t[i] = s[i + 1]
        BY <3>2
      <4>2. /\ s[i + 1] # END =>
                 /\ s[i + 1] \in last[d] + 1 .. next[d] - 1
                 /\ \A j \in 1 .. (i + 1) - 1 : s[j] # END /\ s[j] < s[i + 1]
            /\ s[i + 1] = END => i + 1 = Len(s) /\ pc[d] = "closing"
        BY <1>0, <4>1 DEF WireOf
      <4>3. s[1] \in Int
        BY <1>a, <3>1, <3>2 DEF Event
      <4>4. \A j \in 1 .. i - 1 : j + 1 \in 1 .. (i + 1) - 1 /\ t[j] = s[j + 1]
        BY <3>2
      <4>5. CASE s[i + 1] = END
        BY <3>2, <4>1, <4>2, <4>5
      <4>6. CASE s[i + 1] # END
        <5>1. s[1] < s[i + 1] /\ s[i + 1] \in last[d] + 1 .. next[d] - 1
          BY <4>1, <4>2, <4>6
        <5>2. t[i] \in s[1] + 1 .. next[d] - 1
          <6>1. s[i + 1] \in s[1] + 1 .. next[d] - 1
            <7>1. s[i + 1] \in Int /\ s[i + 1] <= next[d] - 1
              BY <1>a, <5>1
            <7> QED BY <1>a, <4>3, <5>1, <7>1
          <6> QED BY <4>1, <6>1
        <5>3. \A j \in 1 .. i - 1 : t[j] # END /\ t[j] < t[i]
          BY <4>1, <4>2, <4>4, <4>6
        <5> QED BY <4>1, <4>6, <5>2, <5>3
      <4> QED BY <4>5, <4>6
    <3> HIDE DEF t
    <3> QED BY <3>1, <3>3 DEF WireOf
  <2> QED BY <2>1, <2>2
<1>10. ASSUME NEW c \in Client, ReceiveEnd(c) PROVE WireOf(d)'
  <2>1. CASE c # d
    BY <1>0, <1>10, <2>1 DEF TypeOK, ReceiveEnd, WireOf, producer
  <2>2. CASE c = d
    BY <1>2, <1>10, <1>a, <2>2 DEF ReceiveEnd
  <2> QED BY <2>1, <2>2
<1>11. ASSUME NEW c \in Client, Disconnect(c) PROVE WireOf(d)'
  <2>1. CASE c # d
    BY <1>0, <1>11, <2>1 DEF TypeOK, Disconnect, WireOf, producer, client
  <2>2. CASE c = d
    BY <1>2, <1>11, <1>a, <2>2 DEF Disconnect
  <2> QED BY <2>1, <2>2
<1>12. CASE UNCHANGED vars
  BY <1>1, <1>12 DEF vars
<1> QED
  BY <1>3, <1>4, <1>5, <1>6, <1>7, <1>8, <1>9, <1>10, <1>11, <1>12
  DEF Next, Serve, Receive

LEMMA CoverStep ==
  TypeOK /\ StageInv /\ WireInv /\ CoverInv /\ [Next]_vars => CoverInv'
<1> SUFFICES ASSUME TypeOK, StageInv, WireInv, CoverInv, [Next]_vars, NEW d \in Client
             PROVE  CoverOf(d)'
  BY DEF CoverInv
<1> USE MemoryStreamAssumption
<1>0. StageOf(d) /\ WireOf(d) /\ CoverOf(d)
  BY DEF StageInv, WireInv, CoverInv
<1>a. /\ wire[d] \in Seq(Event \cup {END}) /\ last[d] \in Int /\ next[d] \in Nat
      /\ published \in Nat /\ start \in Nat
      /\ pc \in [Client -> ResponsePc] /\ wire \in [Client -> Seq(Event \cup {END})]
  BY DEF TypeOK, Event
<1>1. CASE Publish
  <2>1. start' \in Nat /\ start' >= start /\ published' = published + 1
    BY <1>1, TrimType DEF Publish
  <2>2. pc[d] # "closing"
    BY <1>0, <1>1 DEF Publish, StageOf
  <2>3. pc'[d] # "closing"
    BY <1>1, <1>a, <2>2 DEF Publish, NotifyAll
  <2> QED BY <1>0, <1>1, <1>a, <2>1, <2>3 DEF Publish, CoverOf, client
<1>2. CASE UNCHANGED <<published, start, stream, next, wire, last>>
           /\ (pc'[d] = "closing" => pc[d] = "closing")
  BY <1>0, <1>2 DEF CoverOf
<1>3. CASE PublishEnd \/ Cleanup
  BY <1>2, <1>3, <1>a DEF PublishEnd, Cleanup, NotifyAll, client
<1>4. ASSUME NEW c \in Client, NEW id \in Event \cup {-1}, Connect(c, id) PROVE CoverOf(d)'
  <2>1. CASE c # d
    BY <1>0, <1>4, <2>1 DEF TypeOK, Connect, CoverOf
  <2>2. CASE c = d
    <3>1. /\ last'[d] = id /\ id < published /\ pc'[d] = "reading"
          /\ published' = published /\ start' = start
      BY <1>0, <1>4, <1>a, <2>2 DEF Connect, TypeOK, CoverOf
    <3>2. stream'[d] = "first" => next'[d] = ResolveStart(start, published, id)
      BY <1>4, <2>2 DEF Connect, TypeOK
    <3>3. \A k \in id + 1 .. ResolveStart(start, published, id) - 1 : k < start
      BY <1>a, <3>1 DEF ResolveStart, Event
    <3> QED BY <3>1, <3>2, <3>3 DEF CoverOf
  <2> QED BY <2>1, <2>2
<1>5. ASSUME NEW c \in Client, SendEvent(c) PROVE CoverOf(d)'
  <2>1. CASE c # d
    BY <1>0, <1>5, <2>1 DEF TypeOK, SendEvent, CoverOf, producer, client
  <2>2. CASE c = d
    <3> DEFINE s == wire[d]
               t == Append(s, Cursor(d))
    <3>1. /\ wire'[d] = t /\ next'[d] = Cursor(d) + 1 /\ stream'[d] = stream[d]
          /\ last'[d] = last[d] /\ pc'[d] = "reading" /\ published' = published /\ start' = start
      BY <1>5, <2>2 DEF SendEvent, TypeOK, producer, client
    <3>2. /\ Len(t) = Len(s) + 1 /\ Len(s) \in Nat
          /\ \A i \in 1 .. Len(s) : t[i] = s[i]
          /\ t[Len(s) + 1] = Cursor(d)
      BY <1>a
    <3>3. /\ Cursor(d) \in Nat /\ Cursor(d) >= next[d]
          /\ stream[d] = "first" => Cursor(d) = next[d] \/ Cursor(d) = start
      BY Positions, CursorType DEF Bottom
    <3>4. ASSUME stream[d] = "first", NEW k \in last[d] + 1 .. Cursor(d)
          PROVE  k < start \/ \E i \in 1 .. Len(t) : t[i] = k
      <4>1. CASE k < next[d]
        <5>1. k \in last[d] + 1 .. next[d] - 1
          BY <1>a, <4>1
        <5>2. CASE k < start
          BY <5>2
        <5>3. CASE \E i \in 1 .. Len(s) : s[i] = k
          <6>1. PICK i \in 1 .. Len(s) : s[i] = k
            BY <5>3
          <6>2. i \in 1 .. Len(t) /\ t[i] = k
            BY <3>2, <6>1
          <6> QED BY <6>2
        <5> QED BY <1>0, <3>4, <5>1, <5>2, <5>3 DEF CoverOf
      <4>2. CASE k >= next[d] /\ k # Cursor(d)
        BY <1>a, <3>3, <3>4, <4>2
      <4>3. CASE k = Cursor(d)
        <5>1. Len(s) + 1 \in 1 .. Len(t)
          BY <3>2
        <5> QED BY <3>2, <4>3, <5>1
      <4> QED BY <1>a, <3>3, <4>1, <4>2, <4>3
    <3>5. next'[d] - 1 = Cursor(d)
      BY <3>1, <3>3
    <3> HIDE DEF t
    <3> QED BY <1>0, <3>1, <3>4, <3>5 DEF CoverOf
  <2> QED BY <2>1, <2>2
<1>6. ASSUME NEW c \in Client, SendEnd(c) PROVE CoverOf(d)'
  <2>1. CASE c # d
    BY <1>0, <1>6, <2>1 DEF TypeOK, SendEnd, CoverOf, producer, client
  <2>2. CASE c = d
    <3> DEFINE s == wire[d]
               t == Append(s, END)
    <3>1. /\ wire'[d] = t /\ next'[d] = next[d] /\ stream'[d] = stream[d]
          /\ last'[d] = last[d] /\ published' = published /\ start' = start
          /\ stream[d] = "first"
      BY <1>6, <2>2 DEF SendEnd, TypeOK, producer, client
    <3>2. /\ Len(t) = Len(s) + 1 /\ Len(s) \in Nat
          /\ \A i \in 1 .. Len(s) : t[i] = s[i]
      BY <1>a
    <3>3. Cursor(d) >= published /\ (Cursor(d) = next[d] \/ Cursor(d) = start)
      BY <1>6, <2>2, <3>1, CursorType DEF SendEnd, Drained, Top, Bottom
    <3>4. \A k \in next[d] .. published - 1 : k < start
      BY <1>a, <3>3
    <3>5. ASSUME NEW k \in last[d] + 1 .. next[d] - 1
          PROVE  k < start \/ \E i \in 1 .. Len(t) : t[i] = k
      <4>1. CASE \E i \in 1 .. Len(s) : s[i] = k
        <5>1. PICK i \in 1 .. Len(s) : s[i] = k
          BY <4>1
        <5>2. i \in 1 .. Len(t) /\ t[i] = k
          BY <3>2, <5>1
        <5> QED BY <5>2
      <4> QED BY <1>0, <3>1, <4>1 DEF CoverOf
    <3> HIDE DEF t
    <3> QED BY <1>0, <3>1, <3>4, <3>5 DEF CoverOf
  <2> QED BY <2>1, <2>2
<1>7. ASSUME NEW c \in Client, Wait(c) PROVE CoverOf(d)'
  <2>1. CASE c # d
    BY <1>0, <1>7, <2>1 DEF TypeOK, Wait, CoverOf, producer, client
  <2>2. CASE c = d
    <3>1. /\ wire'[d] = wire[d] /\ next'[d] = Cursor(d) /\ stream'[d] = stream[d]
          /\ last'[d] = last[d] /\ pc'[d] = "waiting" /\ published' = published /\ start' = start
      BY <1>7, <2>2 DEF Wait, TypeOK, producer, client
    <3>2. /\ Cursor(d) \in Nat /\ Cursor(d) >= next[d]
          /\ stream[d] = "first" => Cursor(d) = next[d] \/ Cursor(d) = start
      BY Positions, CursorType DEF Bottom
    <3>3. stream[d] = "first" => \A k \in next[d] .. Cursor(d) - 1 : k < start
      BY <1>a, <3>2
    <3>4. ASSUME stream[d] = "first", NEW k \in last[d] + 1 .. Cursor(d) - 1
          PROVE  k < start \/ \E i \in 1 .. Len(wire[d]) : wire[d][i] = k
      <4>1. k \in last[d] + 1 .. next[d] - 1 \/ k \in next[d] .. Cursor(d) - 1
        BY <1>a, <3>2
      <4> QED BY <1>0, <3>3, <3>4, <4>1 DEF CoverOf
    <3> QED BY <1>0, <3>1, <3>4 DEF CoverOf
  <2> QED BY <2>1, <2>2
<1>8. ASSUME NEW c \in Client, Heartbeat(c) PROVE CoverOf(d)'
  BY <1>2, <1>8, <1>a DEF Heartbeat, producer, client
<1>9. ASSUME NEW c \in Client, ReceiveEvent(c) PROVE CoverOf(d)'
  <2>1. CASE c # d
    BY <1>0, <1>9, <2>1 DEF TypeOK, ReceiveEvent, CoverOf, producer
  <2>2. CASE c = d
    <3> DEFINE s == wire[d]
               t == Tail(s)
    <3>1. /\ wire'[d] = t /\ next'[d] = next[d] /\ last'[d] = s[1] /\ pc'[d] = pc[d]
          /\ stream'[d] = stream[d] /\ published' = published /\ start' = start
          /\ s # <<>> /\ s[1] # END
      BY <1>9, <1>a, <2>2 DEF ReceiveEvent, TypeOK, producer
    <3>2. /\ Len(s) \in Nat \ {0} /\ Len(t) = Len(s) - 1
          /\ \A i \in 1 .. Len(t) : t[i] = s[i + 1]
      BY <1>a, <3>1
    <3>3. s[1] \in last[d] + 1 .. next[d] - 1 /\ 1 \in 1 .. Len(s)
      BY <1>0, <3>1, <3>2 DEF WireOf
    <3>4. s[1] < published
      BY <1>0, <1>a, <3>3 DEF StageOf
    <3>5. ASSUME stream[d] = "first", NEW k \in s[1] + 1 .. next[d] - 1
          PROVE  k < start \/ \E i \in 1 .. Len(t) : t[i] = k
      <4>1. k \in last[d] + 1 .. next[d] - 1
        BY <1>a, <3>3
      <4>2. CASE \E i \in 1 .. Len(s) : s[i] = k
        <5>1. PICK i \in 1 .. Len(s) : s[i] = k
          BY <4>2
        <5>2. i # 1
          BY <1>a, <3>3, <5>1
        <5>3. i - 1 \in 1 .. Len(t) /\ t[i - 1] = s[(i - 1) + 1] /\ (i - 1) + 1 = i
          BY <3>2, <5>1, <5>2
        <5> QED BY <5>1, <5>3
      <4> QED BY <1>0, <3>5, <4>1, <4>2 DEF CoverOf
    <3> HIDE DEF t
    <3> QED BY <1>0, <3>1, <3>4, <3>5 DEF CoverOf
  <2> QED BY <2>1, <2>2
<1>10. ASSUME NEW c \in Client, ReceiveEnd(c) PROVE CoverOf(d)'
  <2>1. CASE c # d
    BY <1>0, <1>10, <2>1 DEF TypeOK, ReceiveEnd, CoverOf, producer
  <2>2. CASE c = d
    BY <1>0, <1>10, <2>2 DEF TypeOK, ReceiveEnd, CoverOf, producer
  <2> QED BY <2>1, <2>2
<1>11. ASSUME NEW c \in Client, Disconnect(c) PROVE CoverOf(d)'
  <2>1. CASE c # d
    BY <1>0, <1>11, <2>1 DEF TypeOK, Disconnect, CoverOf, producer, client
  <2>2. CASE c = d
    BY <1>0, <1>11, <2>2 DEF TypeOK, Disconnect, CoverOf, producer, client
  <2> QED BY <2>1, <2>2
<1>12. CASE UNCHANGED vars
  BY <1>2, <1>12 DEF vars
<1> QED
  BY <1>1, <1>3, <1>4, <1>5, <1>6, <1>7, <1>8, <1>9, <1>10, <1>11, <1>12
  DEF Next, Serve, Receive

\* The head of the wire is ahead of the client, and what it skips is evicted.
LEMMA HeadOfWire ==
  ASSUME TypeOK, StageInv, WireInv, CoverInv, NEW c \in Client,
         wire[c] # <<>>, Head(wire[c]) # END
  PROVE  /\ Head(wire[c]) \in last[c] + 1 .. published - 1
         /\ \A k \in last[c] + 1 .. Head(wire[c]) - 1 : k < start
<1> DEFINE s == wire[c]
<1>1. s \in Seq(Event \cup {END}) /\ last[c] \in Int /\ next[c] \in Nat /\ published \in Nat
  BY Positions DEF TypeOK
<1>2. Head(s) = s[1] /\ 1 \in 1 .. Len(s) /\ Len(s) \in Nat
  BY <1>1
<1>3. StageOf(c) /\ WireOf(c) /\ CoverOf(c)
  BY DEF StageInv, WireInv, CoverInv
<1>4. s[1] \in last[c] + 1 .. next[c] - 1
  BY <1>2, <1>3 DEF WireOf
<1>5. next[c] <= published /\ stream[c] = "first"
  BY <1>3 DEF StageOf
<1>6. ASSUME NEW k \in last[c] + 1 .. s[1] - 1 PROVE k < start
  <2>1. k \in last[c] + 1 .. next[c] - 1 /\ k < s[1]
    BY <1>1, <1>4
  <2>2. ASSUME NEW i \in 1 .. Len(s), s[i] = k PROVE FALSE
    <3>1. i # 1 /\ s[i] # END
      BY <1>1, <2>1, <2>2, MemoryStreamAssumption
    <3>2. 1 \in 1 .. i - 1
      BY <1>2, <3>1
    <3>3. s[1] < s[i]
      BY <1>3, <3>1, <3>2 DEF WireOf
    <3> QED BY <1>1, <1>4, <2>1, <2>2, <3>3
  <2> QED BY <1>3, <1>5, <2>1, <2>2 DEF CoverOf
<1> QED BY <1>1, <1>2, <1>4, <1>5, <1>6

LEMMA MissStep ==
  TypeOK /\ StageInv /\ WireInv /\ CoverInv /\ MissInv /\ [Next]_vars => MissInv'
<1> SUFFICES ASSUME TypeOK, StageInv, WireInv, CoverInv, MissInv, [Next]_vars, NEW d \in Client
             PROVE  MissOf(d)'
  BY DEF MissInv
<1>0. MissOf(d)
  BY DEF MissInv
<1>1. CASE Publish
  <2>1. start' \in Nat /\ start \in Nat /\ start' >= start
    BY <1>1, TrimType, Positions DEF Publish
  <2> QED BY <1>0, <1>1, <2>1 DEF Publish, MissOf, client
<1>2. CASE UNCHANGED <<start, last, got>>
  BY <1>0, <1>2 DEF MissOf
<1>3. ASSUME NEW c \in Client, NEW id \in Event \cup {-1}, Connect(c, id) PROVE MissOf(d)'
  <2>1. CASE c # d
    BY <1>0, <1>3, <2>1 DEF TypeOK, Connect, MissOf
  <2>2. CASE c = d /\ id = -1
    BY <1>3, <2>2 DEF TypeOK, Connect, MissOf
  <2>3. CASE c = d /\ id # -1
    BY <1>0, <1>3, <2>3 DEF TypeOK, Connect, MissOf
  <2> QED BY <2>1, <2>2, <2>3
<1>4. ASSUME NEW c \in Client, ReceiveEvent(c) PROVE MissOf(d)'
  <2>1. CASE c # d
    BY <1>0, <1>4, <2>1 DEF TypeOK, ReceiveEvent, MissOf, producer
  <2>2. CASE c = d
    <3> DEFINE h == Head(wire[d])
    <3>1. /\ last'[d] = h /\ got'[d] = Append(got[d], h) /\ start' = start
      BY <1>4, <2>2 DEF ReceiveEvent, TypeOK, producer
    <3>2. h \in last[d] + 1 .. published - 1 /\ \A k \in last[d] + 1 .. h - 1 : k < start
      BY <1>4, <2>2, HeadOfWire DEF ReceiveEvent
    <3>3. got[d] \in Seq(Event) /\ last[d] \in Int /\ last[d] >= -1
      BY DEF TypeOK, Event
    <3>4. Range(got'[d]) = Range(got[d]) \cup {h}
      <4>1. /\ Len(got'[d]) = Len(got[d]) + 1 /\ Len(got[d]) \in Nat
            /\ DOMAIN got'[d] = 1 .. Len(got[d]) + 1 /\ DOMAIN got[d] = 1 .. Len(got[d])
            /\ \A i \in 1 .. Len(got[d]) : got'[d][i] = got[d][i]
            /\ got'[d][Len(got[d]) + 1] = h
        BY <3>1, <3>3
      <4>2. ASSUME NEW x \in Range(got'[d]) PROVE x \in Range(got[d]) \cup {h}
        BY <4>1, <4>2 DEF Range
      <4>3. ASSUME NEW x \in Range(got[d]) PROVE x \in Range(got'[d])
        <5>1. PICK i \in 1 .. Len(got[d]) : x = got[d][i]
          BY <4>1, <4>3 DEF Range
        <5>2. i \in 1 .. Len(got[d]) + 1 /\ x = got'[d][i]
          BY <4>1, <5>1
        <5> QED BY <4>1, <5>2 DEF Range
      <4>4. h \in Range(got'[d])
        <5>1. Len(got[d]) + 1 \in 1 .. Len(got[d]) + 1
          BY <4>1
        <5> QED BY <4>1, <5>1 DEF Range
      <4> QED BY <4>2, <4>3, <4>4
    <3>5. ASSUME NEW e \in 0 .. h, e \notin Range(got'[d]) PROVE e < start
      <4>1. e # h /\ e \notin Range(got[d])
        BY <3>4, <3>5
      <4>2. e \in 0 .. last[d] \/ e \in last[d] + 1 .. h - 1
        BY <3>2, <3>3, <4>1
      <4> QED BY <1>0, <3>2, <4>1, <4>2 DEF MissOf
    <3> HIDE DEF h
    <3> QED BY <3>1, <3>5 DEF MissOf
  <2> QED BY <2>1, <2>2
<1> QED
  BY <1>1, <1>2, <1>3, <1>4 DEF Next, vars, PublishEnd, Cleanup, Serve, SendEvent, SendEnd, Wait,
     Heartbeat, Receive, ReceiveEnd, Disconnect, producer, client

-----------------------------------------------------------------------------
(* The theorems. *)

LEMMA MemoryInductive == Spec => []MemoryInv
<1>1. Init => MemoryInv
  <2> SUFFICES ASSUME Init PROVE MemoryInv
    OBVIOUS
  <2>1. TypeOK /\ BufferInv
    BY TypeInit DEF Init, BufferInv
  <2>2. ASSUME NEW c \in Client PROVE StageOf(c) /\ WireOf(c) /\ CoverOf(c) /\ MissOf(c)
    BY DEF Init, StageOf, WireOf, CoverOf, MissOf
  <2> QED BY <2>1, <2>2 DEF MemoryInv, StageInv, WireInv, CoverInv, MissInv
<1>2. MemoryInv /\ [Next]_vars => MemoryInv'
  BY TypeStep, BufferStep, StageStep, WireStep, CoverStep, MissStep DEF MemoryInv
<1> QED BY <1>1, <1>2, PTL DEF Spec

\* In every execution the buffer, the subscriptions and what the clients know
\* keep their types: never more than MaxSize events are retained.
THEOREM MemoryTypeCorrect == Spec => []TypeOK
<1>1. MemoryInv => TypeOK
  BY DEF MemoryInv
<1> QED BY <1>1, MemoryInductive, PTL

\* In every execution a subscription that sleeps has nothing to read.
THEOREM NoWakeupLost == Spec => []NoLostWakeup
<1>1. MemoryInv => NoLostWakeup
  BY DEF MemoryInv, StageInv, StageOf, NoLostWakeup
<1> QED BY <1>1, MemoryInductive, PTL

\* In every execution, for every buffer size and however often the clients
\* reconnect, the buffer is bounded and an event a client missed was not among
\* the newest MaxSize.
THEOREM MemoryNewestEventsArrive == Spec => []RetentionOK
<1>1. MemoryInv => OnlyOldEventsMissed
  <2> SUFFICES ASSUME MemoryInv, NEW c \in Client, NEW e \in 0 .. last[c], e \notin Range(got[c])
               PROVE  e < published - MaxSize
    BY DEF OnlyOldEventsMissed
  <2>1. TypeOK /\ BufferInv /\ e < start
    BY DEF MemoryInv, MissInv, MissOf
  <2>2. start \in Nat /\ published \in Nat /\ start > 0
    BY <2>1, Positions, MemoryStreamAssumption DEF TypeOK
  <2> QED BY <2>1, <2>2, MemoryStreamAssumption DEF BufferInv
<1>2. MemoryInv => RetentionOK
  BY <1>1 DEF MemoryInv, RetentionOK
<1> QED BY <1>2, MemoryInductive, PTL

\* The bridge of one process implements what a stream bridge promises.
THEOREM MemoryRefinement == Spec => ImplementsEventStream
<1>1. Init => Promise!Init
  BY DEF Init, Promise!Init
<1>2. MemoryInv /\ [Next]_vars => [Promise!Next]_Promise!vars
  <2> SUFFICES ASSUME MemoryInv, [Next]_vars PROVE [Promise!Next]_Promise!vars
    OBVIOUS
  <2> DEFINE position == [c \in Client |-> last[c] + 1]
  <2>0. TypeOK /\ StageInv /\ WireInv /\ CoverInv
    BY DEF MemoryInv
  <2>1. CASE Publish
    <3>1. start' \in start .. published
      BY <2>0, <2>1, TrimType, Positions, MemoryStreamAssumption DEF Publish, TypeOK
    <3> QED BY <2>1, <3>1 DEF Publish, Promise!Next, Promise!Publish, client
  <2>2. CASE PublishEnd
    BY <2>2 DEF PublishEnd, Promise!Next, Promise!Close, client
  <2>3. CASE UNCHANGED <<published, start, ended, got, last, done>>
    BY <2>3 DEF Promise!vars
  <2>4. ASSUME NEW c \in Client, NEW id \in Event \cup {-1}, Connect(c, id)
        PROVE  [Promise!Next]_Promise!vars
    <3>1. CASE id = -1
      <4>1. position' = [position EXCEPT ![c] = 0]
        <5>1. last' = [last EXCEPT ![c] = -1] /\ last \in [Client -> Event \cup {-1}]
          BY <2>0, <2>4, <3>1 DEF Connect, TypeOK
        <5>2. -1 + 1 = 0
          OBVIOUS
        <5>3. position' = [x \in Client |-> last'[x] + 1]
          OBVIOUS
        <5>4. last'[c] = -1 /\ \A x \in Client \ {c} : last'[x] = last[x]
          BY <5>1
        <5> QED BY <5>2, <5>3, <5>4
      <4>2. Promise!Restart(c)
        BY <2>4, <3>1, <4>1 DEF Connect, Promise!Restart
      <4> QED BY <4>2 DEF Promise!Next
    <3>2. CASE id # -1
      BY <2>0, <2>3, <2>4, <3>2 DEF Connect, TypeOK
    <3> QED BY <3>1, <3>2
  <2>5. ASSUME NEW c \in Client, ReceiveEvent(c) PROVE [Promise!Next]_Promise!vars
    <3> DEFINE h == Head(wire[c])
    <3>1. /\ h \in position[c] .. published - 1
          /\ \A k \in position[c] .. h - 1 : k < start
      BY <2>0, <2>5, HeadOfWire DEF ReceiveEvent
    <3>2. ~done[c]
      BY <2>0, <2>5 DEF ReceiveEvent, StageInv, StageOf, TypeOK
    <3>3. position' = [position EXCEPT ![c] = h + 1]
      BY <2>0, <2>5 DEF ReceiveEvent, TypeOK
    <3>4. Promise!Receive(c)
      <4>1. Promise!Evicted(c, h)
        BY <3>1 DEF Promise!Evicted
      <4>2. got' = [got EXCEPT ![c] = Append(got[c], h)] /\ UNCHANGED <<published, start, ended, done>>
        BY <2>5 DEF ReceiveEvent, producer
      <4> HIDE DEF h
      <4> QED BY <3>1, <3>2, <3>3, <4>1, <4>2 DEF Promise!Receive
    <3> QED BY <3>4 DEF Promise!Next
  <2>6. ASSUME NEW c \in Client, ReceiveEnd(c) PROVE [Promise!Next]_Promise!vars
    <3>1. wire[c] \in Seq(Event \cup {END}) /\ Len(wire[c]) \in Nat /\ wire[c][1] = END
          /\ 1 \in 1 .. Len(wire[c]) /\ last[c] \in Int /\ next[c] \in Nat /\ published \in Nat
      <4>1. wire[c] \in Seq(Event \cup {END}) /\ wire[c] # <<>> /\ Head(wire[c]) = END
        BY <2>0, <2>6 DEF ReceiveEnd, TypeOK
      <4> QED BY <2>0, <4>1, Positions
    <3>2. StageOf(c) /\ WireOf(c) /\ CoverOf(c)
      BY <2>0 DEF StageInv, WireInv, CoverInv
    <3>3. 1 = Len(wire[c]) /\ pc[c] = "closing"
      BY <3>1, <3>2 DEF WireOf
    <3>4. ended /\ ~done[c] /\ stream[c] = "first"
      BY <3>2, <3>3 DEF StageOf
    <3>5. ASSUME NEW k \in position[c] .. published - 1 PROVE k < start
      <4>1. CASE k < next[c]
        <5>1. k \in last[c] + 1 .. next[c] - 1
          BY <3>1, <4>1
        <5>2. ~ \E i \in 1 .. Len(wire[c]) : wire[c][i] = k
          BY <3>1, <3>3, MemoryStreamAssumption
        <5> QED BY <3>2, <3>4, <5>1, <5>2 DEF CoverOf
      <4>2. CASE k >= next[c]
        <5>1. k \in next[c] .. published - 1
          BY <3>1, <4>2
        <5> QED BY <3>2, <3>3, <5>1 DEF CoverOf
      <4> QED BY <3>1, <4>1, <4>2
    <3>6. Promise!Finish(c)
      BY <2>6, <3>4, <3>5 DEF ReceiveEnd, Promise!Finish, Promise!Evicted, producer
    <3> QED BY <3>6 DEF Promise!Next
  <2> QED
    BY <2>1, <2>2, <2>3, <2>4, <2>5, <2>6
    DEF Next, vars, Cleanup, Serve, SendEvent, SendEnd, Wait, Heartbeat, Receive, Disconnect,
        producer, client
<1> QED BY <1>1, <1>2, MemoryInductive, PTL DEF Spec, ImplementsEventStream, Promise!Spec

-----------------------------------------------------------------------------
(* The Redis bridge. *)

\* The owner's record or the row says that the run is over.
Settled == status = "terminal" \/ row = "terminal"

\* Who publishes, who ends the stream, and how often: the worker once, and
\* the recovery once more when the row missed the terminal status.
WorkerInv ==
    /\ worker = "publishing" => status = "active" /\ row = "active"
    /\ worker \in {"publishing", "settling"} => ends = 0
    /\ worker \in {"settling", "ending"} => Settled
    /\ worker = "ending" => ends <= 1 /\ (row = "active" => ends = 0)
    /\ row = "active" => ends <= 1
    /\ ends > 0 => Settled

\* The newest entries, which no XADD drops: queue_maxsize events.
Kept == Total - MaxSize - (IF ends > 0 THEN 1 ELSE 0)
Old(e) == e < born \/ e < Kept

\* What an existing key lacks went with an older key or was trimmed.
FloorInv == StreamExists => floor <= born \/ floor <= Kept

\* A client and the response that serves it.
ReaderOf(c) ==
    /\ last[c] < published
    /\ pc[c] # "idle" => last[c] < next[c] /\ ~done[c]
    /\ record[c] = "terminal" => row = "terminal"

\* What a subscription passed over is gone, and was old.
SkipOf(c) == \A k \in last[c] + 1 .. next[c] - 1 : k < floor /\ Old(k)

\* What a client missed was old.
LostOf(c) == \A e \in 0 .. last[c] : e \notin Range(got[c]) => Old(e)

ReaderInv == \A c \in Client : ReaderOf(c)
SkipInv == \A c \in Client : SkipOf(c)
LostInv == \A c \in Client : LostOf(c)

RedisInv == RedisTypeOK /\ WorkerInv /\ FloorInv /\ ReaderInv /\ SkipInv /\ LostInv

-----------------------------------------------------------------------------
(* One more entry. *)

\* The numbers of a state are natural.
LEMMA Numbers ==
  ASSUME RedisTypeOK
  PROVE  /\ published \in Nat /\ ends \in Nat /\ floor \in Nat /\ born \in Nat /\ MaxSize \in Nat
         /\ Total \in Nat /\ Kept \in Int /\ published <= Total /\ floor <= Total /\ born <= Total
         /\ Total = published + ends
BY RedisStreamAssumption DEF RedisTypeOK, Total, Kept

LEMMA ReaderNumbers ==
  ASSUME RedisTypeOK, NEW c \in Client
  PROVE  /\ last[c] \in Int /\ last[c] >= -1 /\ next[c] \in Nat /\ upto[c] \in Nat
         /\ next[c] <= upto[c] /\ upto[c] <= Total
<1>1. last[c] \in Int /\ last[c] >= -1
  BY DEF RedisTypeOK, Event
<1>2. next[c] \in 0 .. Total /\ upto[c] \in 0 .. Total /\ next[c] <= upto[c]
  BY DEF RedisTypeOK
<1> QED BY <1>1, <1>2, Numbers

\* An XADD leaves at most n entries and moves the floor up, never past the
\* entry it adds; an absent key is born anew with this entry.
LEMMA XAddType ==
  ASSUME RedisTypeOK, NEW n \in Nat \ {0}, n <= MaxSize + 1, XAdd(n)
  PROVE  /\ floor' \in floor .. Total /\ Total + 1 - floor' <= MaxSize + 1
         /\ floor' = floor \/ (Total + 1 - floor > n /\ floor' = Total + 1 - n)
         /\ born' \in born .. Total
         /\ ~StreamExists => born' = Total
         /\ StreamExists => born' = born
<1>1. /\ floor \in Nat /\ Total \in Nat /\ floor <= Total /\ born \in Nat /\ born <= Total
      /\ MaxSize \in Nat /\ Total - floor <= MaxSize + 1
  BY Numbers DEF RedisTypeOK
<1> QED BY <1>1 DEF XAdd, KeyTrimmed, StreamExists

LEMMA AddEventType ==
  ASSUME RedisTypeOK, AddEvent
  PROVE  /\ published' = published + 1 /\ published' \in 0 .. MaxEvents /\ ends' = ends
         /\ Total' = Total + 1
         /\ floor' \in floor .. Total /\ Total' - floor' <= MaxSize + 1
         /\ floor' = floor \/ floor' = Total' - MaxSize
         /\ born' \in born .. Total
         /\ ~StreamExists => born' = Total
         /\ StreamExists => born' = born
<1>1. published' = published + 1 /\ published < MaxEvents /\ XAdd(MaxSize) /\ ends' = ends
  BY DEF AddEvent
<1>2. MaxSize \in Nat \ {0} /\ MaxSize <= MaxSize + 1
  BY RedisStreamAssumption
<1>3. published' \in 0 .. MaxEvents
  BY <1>1, RedisStreamAssumption DEF RedisTypeOK
<1>4. Total' = Total + 1
  BY <1>1, Numbers DEF Total
<1>5. /\ floor' \in floor .. Total /\ Total + 1 - floor' <= MaxSize + 1
      /\ floor' = floor \/ floor' = Total + 1 - MaxSize
      /\ born' \in born .. Total
      /\ ~StreamExists => born' = Total
      /\ StreamExists => born' = born
  BY <1>1, <1>2, XAddType
<1> QED BY <1>1, <1>3, <1>4, <1>5, Numbers

LEMMA AddEndType ==
  ASSUME RedisTypeOK, XAdd(MaxSize + 1), ends' = ends + 1, published' = published
  PROVE  /\ Total' = Total + 1
         /\ floor' \in floor .. Total /\ Total' - floor' <= MaxSize + 1
         /\ floor' = floor \/ floor' = Total' - (MaxSize + 1)
         /\ born' \in born .. Total
         /\ ~StreamExists => born' = Total
         /\ StreamExists => born' = born
<1>1. MaxSize + 1 \in Nat \ {0} /\ MaxSize + 1 <= MaxSize + 1
  BY RedisStreamAssumption
<1>2. Total' = Total + 1
  BY Numbers DEF Total
<1> QED BY <1>1, <1>2, XAddType, Numbers

-----------------------------------------------------------------------------
(* The server and the worker. *)

\* The server's part of a step: what was added, dropped and born.
ServerType ==
    /\ published \in 0 .. MaxEvents /\ ends \in 0 .. 2
    /\ floor \in 0 .. Total /\ Total - floor <= MaxSize + 1
    /\ born \in 0 .. Total

LEMMA Sums == \A m, n \in Nat : m + n \in Nat
OBVIOUS

LEMMA ServerTotal == ServerType' => Total' \in Nat
<1>1. ServerType' => published' \in Nat /\ ends' \in Nat
  BY RedisStreamAssumption DEF ServerType
<1> QED BY <1>1, Sums, Zenon DEF Total

\* Every step only adds entries and only moves the floor up.
LEMMA Growth ==
  ASSUME RedisTypeOK, WorkerInv, [RedisNext]_redisVars
  PROVE  /\ ServerType'
         /\ published' >= published /\ ends' >= ends /\ Total' >= Total
         /\ floor' >= floor /\ born' >= born
<1> USE RedisStreamAssumption
<1>0. ServerType /\ Total = published + ends
  BY DEF RedisTypeOK, ServerType, Total
<1>a. Total' = published' + ends'
  BY DEF Total
<1>1. CASE AddEvent
  BY <1>0, <1>1, AddEventType, Numbers DEF ServerType
<1>2. CASE RedisPublishEnd
  <2>1. CASE XAdd(MaxSize + 1) /\ ends' = ends + 1 /\ published' = published
    <3>1. ends <= 1
      BY <1>2 DEF RedisPublishEnd, WorkerInv
    <3> QED BY <1>0, <2>1, <3>1, AddEndType, Numbers DEF ServerType
  <2>2. CASE UNCHANGED server
    BY <1>0, <1>a, <2>2, Numbers DEF server, ServerType
  <2> QED BY <1>2, <2>1, <2>2 DEF RedisPublishEnd
<1>3. CASE UNCHANGED <<published, ends, born>> /\ floor' \in {floor, Total}
  <2>1. Total' = Total
    BY <1>0, <1>a, <1>3
  <2>2. CASE floor' = floor
    BY <1>0, <1>3, <2>1, <2>2, Numbers DEF ServerType
  <2>3. CASE floor' = Total
    <3>1. Total - Total = 0 /\ Total \in 0 .. Total /\ 0 <= MaxSize + 1
      BY Numbers
    <3>2. floor' \in 0 .. Total' /\ Total' - floor' <= MaxSize + 1 /\ floor' >= floor
      BY <2>1, <2>3, <3>1, Numbers
    <3>3. ServerType'
      BY <1>0, <1>3, <2>1, <3>2 DEF ServerType
    <3> QED BY <1>3, <2>1, <3>2, <3>3, Numbers
  <2> QED BY <1>3, <2>2, <2>3
<1>4. CASE UNCHANGED server
  BY <1>3, <1>4 DEF server
<1> QED
  BY <1>1, <1>2, <1>3, <1>4
  DEF RedisNext, redisVars, server, RedisPublish, Settle, PublishLast, RedisCleanup, Expire,
      Crash, Recover, RedisConnect,
      RedisServe, ProbeEnds, ProbePasses, XRead, DeliverEvent, DeliverEnd, XReadFails,
          RedisDisconnect

LEMMA WorkerStep == RedisTypeOK /\ WorkerInv /\ [RedisNext]_redisVars => WorkerInv'
<1> SUFFICES ASSUME RedisTypeOK, WorkerInv, [RedisNext]_redisVars PROVE WorkerInv'
  OBVIOUS
<1>0. ends \in Nat /\ status \in Status /\ row \in Status
  BY DEF RedisTypeOK
<1> USE DEF Settled
<1>1. CASE RedisPublish
  BY <1>1 DEF RedisPublish, AddEvent, run, WorkerInv
<1>2. CASE Settle
  BY <1>0, <1>2 DEF Settle, server, WorkerInv, Status
<1>3. CASE PublishLast
  BY <1>0, <1>3 DEF PublishLast, AddEvent, server, WorkerInv
<1>4. CASE RedisPublishEnd
  BY <1>0, <1>4 DEF RedisPublishEnd, server, WorkerInv, Status
<1>5. CASE RedisCleanup
  BY <1>0, <1>5 DEF RedisCleanup, WorkerInv
<1>6. CASE Crash
  BY <1>0, <1>6 DEF Crash, server, WorkerInv
<1>7. CASE Recover
  BY <1>0, <1>7 DEF Recover, server, WorkerInv
<1>8. CASE UNCHANGED <<ends, run>>
  BY <1>8 DEF run, WorkerInv
<1> QED
  BY <1>1, <1>2, <1>3, <1>4, <1>5, <1>6, <1>7, <1>8
  DEF RedisNext, redisVars, server, run, Expire, RedisConnect,
      RedisServe, ProbeEnds, ProbePasses, XRead, DeliverEvent, DeliverEnd, XReadFails,
          RedisDisconnect

\* What was old stays old.
LEMMA OldStays ==
  ASSUME RedisTypeOK, WorkerInv, [RedisNext]_redisVars, NEW e \in Int, Old(e)
  PROVE  Old(e)'
<1>1. published' >= published /\ ends' >= ends /\ born' >= born /\ ServerType'
  BY Growth
<1>2. published' \in Nat /\ ends' \in Nat /\ born' \in Nat
  BY <1>1 DEF ServerType
<1>3. ends > 0 \/ ends = 0
  BY Numbers
<1> QED BY <1>1, <1>2, <1>3, Numbers DEF Old, Kept, Total

LEMMA FloorStep == RedisTypeOK /\ WorkerInv /\ FloorInv /\ [RedisNext]_redisVars => FloorInv'
<1> SUFFICES ASSUME RedisTypeOK, WorkerInv, FloorInv, [RedisNext]_redisVars PROVE FloorInv'
  OBVIOUS
<1> USE RedisStreamAssumption
<1>1. ASSUME AddEvent, ends = 0 PROVE FloorInv'
  <2>1. Kept = Total - MaxSize /\ Kept' = Total' - MaxSize /\ Total' = Total + 1 /\ ends' = ends
    <3>1. Total' = Total + 1 /\ ends' = 0
      BY <1>1, AddEventType
    <3> QED BY <1>1, <3>1, Numbers DEF Kept
  <2>2. /\ floor' \in floor .. Total
        /\ floor' = floor \/ floor' = Total' - MaxSize
        /\ ~StreamExists => born' = Total
        /\ StreamExists => born' = born
    BY <1>1, AddEventType
  <2> QED BY <2>1, <2>2, Numbers DEF FloorInv
<1>2. CASE RedisPublishEnd
  <2>1. CASE XAdd(MaxSize + 1) /\ ends' = ends + 1 /\ published' = published
    <3>1. Kept' = Total' - MaxSize - 1 /\ Kept' >= Kept /\ Total' = Total + 1
      BY <2>1, AddEndType, Numbers DEF Kept
    <3>2. /\ floor' \in floor .. Total
          /\ floor' = floor \/ floor' = Total' - (MaxSize + 1)
          /\ ~StreamExists => born' = Total
          /\ StreamExists => born' = born
      BY <2>1, AddEndType
    <3> QED BY <3>1, <3>2, Numbers DEF FloorInv
  <2>2. CASE UNCHANGED server
    BY <2>2 DEF server, FloorInv, StreamExists, Kept, Total
  <2> QED BY <1>2, <2>1, <2>2 DEF RedisPublishEnd
<1>3. CASE UNCHANGED <<published, ends, born>> /\ floor' \in {floor, Total}
  BY <1>3, Numbers DEF FloorInv, StreamExists, Kept, Total
<1>4. CASE UNCHANGED server
  BY <1>3, <1>4 DEF server
<1>5. CASE RedisPublish \/ PublishLast
  BY <1>1, <1>4, <1>5 DEF RedisPublish, PublishLast, WorkerInv
<1> QED
  BY <1>2, <1>3, <1>4, <1>5
  DEF RedisNext, redisVars, server, Settle, RedisCleanup, Expire, Crash, Recover, RedisConnect,
      RedisServe, ProbeEnds, ProbePasses, XRead, DeliverEvent, DeliverEnd, XReadFails,
          RedisDisconnect

-----------------------------------------------------------------------------
(* The readers. *)

\* Where an XREAD starts.
First(c) == IF next[c] < floor THEN floor ELSE next[c]

LEMMA RedisTypeStep == RedisTypeOK /\ WorkerInv /\ ReaderInv /\ [RedisNext]_redisVars => RedisTypeOK'
<1> SUFFICES ASSUME RedisTypeOK, WorkerInv, ReaderInv, [RedisNext]_redisVars PROVE RedisTypeOK'
  OBVIOUS
<1> USE RedisStreamAssumption
<1>0. ServerType' /\ Total' \in Nat /\ Total' >= Total /\ Total \in Nat
  <2>1. ServerType' /\ Total' >= Total
    BY Growth
  <2>2. Total' \in Nat
    BY <2>1, ServerTotal
  <2> QED BY <2>1, <2>2, Numbers
<1>1. ASSUME UNCHANGED <<response, client>>
      PROVE RedisTypeOK' <=> status' \in Status /\ row' \in Status /\ worker' \in WorkerPc
  <2>1. next' \in [Client -> 0 .. Total'] /\ upto' \in [Client -> 0 .. Total']
    BY <1>0, <1>1 DEF RedisTypeOK, response
  <2> QED BY <1>0, <1>1, <2>1 DEF RedisTypeOK, ServerType, response, client
<1>2. CASE UNCHANGED <<response, client, run>>
  BY <1>1, <1>2 DEF run, RedisTypeOK
<1>3. CASE RedisPublish \/ Expire \/ UNCHANGED redisVars
  BY <1>2, <1>3 DEF RedisPublish, Expire, redisVars, run, response, client
<1>4. CASE Settle \/ PublishLast \/ RedisPublishEnd \/ RedisCleanup \/ Recover
  BY <1>1, <1>4 DEF Settle, PublishLast, RedisPublishEnd, RedisCleanup, Recover, RedisTypeOK,
      Status, WorkerPc
<1>5. CASE Crash
  <2>1. next' \in [Client -> 0 .. Total'] /\ upto' \in [Client -> 0 .. Total']
    BY <1>0, <1>5 DEF RedisTypeOK, Crash
  <2>2. pc' \in [Client -> RedisPc] /\ record' \in [Client -> Record]
    BY <1>5 DEF RedisTypeOK, Crash, RedisPc, Record
  <2> QED BY <1>0, <1>5, <2>1, <2>2 DEF RedisTypeOK, ServerType, Crash, client, WorkerPc
<1>6. ASSUME NEW c \in Client, NEW id \in Event \cup {-1}, NEW rec \in Record, RedisConnect(c, id, rec)
      PROVE  RedisTypeOK'
  <2>1. UNCHANGED <<published, ends, floor, born, status, row, worker>> /\ Total' = Total
    BY <1>6 DEF RedisConnect, server, run, Total
  <2>2. id + 1 \in 0 .. Total
    <3>1. last[c] < published /\ (id = -1 \/ id = last[c])
      BY <1>6 DEF RedisConnect, ReaderInv, ReaderOf
    <3> QED BY <3>1, Numbers, ReaderNumbers
  <2>3. next' \in [Client -> 0 .. Total'] /\ upto' \in [Client -> 0 .. Total']
        /\ \A d \in Client : next'[d] <= upto'[d]
    BY <1>6, <2>1, <2>2 DEF RedisConnect, RedisTypeOK
  <2>4. <<>> \in Seq(Event)
    OBVIOUS
  <2>5. got' \in [Client -> Seq(Event)] /\ last' \in [Client -> Event \cup {-1}]
    BY <1>6, <2>4 DEF RedisConnect, RedisTypeOK
  <2>6. pc' \in [Client -> RedisPc] /\ record' \in [Client -> Record]
    BY <1>6 DEF RedisConnect, RedisTypeOK, RedisPc
  <2>7. errors' \in [Client -> 0 .. MaxRetries] /\ done' \in [Client -> BOOLEAN]
        /\ connects' \in [Client -> 0 .. MaxConnects]
    BY <1>6 DEF RedisConnect, RedisTypeOK
  <2> QED BY <1>0, <2>1, <2>3, <2>5, <2>6, <2>7 DEF RedisTypeOK, ServerType
<1>7. ASSUME NEW c \in Client, ProbeEnds(c) \/ DeliverEnd(c) \/ RedisDisconnect(c) \/ ProbePasses(c)
      PROVE  RedisTypeOK'
  <2>1. /\ pc' \in [Client -> RedisPc] /\ record' \in [Client -> Record]
        /\ done' \in [Client -> BOOLEAN]
        /\ UNCHANGED <<server, run, next, upto, errors, last, got, connects>>
    BY <1>7 DEF ProbeEnds, DeliverEnd, RedisDisconnect, ProbePasses, Leave, RedisTypeOK,
        RedisPc, Record, client
  <2>2. Total' = Total
    BY <2>1 DEF server, Total
  <2> QED BY <1>0, <2>1, <2>2 DEF RedisTypeOK, ServerType, run
<1>8. ASSUME NEW c \in Client, XRead(c) PROVE RedisTypeOK'
  <2>1. /\ errors' \in [Client -> 0 .. MaxRetries] /\ pc' \in [Client -> RedisPc]
        /\ UNCHANGED <<server, run, record, client>>
    <3>1. errors' = [errors EXCEPT ![c] = 0] /\ UNCHANGED <<server, run, record, client>>
          /\ (pc' = pc \/ pc' = [pc EXCEPT ![c] = "probing"])
      BY <1>8 DEF XRead
    <3>2. 0 \in 0 .. MaxRetries
      OBVIOUS
    <3> QED BY <3>1, <3>2 DEF RedisTypeOK, RedisPc
  <2>2. Total' = Total
    BY <2>1 DEF server, Total
  <2>3. CASE UNCHANGED <<next, upto>>
    BY <1>0, <2>1, <2>2, <2>3 DEF RedisTypeOK, ServerType, run, client
  <2>4. CASE /\ First(c) < Total
             /\ next' = [next EXCEPT ![c] = First(c)]
             /\ upto' = [upto EXCEPT ![c] = IF First(c) + Count < Total THEN First(c) + Count ELSE Total]
    <3>1. First(c) \in 0 .. Total
      BY <2>4, Numbers, ReaderNumbers DEF First
    <3> DEFINE end == IF First(c) + Count < Total THEN First(c) + Count ELSE Total
    <3>2. end \in 0 .. Total /\ First(c) <= end
      BY <1>0, <2>4, <3>1
    <3> HIDE DEF end
    <3>3. next' \in [Client -> 0 .. Total'] /\ upto' \in [Client -> 0 .. Total']
          /\ \A d \in Client : next'[d] <= upto'[d]
      BY <2>2, <2>4, <3>1, <3>2 DEF RedisTypeOK, end
    <3> QED BY <1>0, <2>1, <3>3 DEF RedisTypeOK, ServerType, run, client
  <2> QED BY <1>8, <2>3, <2>4 DEF XRead, First
<1>9. ASSUME NEW c \in Client, XReadFails(c) PROVE RedisTypeOK'
  <2>1. /\ errors' \in [Client -> 0 .. MaxRetries] /\ pc' \in [Client -> RedisPc]
        /\ UNCHANGED <<server, run, record, next, upto, client>>
    <3>1. CASE errors[c] < MaxRetries
      <4>1. errors[c] + 1 \in 0 .. MaxRetries
        BY <3>1 DEF RedisTypeOK
      <4> QED BY <1>9, <3>1, <4>1 DEF XReadFails, RedisTypeOK
    <3>2. CASE ~(errors[c] < MaxRetries)
      BY <1>9, <3>2 DEF XReadFails, RedisTypeOK, RedisPc
    <3> QED BY <3>1, <3>2
  <2>2. Total' = Total
    BY <2>1 DEF server, Total
  <2> QED BY <1>0, <2>1, <2>2 DEF RedisTypeOK, ServerType, run, client
<1>10. ASSUME NEW c \in Client, DeliverEvent(c) PROVE RedisTypeOK'
  <2>1. UNCHANGED <<server, run, pc, record, upto, errors, done, connects>> /\ Total' = Total
    BY <1>10 DEF DeliverEvent, server, Total
  <2>2. next[c] \in Event /\ next[c] + 1 <= upto[c] /\ next[c] + 1 \in 0 .. Total
    <3>1. next[c] < published /\ next[c] # upto[c]
      BY <1>10 DEF DeliverEvent, BatchDone
    <3>2. published \in 0 .. MaxEvents
      BY DEF RedisTypeOK
    <3> QED BY <3>1, <3>2, ReaderNumbers, <1>0 DEF Event
  <2>3. next' \in [Client -> 0 .. Total'] /\ \A d \in Client : next'[d] <= upto'[d]
    BY <1>10, <2>1, <2>2 DEF DeliverEvent, RedisTypeOK
  <2>4. Append(got[c], next[c]) \in Seq(Event)
    BY <2>2 DEF RedisTypeOK
  <2>5. got' \in [Client -> Seq(Event)] /\ last' \in [Client -> Event \cup {-1}]
    BY <1>10, <2>2, <2>4 DEF DeliverEvent, RedisTypeOK
  <2> QED BY <1>0, <2>1, <2>3, <2>5 DEF RedisTypeOK, ServerType, run
<1> QED
  BY <1>3, <1>4, <1>5, <1>6, <1>7, <1>8, <1>9, <1>10 DEF RedisNext, RedisServe
LEMMA ReaderStep == RedisTypeOK /\ WorkerInv /\ ReaderInv /\ [RedisNext]_redisVars => ReaderInv'
<1> SUFFICES ASSUME RedisTypeOK, WorkerInv, ReaderInv, [RedisNext]_redisVars, NEW d \in Client
             PROVE  ReaderOf(d)'
  BY DEF ReaderInv
<1> USE RedisStreamAssumption
<1>0. ReaderOf(d) /\ published' >= published /\ published' \in Nat /\ last[d] < published'
  <2>1. ReaderOf(d)
    BY DEF ReaderInv
  <2>2. published' >= published /\ published' \in Nat
    BY Growth DEF ServerType
  <2> QED BY <2>1, <2>2, Numbers, ReaderNumbers DEF ReaderOf
<1>1. CASE UNCHANGED <<response, client>> /\ (row = "terminal" => row' = "terminal")
  BY <1>0, <1>1 DEF ReaderOf, response, client
<1>2. CASE RedisPublish \/ Settle \/ PublishLast \/ RedisPublishEnd
           \/ RedisCleanup \/ Expire \/ Recover \/ UNCHANGED redisVars
  BY <1>1, <1>2 DEF RedisPublish, Settle, PublishLast, RedisPublishEnd, RedisCleanup, Expire,
      Recover, redisVars, run, response, client
<1>3. CASE Crash
  BY <1>0, <1>3 DEF Crash, ReaderOf, RedisTypeOK, client, Record
<1>4. ASSUME NEW c \in Client, NEW id \in Event \cup {-1}, NEW rec \in Record, RedisConnect(c, id, rec)
      PROVE  ReaderOf(d)'
  <2>1. CASE c # d
    BY <1>0, <1>4, <2>1 DEF RedisTypeOK, RedisConnect, ReaderOf, server, run
  <2>2. CASE c = d
    <3>1. id \in Int /\ id >= -1 /\ id < published /\ published' = published
      BY <1>0, <1>4, <2>2, Numbers DEF RedisConnect, ReaderOf, Event, server
    <3>2. last'[d] = id /\ next'[d] = id + 1 /\ done'[d] = FALSE /\ record'[d] = rec /\ row' = row
      BY <1>4, <2>2 DEF RedisConnect, RedisTypeOK, run
    <3>3. rec = "terminal" => row = "terminal"
      BY <1>4 DEF RedisConnect
    <3> QED BY <3>1, <3>2, <3>3 DEF ReaderOf
  <2> QED BY <2>1, <2>2
<1>5. ASSUME NEW c \in Client, ProbeEnds(c) \/ DeliverEnd(c) \/ RedisDisconnect(c)
      PROVE ReaderOf(d)'
  BY <1>0, <1>5 DEF ProbeEnds, DeliverEnd, RedisDisconnect, Leave, ReaderOf, RedisTypeOK,
      Record, run, client
<1>6. ASSUME NEW c \in Client, ProbePasses(c) \/ XReadFails(c) PROVE ReaderOf(d)'
  BY <1>0, <1>6 DEF ProbePasses, XReadFails, ReaderOf, RedisTypeOK, run, client
<1>7. ASSUME NEW c \in Client, XRead(c) PROVE ReaderOf(d)'
  <2>1. UNCHANGED <<last, done, record, row>> /\ (pc[c] # "idle" /\ pc[d] # "idle" <=> pc'[d] # "idle")
    BY <1>7 DEF XRead, RedisTypeOK, run, client
  <2>2. next'[d] = next[d] \/ (next'[d] = floor /\ next[d] < floor)
    BY <1>7 DEF XRead, RedisTypeOK
  <2>3. pc[d] # "idle" => last[d] < next'[d]
    BY <1>0, <2>2, Numbers, ReaderNumbers DEF ReaderOf
  <2> QED BY <1>0, <2>1, <2>3 DEF ReaderOf
<1>8. ASSUME NEW c \in Client, DeliverEvent(c) PROVE ReaderOf(d)'
  <2>1. CASE c # d
    BY <1>0, <1>8, <2>1 DEF RedisTypeOK, DeliverEvent, ReaderOf, run
  <2>2. CASE c = d
    <3>1. last'[d] = next[d] /\ next'[d] = next[d] + 1 /\ next[d] < published
          /\ UNCHANGED <<published, pc, done, record, row>>
      BY <1>8, <2>2 DEF RedisTypeOK, DeliverEvent, server, run
    <3> QED BY <1>0, <3>1, ReaderNumbers DEF ReaderOf
  <2> QED BY <2>1, <2>2
<1> QED
  BY <1>2, <1>3, <1>4, <1>5, <1>6, <1>7, <1>8 DEF RedisNext, RedisServe

LEMMA SkipStep ==
  RedisTypeOK /\ WorkerInv /\ FloorInv /\ SkipInv /\ [RedisNext]_redisVars => SkipInv'
<1> SUFFICES ASSUME RedisTypeOK, WorkerInv, FloorInv, SkipInv, [RedisNext]_redisVars, NEW d \in Client
             PROVE  SkipOf(d)'
  BY DEF SkipInv
<1>a. last[d] \in Int /\ next[d] \in Nat
  BY ReaderNumbers
<1>0. ASSUME NEW k \in last[d] + 1 .. next[d] - 1 PROVE k < floor' /\ Old(k)'
  <2>1. k < floor /\ Old(k) /\ k \in Int
    BY <1>a DEF SkipInv, SkipOf
  <2>2. floor' >= floor /\ floor' \in Nat /\ floor \in Nat
    BY Growth, Numbers DEF ServerType
  <2> QED BY <2>1, <2>2, OldStays
<1>1. CASE UNCHANGED <<last, next>>
  BY <1>0, <1>1 DEF SkipOf
<1>2. ASSUME NEW c \in Client, NEW id \in Event \cup {-1}, NEW rec \in Record, RedisConnect(c, id, rec)
      PROVE  SkipOf(d)'
  <2>1. CASE c # d
    BY <1>0, <1>2, <2>1 DEF RedisTypeOK, RedisConnect, SkipOf
  <2>2. CASE c = d
    <3>1. last'[d] = id /\ next'[d] = id + 1 /\ id \in Int
      BY <1>2, <2>2 DEF RedisTypeOK, RedisConnect, Event
    <3> QED BY <3>1 DEF SkipOf
  <2> QED BY <2>1, <2>2
<1>3. ASSUME NEW c \in Client, XRead(c) PROVE SkipOf(d)'
  <2>1. UNCHANGED <<last, server>>
    BY <1>3 DEF XRead, client
  <2>2. CASE next'[d] = next[d]
    BY <1>0, <2>1, <2>2 DEF SkipOf
  <2>3. CASE next'[d] # next[d]
    <3>1. next'[d] = floor /\ next[d] < floor /\ StreamExists
      BY <1>3, <2>3 DEF XRead, RedisTypeOK, StreamExists
    <3>2. \A k \in Int : k < floor => Old(k)
      BY <3>1, Numbers DEF FloorInv, Old
    <3>3. ASSUME NEW k \in last[d] + 1 .. floor - 1 PROVE k < floor' /\ Old(k)'
      BY <1>a, <2>1, <3>2, Numbers, OldStays DEF server
    <3> QED BY <2>1, <3>1, <3>3 DEF SkipOf
  <2> QED BY <2>2, <2>3
<1>4. ASSUME NEW c \in Client, DeliverEvent(c) PROVE SkipOf(d)'
  <2>1. CASE c # d
    BY <1>0, <1>4, <2>1 DEF RedisTypeOK, DeliverEvent, SkipOf
  <2>2. CASE c = d
    <3>1. last'[d] = next[d] /\ next'[d] = next[d] + 1
      BY <1>4, <2>2 DEF RedisTypeOK, DeliverEvent
    <3> QED BY <1>a, <3>1 DEF SkipOf
  <2> QED BY <2>1, <2>2
<1> QED
  BY <1>1, <1>2, <1>3, <1>4
  DEF RedisNext, redisVars, response, client, RedisPublish, Settle, PublishLast,
      RedisPublishEnd, RedisCleanup, Expire, Crash,
      Recover, RedisServe, ProbeEnds, ProbePasses, DeliverEnd, XReadFails, RedisDisconnect
\* A client's events and the one it just received.
LEMMA RangeAppend ==
  ASSUME NEW S, NEW s \in Seq(S), NEW e \in S
  PROVE  Range(Append(s, e)) = Range(s) \cup {e}
<1> DEFINE t == Append(s, e)
<1>1. /\ Len(s) \in Nat /\ DOMAIN s = 1 .. Len(s) /\ DOMAIN t = 1 .. Len(s) + 1
      /\ \A i \in 1 .. Len(s) : t[i] = s[i]
      /\ t[Len(s) + 1] = e
  OBVIOUS
<1> HIDE DEF t
<1>2. ASSUME NEW x \in Range(t) PROVE x \in Range(s) \cup {e}
  BY <1>1, <1>2 DEF Range
<1>3. ASSUME NEW x \in Range(s) PROVE x \in Range(t)
  <2>1. PICK i \in 1 .. Len(s) : x = s[i]
    BY <1>1, <1>3 DEF Range
  <2>2. i \in 1 .. Len(s) + 1 /\ x = t[i]
    BY <1>1, <2>1
  <2> QED BY <1>1, <2>2 DEF Range
<1>4. e \in Range(t)
  <2>1. Len(s) + 1 \in 1 .. Len(s) + 1
    BY <1>1
  <2> QED BY <1>1, <2>1 DEF Range
<1> QED BY <1>2, <1>3, <1>4 DEF t

LEMMA LostStep ==
  RedisTypeOK /\ WorkerInv /\ SkipInv /\ LostInv /\ [RedisNext]_redisVars => LostInv'
<1> SUFFICES ASSUME RedisTypeOK, WorkerInv, SkipInv, LostInv, [RedisNext]_redisVars, NEW d \in Client
             PROVE  LostOf(d)'
  BY DEF LostInv
<1>a. last[d] \in Int /\ last[d] >= -1 /\ next[d] \in Nat
  BY ReaderNumbers
<1>0. ASSUME NEW e \in 0 .. last[d], e \notin Range(got[d]) PROVE Old(e)'
  BY <1>a, <1>0, OldStays DEF LostInv, LostOf
<1>1. CASE UNCHANGED <<last, got>>
  BY <1>0, <1>1 DEF LostOf
<1>2. ASSUME NEW c \in Client, NEW id \in Event \cup {-1}, NEW rec \in Record, RedisConnect(c, id, rec)
      PROVE  LostOf(d)'
  <2>1. CASE c # d
    BY <1>0, <1>2, <2>1 DEF RedisTypeOK, RedisConnect, LostOf
  <2>2. CASE c = d /\ id = -1
    BY <1>2, <2>2 DEF RedisTypeOK, RedisConnect, LostOf
  <2>3. CASE c = d /\ id # -1
    BY <1>0, <1>2, <2>3 DEF RedisTypeOK, RedisConnect, LostOf
  <2> QED BY <2>1, <2>2, <2>3
<1>3. ASSUME NEW c \in Client, DeliverEvent(c) PROVE LostOf(d)'
  <2>1. CASE c # d
    BY <1>0, <1>3, <2>1 DEF RedisTypeOK, DeliverEvent, LostOf
  <2>2. CASE c = d
    <3>1. /\ last'[d] = next[d] /\ got'[d] = Append(got[d], next[d])
          /\ next[d] < published /\ got[d] \in Seq(Event)
      BY <1>3, <2>2 DEF DeliverEvent, RedisTypeOK
    <3>2. next[d] \in Event
      <4>1. published \in 0 .. MaxEvents
        BY DEF RedisTypeOK
      <4> QED BY <1>a, <3>1, <4>1, RedisStreamAssumption DEF Event
    <3>3. Range(got'[d]) = Range(got[d]) \cup {next[d]}
      BY <3>1, <3>2, RangeAppend
    <3>4. ASSUME NEW e \in 0 .. next[d], e \notin Range(got'[d]) PROVE Old(e)'
      <4>1. e # next[d] /\ e \notin Range(got[d])
        BY <3>3, <3>4
      <4>2. CASE e \in 0 .. last[d]
        BY <1>0, <4>1, <4>2
      <4>3. CASE e \in last[d] + 1 .. next[d] - 1
        BY <4>3, OldStays DEF SkipInv, SkipOf
      <4> QED BY <1>a, <4>1, <4>2, <4>3
    <3> QED BY <3>1, <3>4 DEF LostOf
  <2> QED BY <2>1, <2>2
<1> QED
  BY <1>1, <1>2, <1>3
  DEF RedisNext, redisVars, response, client, RedisPublish, Settle, PublishLast,
      RedisPublishEnd, RedisCleanup, Expire, Crash,
      Recover, RedisServe, ProbeEnds, ProbePasses, DeliverEnd, XRead, XReadFails, RedisDisconnect

-----------------------------------------------------------------------------
(* The theorems. *)

LEMMA RedisInductive == RedisSpec => []RedisInv
<1>1. RedisInit => RedisInv
  <2> SUFFICES ASSUME RedisInit PROVE RedisInv
    OBVIOUS
  <2> USE RedisStreamAssumption
  <2>1. published = 0 /\ ends = 0 /\ floor = 0 /\ born = 0 /\ Total = 0
    BY DEF RedisInit, Total
  <2>2. RedisTypeOK
    <3>1. <<>> \in Seq(Event)
      OBVIOUS
    <3>2. got \in [Client -> Seq(Event)] /\ last \in [Client -> Event \cup {-1}]
      BY <3>1 DEF RedisInit
    <3>3. /\ next \in [Client -> 0 .. Total] /\ upto \in [Client -> 0 .. Total]
          /\ \A c \in Client : next[c] <= upto[c]
      BY <2>1 DEF RedisInit
    <3>4. Total - floor <= MaxSize + 1 /\ floor \in 0 .. Total /\ born \in 0 .. Total
      BY <2>1
    <3>5. errors \in [Client -> 0 .. MaxRetries] /\ connects \in [Client -> 0 .. MaxConnects]
      BY DEF RedisInit
    <3> QED BY <2>1, <3>2, <3>3, <3>4, <3>5 DEF RedisInit, RedisTypeOK, Status, WorkerPc,
        RedisPc, Record
  <2>3. WorkerInv /\ FloorInv
    BY <2>1 DEF RedisInit, WorkerInv, FloorInv, StreamExists
  <2>4. ASSUME NEW c \in Client PROVE ReaderOf(c) /\ SkipOf(c) /\ LostOf(c)
    BY DEF RedisInit, ReaderOf, SkipOf, LostOf
  <2> QED BY <2>2, <2>3, <2>4 DEF RedisInv, ReaderInv, SkipInv, LostInv
<1>2. RedisInv /\ [RedisNext]_redisVars => RedisInv'
  BY RedisTypeStep, WorkerStep, FloorStep, ReaderStep, SkipStep, LostStep DEF RedisInv
<1> QED BY <1>1, <1>2, PTL DEF RedisSpec

\* In every execution the key holds at most queue_maxsize events and one end
\* marker, and an event that a client missed was older than those, or went
\* with the key before the entry that created the present one: however often
\* the client changes the gateway, the reads fail and the run is recovered.
THEOREM RedisNewestEventsArrive == RedisSpec => []RedisRetentionOK
<1>1. RedisInv => RedisRetentionOK
  <2> SUFFICES ASSUME RedisInv PROVE RedisRetentionOK
    OBVIOUS
  <2>1. \A c \in Client : \A e \in 0 .. last[c] : e \notin Range(got[c]) => Old(e)
    BY DEF RedisInv, LostInv, LostOf
  <2>2. OnlyOldEntriesMissed
    BY <2>1 DEF OnlyOldEntriesMissed, Old, Kept
  <2> QED BY <2>2 DEF RedisInv, RedisRetentionOK
<1> QED BY <1>1, RedisInductive, PTL

\* What the promise calls floor.
OldestEvent == IF floor < published THEN floor ELSE published

\* The Redis bridge implements what a stream bridge promises, across gateways,
\* failed calls, crashes, recoveries and the expiry of the key.
THEOREM RedisRefinement == RedisSpec => RedisImplementsEventStream
<1>1. RedisInit => RedisPromise!Init
  BY DEF RedisInit, RedisPromise!Init
<1>2. RedisInv /\ [RedisNext]_redisVars => [RedisPromise!Next]_RedisPromise!vars
  <2> SUFFICES ASSUME RedisInv, [RedisNext]_redisVars PROVE [RedisPromise!Next]_RedisPromise!vars
    OBVIOUS
  <2> DEFINE position == [c \in Client |-> last[c] + 1]
  <2>0. RedisTypeOK /\ WorkerInv /\ ReaderInv /\ SkipInv
    BY DEF RedisInv
  <2>a. /\ OldestEvent \in Nat /\ published \in Nat /\ OldestEvent <= published
        /\ floor \in Nat /\ Total \in Nat /\ Total = published + ends /\ ends \in Nat
    BY <2>0, Numbers DEF OldestEvent
  <2>b. ServerType' /\ floor' >= floor /\ published' >= published
    BY <2>0, Growth
  <2>1. ASSUME AddEvent, ends = 0, UNCHANGED <<status, row, client>> PROVE RedisPromise!Next
    <3>1. published' = published + 1 /\ floor' \in floor .. Total /\ Total = published
      BY <2>0, <2>1, <2>a, AddEventType
    <3>2. OldestEvent' \in OldestEvent .. published
      BY <2>a, <3>1 DEF OldestEvent
    <3> QED BY <2>1, <3>1, <3>2 DEF RedisPromise!Next, RedisPromise!Publish, OldestEvent, client
  <2>2. ASSUME UNCHANGED <<published, status, row, client>> PROVE RedisPromise!Next
    <3>1. floor' \in Nat
      BY <2>b DEF ServerType
    <3>2. OldestEvent' \in OldestEvent .. published
      BY <2>2, <2>a, <2>b, <3>1 DEF OldestEvent
    <3> QED BY <2>2, <3>2 DEF RedisPromise!Next, RedisPromise!Expire, OldestEvent, client
  <2>3. ASSUME UNCHANGED <<published, floor, got, last, done>>,
               status = "terminal" \/ row = "terminal" <=> (status = "terminal" \/ row = "terminal")'
        PROVE  UNCHANGED RedisPromise!vars
    BY <2>3 DEF RedisPromise!vars
  <2>4. CASE RedisPublish \/ PublishLast
    <3>1. ends = 0
      BY <2>0, <2>4 DEF RedisPublish, PublishLast, WorkerInv
    <3> QED BY <2>1, <2>2, <2>4, <3>1 DEF RedisPublish, PublishLast, run, server
  <2>5. CASE RedisPublishEnd \/ RedisCleanup \/ Expire
    BY <2>2, <2>5 DEF RedisPublishEnd, RedisCleanup, Expire, server, run
  <2>6. CASE Settle \/ Recover
    <3>1. CASE status = "terminal" \/ row = "terminal"
      BY <2>0, <2>3, <2>6, <3>1 DEF Settle, Recover, WorkerInv, server, client
    <3>2. CASE ~(status = "terminal" \/ row = "terminal")
      BY <2>6, <3>2 DEF Settle, Recover, server, client, RedisPromise!Next, RedisPromise!Close
    <3> QED BY <3>1, <3>2
  <2>7. CASE Crash \/ UNCHANGED redisVars
    BY <2>3, <2>7 DEF Crash, redisVars, server, client
  <2>8. ASSUME NEW c \in Client, NEW id \in Event \cup {-1}, NEW rec \in Record,
               RedisConnect(c, id, rec)
        PROVE  [RedisPromise!Next]_RedisPromise!vars
    <3>1. CASE id = -1
      <4>1. position' = [position EXCEPT ![c] = 0]
        <5>1. last' = [last EXCEPT ![c] = -1] /\ last \in [Client -> Event \cup {-1}]
          BY <2>0, <2>8, <3>1 DEF RedisConnect, RedisTypeOK
        <5>2. -1 + 1 = 0
          OBVIOUS
        <5>3. position' = [x \in Client |-> last'[x] + 1]
          OBVIOUS
        <5>4. last'[c] = -1 /\ \A x \in Client \ {c} : last'[x] = last[x]
          BY <5>1
        <5> QED BY <5>2, <5>3, <5>4
      <4>2. RedisPromise!Restart(c)
        BY <2>8, <3>1, <4>1 DEF RedisConnect, RedisPromise!Restart, server, run
      <4> QED BY <4>2 DEF RedisPromise!Next
    <3>2. CASE id # -1
      BY <2>0, <2>3, <2>8, <3>2 DEF RedisConnect, RedisTypeOK, server, run
    <3> QED BY <3>1, <3>2
  <2>9. ASSUME NEW c \in Client, DeliverEvent(c) PROVE [RedisPromise!Next]_RedisPromise!vars
    <3> DEFINE h == next[c]
    <3>1. last[c] < h /\ ~done[c] /\ h < published /\ \A k \in last[c] + 1 .. h - 1 : k < floor
      BY <2>0, <2>9 DEF DeliverEvent, ReaderInv, ReaderOf, SkipInv, SkipOf
    <3>2. h \in position[c] .. published - 1
      BY <2>0, <2>a, <3>1, ReaderNumbers
    <3>3. \A k \in position[c] .. h - 1 : k < OldestEvent
      BY <2>0, <2>a, <3>1, ReaderNumbers DEF OldestEvent
    <3>4. position' = [position EXCEPT ![c] = h + 1]
      BY <2>0, <2>9 DEF DeliverEvent, RedisTypeOK
    <3>5. RedisPromise!Receive(c)
      <4>1. RedisPromise!Evicted(c, h)
        BY <3>3 DEF RedisPromise!Evicted, OldestEvent
      <4>2. got' = [got EXCEPT ![c] = Append(got[c], h)]
            /\ UNCHANGED <<published, floor, status, row, done>>
        BY <2>9 DEF DeliverEvent, server, run
      <4> HIDE DEF h
      <4> QED BY <3>1, <3>2, <3>4, <4>1, <4>2 DEF RedisPromise!Receive
    <3> QED BY <3>5 DEF RedisPromise!Next
  <2>10. ASSUME NEW c \in Client, pc[c] # "idle", Settled,
                \A k \in last[c] + 1 .. published - 1 : k < floor,
                done' = [done EXCEPT ![c] = TRUE], UNCHANGED <<server, run, got, last>>
         PROVE  RedisPromise!Next
    <3>1. ~done[c]
      BY <2>0, <2>10 DEF ReaderInv, ReaderOf
    <3>2. \A k \in position[c] .. published - 1 : k < OldestEvent
      BY <2>0, <2>a, <2>10, ReaderNumbers DEF OldestEvent
    <3>3. RedisPromise!Evicted(c, published)
      BY <3>2 DEF RedisPromise!Evicted, OldestEvent
    <3>4. RedisPromise!Finish(c)
      BY <2>10, <3>1, <3>3 DEF RedisPromise!Finish, Settled, server, run
    <3> QED BY <3>4 DEF RedisPromise!Next
  <2>11. ASSUME NEW c \in Client, DeliverEnd(c) PROVE RedisPromise!Next
    <3>1. next[c] >= published /\ next[c] # upto[c] /\ pc[c] = "reading"
      BY <2>11 DEF DeliverEnd, BatchDone
    <3>2. ends > 0
      BY <2>0, <2>a, <3>1, ReaderNumbers
    <3>3. Settled
      BY <2>0, <3>2 DEF WorkerInv
    <3>4. ASSUME NEW k \in last[c] + 1 .. published - 1 PROVE k < floor
      <4>1. k \in last[c] + 1 .. next[c] - 1
        BY <2>0, <2>a, <3>1, ReaderNumbers
      <4> QED BY <2>0, <4>1 DEF SkipInv, SkipOf
    <3> QED BY <2>10, <2>11, <3>1, <3>3, <3>4 DEF DeliverEnd
  <2>12. ASSUME NEW c \in Client, ProbeEnds(c) PROVE RedisPromise!Next
    <3>1. ~StreamExists /\ SeesTerminal(c) /\ pc[c] # "idle"
      BY <2>12 DEF ProbeEnds
    <3>2. Settled
      BY <2>0, <3>1 DEF SeesTerminal, Settled, ReaderInv, ReaderOf
    <3>3. ASSUME NEW k \in last[c] + 1 .. published - 1 PROVE k < floor
      BY <2>0, <2>a, <3>1, ReaderNumbers DEF StreamExists
    <3> QED BY <2>10, <2>12, <3>1, <3>2, <3>3 DEF ProbeEnds
  <2>13. ASSUME NEW c \in Client, ProbePasses(c) \/ XRead(c) \/ XReadFails(c) \/ RedisDisconnect(c)
         PROVE  [RedisPromise!Next]_RedisPromise!vars
    BY <2>3, <2>13 DEF ProbePasses, XRead, XReadFails, RedisDisconnect, server, run, client
  <2> QED
    BY <2>4, <2>5, <2>6, <2>7, <2>8, <2>9, <2>11, <2>12, <2>13 DEF RedisNext, RedisServe
<1> QED BY <1>1, <1>2, RedisInductive, PTL DEF RedisSpec, RedisImplementsEventStream,
    RedisPromise!Spec
=============================================================================
