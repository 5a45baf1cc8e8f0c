------------------------- MODULE WatchCache_proofs -------------------------
(***************************************************************************)
(* Proofs about the watch broadcaster: no send on a closed input channel,  *)
(* and no hole in what a client reads from one watch.                      *)
(***************************************************************************)
EXTENDS WatchCache, SequenceTheorems, TLAPS

-----------------------------------------------------------------------------
(* Channels *)

\* What TypeOK says of a channel: a sequence with a bounded length.
LEMMA BoundedIsSeq ==
  ASSUME NEW S, NEW n \in Nat
  PROVE  \A s : s \in Bounded(S, n) <=> s \in Seq(S) /\ Len(s) <= n
<1>1. ASSUME NEW s \in Bounded(S, n) PROVE s \in Seq(S) /\ Len(s) <= n
  <2>1. PICK k \in 0..n : s \in [1..k -> S]
    BY Zenon, <1>1 DEF Bounded
  <2>2. s \in Seq(S)
    BY <2>1, SeqDef
  <2>3. Len(s) = k
    BY <2>1, <2>2, LenProperties
  <2> QED BY <2>1, <2>2, <2>3
<1>2. ASSUME NEW s \in Seq(S), Len(s) <= n PROVE s \in Bounded(S, n)
  <2>1. Len(s) \in 0..n /\ s \in [1..Len(s) -> S]
    BY <1>2, LenProperties
  <2> QED BY Zenon, <2>1 DEF Bounded
<1> QED BY Zenon, <1>1, <1>2

\* No watcher is in NoSlot.
LEMMA NoSlotIsNone == NoSlot \notin Slots
  BY DEF NoSlot, Slots

\* Taking an event from a channel.
LEMMA TakeFrom ==
  ASSUME NEW S, NEW n \in Nat, NEW s \in Bounded(S, n), s # <<>>
  PROVE  /\ Head(s) \in S /\ Head(s) = s[1]
         /\ Tail(s) \in Bounded(S, n)
         /\ Len(s) \in Nat \ {0} /\ Len(Tail(s)) = Len(s) - 1
         /\ \A k \in 1..Len(Tail(s)) : Tail(s)[k] = s[k + 1]
<1>1. s \in Seq(S) /\ Len(s) <= n
  BY Zenon, BoundedIsSeq
<1>2. /\ Head(s) \in S /\ Tail(s) \in Seq(S) /\ Len(Tail(s)) = Len(s) - 1
      /\ \A k \in 1..Len(Tail(s)) : Tail(s)[k] = s[k + 1]
  BY Zenon, <1>1, HeadTailProperties
<1>3. Len(s) \in Nat \ {0}
  BY Zenon, <1>1, EmptySeq
<1>4. Len(Tail(s)) <= n
  BY <1>1, <1>2, <1>3
<1>5. Tail(s) \in Bounded(S, n)
  BY <1>2, <1>4, BoundedIsSeq, Zenon
<1> QED BY <1>1, <1>2, <1>3, <1>5

\* Putting an event into a channel that has room.
LEMMA PutInto ==
  ASSUME NEW S, NEW n \in Nat, NEW s \in Bounded(S, n), NEW e \in S, Len(s) < n
  PROVE  /\ Append(s, e) \in Bounded(S, n) /\ Append(s, e) # <<>>
         /\ Len(s) \in Nat /\ Len(Append(s, e)) = Len(s) + 1
         /\ \A k \in 1..Len(s) : Append(s, e)[k] = s[k]
         /\ Append(s, e)[Len(s) + 1] = e
<1>1. s \in Seq(S) /\ Len(s) \in Nat
  BY Zenon, BoundedIsSeq, LenProperties
<1>2. /\ Append(s, e) \in Seq(S) /\ Append(s, e) # <<>>
      /\ Len(Append(s, e)) = Len(s) + 1
      /\ \A k \in 1..Len(s) : Append(s, e)[k] = s[k]
      /\ Append(s, e)[Len(s) + 1] = e
  BY <1>1, AppendProperties
<1>3. Len(Append(s, e)) <= n
  BY <1>1, <1>2
<1>4. Append(s, e) \in Bounded(S, n)
  BY <1>2, <1>3, BoundedIsSeq, Zenon
<1> QED BY Zenon, <1>1, <1>2, <1>4

\* The empty channel, and what is left of one.
LEMMA EmptyChannel ==
  ASSUME NEW S, NEW n \in Nat
  PROVE  /\ <<>> \in Bounded(S, n) /\ Len(<<>>) = 0
         /\ \A s \in Bounded(S, n) : /\ Len(s) \in 0..n
                                     /\ s # <<>> => Len(s) # 0
                                     /\ \A k \in 1..Len(s) : s[k] \in S
<1>1. \A s \in Bounded(S, n) : s \in Seq(S) /\ Len(s) <= n
  BY Zenon, BoundedIsSeq
<1>2. <<>> \in Bounded(S, n) /\ Len(<<>>) = 0
  <2>1. <<>> \in Seq(S) /\ Len(<<>>) = 0
    BY Zenon, EmptySeq
  <2>2. Len(<<>>) <= n
    BY <2>1
  <2> QED BY <2>1, <2>2, BoundedIsSeq, Zenon
<1> QED BY <1>1, <1>2, EmptySeq, LenProperties, ElementOfSeq
-----------------------------------------------------------------------------
(* The inductive invariant *)

Busy == bc.pc \in {"pick", "try", "wait"}

\* The last event process has taken, and the last one that distribute has put
\* into the input of watcher i, if it is not stopped.
received == IF Busy THEN bc.event ELSE bc.done
reached(i) == IF Busy /\ i \notin bc.todo \cup {bc.at} THEN bc.event ELSE bc.done

\* Every commit is distributed, waits in incoming or is being sent, in order.
Commits ==
  /\ Busy => bc.event = bc.done + 1
  /\ \A k \in 1..Len(incoming) : incoming[k] = received + k
  /\ received + Len(incoming) + (IF sending THEN 1 ELSE 0) = committed
  /\ committed <= scenario.commits

\* While distribute adds to a watcher it has the lock, so nobody stops it.
Locked ==
  /\ bc.pc \in {"try", "wait"} => /\ bc.at \in Slots /\ bc.at \notin bc.todo
                                  /\ ~ watcher[bc.at].stopped
  /\ bc.pc \notin {"try", "wait"} => bc.at = NoSlot
  /\ ~ Busy => bc.todo = {}

last(s) == s[Len(s)]

\* A watcher whose goroutine still passes on what it gets.
Flowing(w) == ~ w.stopped /\ (w.pc = "select" \/ (w.pc = "send" /\ w.item # Expired))

\* What is on its way through watcher w ends with event r and has no hole.
Contiguous(w, r) ==
  /\ \A k \in 1..Len(w.input) : w.input[k] + Len(w.input) = r + k
  /\ w.pc = "send" => w.item + Len(w.input) = r
  /\ w.pc = "select" /\ w.result # <<>> => last(w.result) + Len(w.input) = r

\* A watcher to which r was added last; registered says whether it is known to
\* the broadcaster.  Once stopped it gets nothing and passes on nothing new.
WatcherOK(w, r, registered) ==
  /\ ~ w.stopped => registered /\ w.pc # "exited"
  /\ w.pc # "send" => w.item = 0
  /\ Follows(w.result)
  /\ w.pc \in {"select", "send"} /\ w.result # <<>> => last(w.result) # Expired
  /\ w.pc = "send" /\ w.result # <<>> => w.item \in {last(w.result) + 1, Expired}
  /\ Flowing(w) => Contiguous(w, r)

\* The client that reads from w has seen an event: the next one follows.
ReaderOK(w, seen, r) ==
  seen # 0 =>
    /\ w.result # <<>> => w.result[1] \in {seen + 1, Expired}
    /\ w.result = <<>> /\ w.pc = "send" => w.item \in {seen + 1, Expired}
    /\ w.result = <<>> /\ w.pc = "select" /\ ~ w.stopped => seen + Len(w.input) = r

WatchersOK == \A i \in Slots : WatcherOK(watcher[i], reached(i), i \in watchers)

\* A client has the slots of its own, one at a time.
SlotsOwned ==
  \A c \in Clients :
    /\ client[c].pc \in {"read", "stop"} => client[c].slot \in Slots /\ client[c].slot[1] = c
    /\ client[c].pc \in {"list", "watch"} => client[c].slot = NoSlot

ReadersOK ==
  \A c \in Clients :
    client[c].pc = "read" =>
      ReaderOK(watcher[client[c].slot], client[c].seen, reached(client[c].slot))

\* The inductive invariant of the broadcaster, its watchers and their clients.
IInv ==
  /\ TypeOK /\ Commits /\ Locked /\ WatchersOK /\ SlotsOwned /\ ReadersOK
  /\ NeverSendsOnClosedInput

-----------------------------------------------------------------------------
(* One watcher *)

LEMMA Sizes == ChanSize \in Nat /\ IncomingSize \in Nat /\ MaxCommits \in Nat
  BY Zenon, SizesAssumption

\* The fields of a watcher.
LEMMA WatcherFields ==
  ASSUME NEW w \in Watcher
  PROVE  /\ w.pc \in {"select", "send", "stop", "exited"} /\ w.stopped \in BOOLEAN
         /\ w.input \in Bounded(Events, ChanSize) /\ w.item \in 0..MaxCommits
         /\ w.result \in Bounded(Events \cup {Expired}, ChanSize)
         /\ Len(w.input) \in Nat /\ Len(w.result) \in Nat
         /\ w.input # <<>> => Len(w.input) # 0
         /\ w.result # <<>> => Len(w.result) # 0
         /\ \A k \in 1..Len(w.input) : w.input[k] \in 1..MaxCommits
         /\ \A k \in 1..Len(w.result) : w.result[k] \in 0..MaxCommits
<1>1. /\ w.pc \in {"select", "send", "stop", "exited"} /\ w.stopped \in BOOLEAN
      /\ w.input \in Bounded(Events, ChanSize) /\ w.item \in 0..MaxCommits
      /\ w.result \in Bounded(Events \cup {Expired}, ChanSize)
  BY Zenon DEF Watcher
<1>2. /\ Len(w.input) \in Nat /\ w.input # <<>> => Len(w.input) # 0
      /\ \A k \in 1..Len(w.input) : w.input[k] \in Events
  BY Zenon, <1>1, EmptyChannel, Sizes
<1>3. /\ Len(w.result) \in Nat /\ w.result # <<>> => Len(w.result) # 0
      /\ \A k \in 1..Len(w.result) : w.result[k] \in Events \cup {Expired}
  BY Zenon, <1>1, EmptyChannel, Sizes
<1> QED BY <1>1, <1>2, <1>3, Sizes DEF Events, Expired

\* What is stopped does not depend on what the broadcaster does.
LEMMA StoppedKeeps ==
  ASSUME NEW w, NEW r, NEW r2, NEW g, NEW g2, WatcherOK(w, r, g), w.stopped
  PROVE  /\ WatcherOK(w, r2, g2)
         /\ \A seen : ReaderOK(w, seen, r) => ReaderOK(w, seen, r2)
  BY Zenon DEF WatcherOK, Flowing, ReaderOK

\* dostop.
LEMMA StopKeeps ==
  ASSUME NEW w \in Watcher, NEW r, NEW r2, NEW g, NEW g2, WatcherOK(w, r, g)
  PROVE  LET v == [w EXCEPT !.stopped = TRUE]
         IN  /\ v \in Watcher /\ v.stopped /\ WatcherOK(v, r2, g2)
             /\ \A seen : ReaderOK(w, seen, r) => ReaderOK(v, seen, r2)
<1> DEFINE v == [w EXCEPT !.stopped = TRUE]
<1>1. /\ v \in Watcher /\ v.stopped = TRUE /\ v.pc = w.pc /\ v.item = w.item
      /\ v.input = w.input /\ v.result = w.result
  BY Zenon DEF Watcher
<1> HIDE DEF v
<1>2. WatcherOK(v, r2, g2)
  BY Zenon, <1>1 DEF WatcherOK, Flowing
<1>3. ASSUME NEW seen, ReaderOK(w, seen, r) PROVE ReaderOK(v, seen, r2)
  BY Zenon, <1>1, <1>3 DEF ReaderOK
<1> QED BY Zenon, <1>1, <1>2, <1>3 DEF v

\* add: the next event goes into the input.
LEMMA AddKeeps ==
  ASSUME NEW w \in Watcher, NEW r \in Nat, NEW e \in Events, NEW g,
         WatcherOK(w, r, g), HasRoom(w.input), e = r + 1
  PROVE  LET v == [w EXCEPT !.input = Append(@, e)]
         IN  /\ v \in Watcher /\ v.stopped = w.stopped /\ WatcherOK(v, e, g)
             /\ \A seen \in Nat : ReaderOK(w, seen, r) => ReaderOK(v, seen, e)
<1> DEFINE s == Append(w.input, e)
           v == [w EXCEPT !.input = s]
<1>0. e \in Nat
  BY Sizes DEF Events
<1>1. /\ s \in Bounded(Events, ChanSize)
      /\ Len(w.input) \in Nat /\ Len(s) = Len(w.input) + 1
      /\ \A k \in 1..Len(w.input) : s[k] = w.input[k]
      /\ s[Len(w.input) + 1] = e
  BY PutInto, WatcherFields, Sizes DEF HasRoom
<1> HIDE DEF s
<1>2. /\ v \in Watcher /\ v.stopped = w.stopped /\ v.pc = w.pc /\ v.item = w.item
      /\ v.input = s /\ v.result = w.result
  BY Zenon, <1>1 DEF Watcher
<1> HIDE DEF v
<1>3. ASSUME Flowing(w) PROVE Contiguous(v, e)
  <2>1. Contiguous(w, r)
    BY Zenon, <1>3 DEF WatcherOK
  <2>2. ASSUME NEW k \in 1..Len(s) PROVE s[k] + Len(s) = e + k
    <3>1. CASE k = Len(w.input) + 1
      BY Zenon, <3>1, <1>0, <1>1
    <3>2. CASE k \in 1..Len(w.input)
      <4>1. w.input[k] \in Nat /\ w.input[k] + Len(w.input) = r + k
        BY <3>2, <2>1, WatcherFields, Sizes DEF Contiguous
      <4>2. s[k] = w.input[k] /\ Len(s) = Len(w.input) + 1 /\ Len(w.input) \in Nat
        BY Zenon, <1>1, <3>2
      <4>3. k \in Nat /\ e = r + 1 /\ r \in Nat
        BY <1>0, <3>2
      <4>4. w.input[k] + (Len(w.input) + 1) = (r + 1) + k
        <5>1. PICK a \in Nat, n \in Nat : a = w.input[k] /\ n = Len(w.input)
          BY ONLY <4>1, <4>2, Zenon
        <5>2. a + n = r + k
          BY ONLY <4>1, <5>1, Zenon
        <5>3. a + (n + 1) = (r + 1) + k
          BY ONLY <4>3, <5>2, SMT
        <5> QED BY ONLY <5>1, <5>3, Zenon
      <4> QED BY ONLY <4>2, <4>3, <4>4, Zenon
    <3> QED BY <3>1, <3>2, <1>1
  <2>3. w.pc = "send" => w.item + Len(s) = e
    <3> SUFFICES ASSUME w.pc = "send" PROVE w.item + Len(s) = e
      OBVIOUS
    <3>1. PICK a, n : a = w.item /\ n = Len(w.input)
      BY Zenon
    <3>2. a + n = r /\ Len(s) = n + 1
      BY Zenon, <1>1, <2>1, <3>1 DEF Contiguous
    <3>3. a \in Nat /\ n \in Nat
      BY <3>1, <1>1, WatcherFields, Sizes
    <3>4. a + (n + 1) = r + 1
      BY ONLY <3>2, <3>3, SMT
    <3> QED BY Zenon, <3>1, <3>2, <3>4
  <2>4. w.pc = "select" /\ w.result # <<>> => last(w.result) + Len(s) = e
    <3> SUFFICES ASSUME w.pc = "select", w.result # <<>> PROVE last(w.result) + Len(s) = e
      BY Zenon
    <3>1. last(w.result) \in Nat
      BY WatcherFields, Sizes DEF last
    <3>2. last(w.result) + Len(w.input) = r
      BY Zenon, <2>1 DEF Contiguous
    <3>3. Len(s) = Len(w.input) + 1 /\ Len(w.input) \in Nat
      BY Zenon, <1>1
    <3> QED BY <3>1, <3>2, <3>3, <1>0
  <2> QED BY Zenon, <1>2, <2>2, <2>3, <2>4 DEF Contiguous
<1>4. WatcherOK(v, e, g)
  BY Zenon, <1>2, <1>3 DEF WatcherOK, Flowing
<1>5. ASSUME NEW seen \in Nat, ReaderOK(w, seen, r) PROVE ReaderOK(v, seen, e)
  BY <1>1, <1>2, <1>5 DEF ReaderOK
<1> QED BY Zenon, <1>2, <1>4, <1>5 DEF v, s

\* cacheWatcher.process takes an event of a watcher that is not stopped.
LEMMA TakeKeeps ==
  ASSUME NEW w \in Watcher, NEW r \in Nat, NEW g, WatcherOK(w, r, g),
         w.pc = "select", w.input # <<>>, ~ w.stopped
  PROVE  LET v == [w EXCEPT !.input = Tail(@), !.pc = "send", !.item = Head(w.input)]
         IN  /\ v \in Watcher /\ v.stopped = w.stopped /\ WatcherOK(v, r, g)
             /\ \A seen \in Nat : ReaderOK(w, seen, r) => ReaderOK(v, seen, r)
<1> DEFINE s == Tail(w.input)
           e == Head(w.input)
           v == [w EXCEPT !.input = s, !.pc = "send", !.item = e]
<1>1. /\ e \in Events /\ e = w.input[1] /\ s \in Bounded(Events, ChanSize)
      /\ Len(w.input) \in Nat \ {0} /\ Len(s) = Len(w.input) - 1
      /\ \A k \in 1..Len(s) : s[k] = w.input[k + 1]
  BY TakeFrom, WatcherFields, Sizes
<1>2. e \in 1..MaxCommits /\ e \in Nat /\ e # Expired
  BY <1>1, Sizes DEF Events, Expired
<1> HIDE DEF s, e
<1>3. /\ v \in Watcher /\ v.stopped = w.stopped /\ v.pc = "send" /\ v.item = e
      /\ v.input = s /\ v.result = w.result
  <2>1. e \in 0..MaxCommits /\ s \in Bounded(Events, ChanSize)
    BY <1>1, <1>2, Sizes
  <2> QED BY Zenon, <2>1 DEF Watcher
<1> HIDE DEF v
<1>4. Contiguous(w, r)
  BY Zenon DEF WatcherOK, Flowing
<1>5. e + Len(s) = r
  <2>1. 1 \in 1..Len(w.input) /\ e = w.input[1] /\ Len(w.input) \in Nat
        /\ Len(s) = Len(w.input) - 1
    BY <1>1
  <2>2. w.input[1] + Len(w.input) = r + 1
    BY Zenon, <2>1, <1>4 DEF Contiguous
  <2> QED BY <2>1, <2>2, <1>2
<1>6. ASSUME NEW k \in 1..Len(s) PROVE s[k] + Len(s) = r + k
  <2>1. k + 1 \in 1..Len(w.input) /\ s[k] = w.input[k + 1]
    BY <1>1
  <2>2. w.input[k + 1] \in Nat /\ w.input[k + 1] + Len(w.input) = r + (k + 1)
    BY <2>1, <1>4, WatcherFields, Sizes DEF Contiguous
  <2>3. Len(w.input) \in Nat /\ Len(s) = Len(w.input) - 1 /\ k \in Nat
    BY <1>1
  <2>4. s[k] + Len(w.input) = r + (k + 1) /\ s[k] \in Nat
    BY Zenon, <2>1, <2>2
  <2>5. PICK a, n, m : a = s[k] /\ n = Len(w.input) /\ m = Len(s)
    BY Zenon
  <2>6. /\ a \in Nat /\ n \in Nat /\ k \in Nat /\ r \in Nat /\ m = n - 1
        /\ a + n = r + (k + 1)
    BY Zenon, <2>3, <2>4, <2>5
  <2>7. a + m = r + k
    BY ONLY <2>6, SMT
  <2> QED BY Zenon, <2>5, <2>7
<1>7. Contiguous(v, r)
  BY Zenon, <1>3, <1>5, <1>6 DEF Contiguous
<1>8. ASSUME w.result # <<>> PROVE last(w.result) \in Nat /\ e = last(w.result) + 1
  <2>1. last(w.result) \in Nat
    <3>1. Len(w.result) \in 1..Len(w.result)
      BY <1>8, WatcherFields
    <3>2. w.result[Len(w.result)] \in 0..MaxCommits
      BY Zenon, <3>1, WatcherFields
    <3> QED BY <3>2 DEF last
  <2>2. last(w.result) + Len(w.input) = r
    BY Zenon, <1>4, <1>8 DEF Contiguous
  <2>3. Len(w.input) \in Nat /\ Len(s) = Len(w.input) - 1
    BY Zenon, <1>1
  <2> QED BY <1>2, <1>5, <2>1, <2>2, <2>3
<1>9. WatcherOK(v, r, g)
  BY Zenon, <1>3, <1>7, <1>8 DEF WatcherOK
<1>10. ASSUME NEW seen \in Nat, ReaderOK(w, seen, r) PROVE ReaderOK(v, seen, r)
  BY <1>1, <1>2, <1>3, <1>5, <1>10 DEF ReaderOK
<1> QED BY Zenon, <1>3, <1>9, <1>10 DEF v, s, e

\* It drops the event of a stopped one.
LEMMA DropKeeps ==
  ASSUME NEW w \in Watcher, NEW r, NEW g, WatcherOK(w, r, g), w.input # <<>>, w.stopped
  PROVE  LET v == [w EXCEPT !.input = Tail(@)]
         IN  /\ v \in Watcher /\ v.stopped = w.stopped /\ WatcherOK(v, r, g)
             /\ \A seen : ReaderOK(w, seen, r) => ReaderOK(v, seen, r)
<1> DEFINE s == Tail(w.input)
           v == [w EXCEPT !.input = s]
<1>1. s \in Bounded(Events, ChanSize)
  BY Zenon, TakeFrom, WatcherFields, Sizes
<1> HIDE DEF s
<1>2. /\ v \in Watcher /\ v.stopped = w.stopped /\ v.pc = w.pc /\ v.item = w.item
      /\ v.result = w.result
  BY Zenon, <1>1 DEF Watcher
<1> HIDE DEF v
<1>3. WatcherOK(v, r, g)
  BY Zenon, <1>2 DEF WatcherOK, Flowing
<1>4. ASSUME NEW seen, ReaderOK(w, seen, r) PROVE ReaderOK(v, seen, r)
  BY Zenon, <1>2, <1>4 DEF ReaderOK
<1> QED BY Zenon, <1>2, <1>3, <1>4 DEF v, s

\* The timer of a remote watcher.
LEMMA ExpireKeeps ==
  ASSUME NEW w \in Watcher, NEW r, NEW g, WatcherOK(w, r, g), w.pc = "select"
  PROVE  LET v == [w EXCEPT !.pc = IF w.stopped THEN "stop" ELSE "send", !.item = Expired]
         IN  /\ v \in Watcher /\ v.stopped = w.stopped /\ WatcherOK(v, r, g)
             /\ \A seen : ReaderOK(w, seen, r) => ReaderOK(v, seen, r)
<1> DEFINE v == [w EXCEPT !.pc = IF w.stopped THEN "stop" ELSE "send", !.item = Expired]
<1>1. /\ v \in Watcher /\ v.stopped = w.stopped /\ v.item = Expired
      /\ v.pc = IF w.stopped THEN "stop" ELSE "send"
      /\ v.input = w.input /\ v.result = w.result
  <2>1. Expired \in 0..MaxCommits
    BY Sizes DEF Expired
  <2>2. (IF w.stopped THEN "stop" ELSE "send") \in {"select", "send", "stop", "exited"}
    BY Zenon
  <2> QED BY Zenon, <2>1, <2>2 DEF Watcher
<1> HIDE DEF v
<1>2. WatcherOK(v, r, g)
  BY Zenon, <1>1 DEF WatcherOK, Flowing, Expired
<1>3. ASSUME NEW seen, ReaderOK(w, seen, r) PROVE ReaderOK(v, seen, r)
  BY Zenon, <1>1, <1>3 DEF ReaderOK
<1> QED BY Zenon, <1>1, <1>2, <1>3 DEF v

\* afterSend of the one watcher.
sentNext(w) == IF w.item = Expired THEN "stop" ELSE "select"

\* sendEvent has put the item into the result; or, of a stopped watcher, not.
LEMMA SendKeeps ==
  ASSUME NEW w \in Watcher, NEW r \in Nat, NEW g, WatcherOK(w, r, g),
         w.pc = "send", HasRoom(w.result)
  PROVE  LET v == [w EXCEPT !.result = Append(@, w.item), !.pc = sentNext(w), !.item = 0]
         IN  /\ v \in Watcher /\ v.stopped = w.stopped /\ WatcherOK(v, r, g)
             /\ \A seen \in Nat : ReaderOK(w, seen, r) => ReaderOK(v, seen, r)
<1> DEFINE s == Append(w.result, w.item)
           v == [w EXCEPT !.result = s, !.pc = sentNext(w), !.item = 0]
<1>1. w.item \in Nat /\ w.item \in Events \cup {Expired} /\ 0 \in 0..MaxCommits
      /\ sentNext(w) \in {"stop", "select"}
  BY WatcherFields, Sizes DEF Events, Expired, sentNext
<1>2. /\ s \in Bounded(Events \cup {Expired}, ChanSize) /\ s # <<>>
      /\ Len(w.result) \in Nat /\ Len(s) = Len(w.result) + 1
      /\ \A k \in 1..Len(w.result) : s[k] = w.result[k]
      /\ s[Len(w.result) + 1] = w.item
  <2>1. /\ w.result \in Bounded(Events \cup {Expired}, ChanSize)
        /\ Len(w.result) < ChanSize /\ ChanSize \in Nat
    BY Zenon, WatcherFields, Sizes DEF HasRoom
  <2> QED BY ONLY <1>1, <2>1, PutInto
<1> HIDE DEF s
<1>3. /\ v \in Watcher /\ v.stopped = w.stopped /\ v.pc = sentNext(w) /\ v.item = 0
      /\ v.input = w.input /\ v.result = s
  BY Zenon, <1>1, <1>2 DEF Watcher
<1> HIDE DEF v
<1>4. last(s) = w.item
  BY Zenon, <1>2 DEF last
<1>5. Follows(s)
  <2> SUFFICES ASSUME NEW k \in 1 .. Len(s) - 1
               PROVE  s[k + 1] \in {s[k] + 1, Expired} /\ s[k] # Expired
    BY Zenon DEF Follows
  <2>1. k \in 1..Len(w.result) /\ s[k] = w.result[k]
    BY <1>2
  <2>2. CASE k = Len(w.result)
    <3>1. w.result # <<>> /\ last(w.result) = s[k] /\ s[k + 1] = w.item
      BY <2>1, <2>2, <1>2, EmptyChannel, Sizes DEF last
    <3> QED BY Zenon, <3>1 DEF WatcherOK
  <2>3. CASE k # Len(w.result)
    <3>1. k \in 1 .. Len(w.result) - 1 /\ k + 1 \in 1..Len(w.result)
      BY <2>1, <2>3, <1>2
    <3>2. w.result[k + 1] \in {w.result[k] + 1, Expired} /\ w.result[k] # Expired
      BY Zenon, <3>1 DEF WatcherOK, Follows
    <3>3. s[k + 1] = w.result[k + 1]
      BY Zenon, <3>1, <1>2
    <3> QED BY Zenon, <2>1, <3>2, <3>3
  <2> QED BY Zenon, <2>2, <2>3
<1>6. ASSUME Flowing(v) PROVE Contiguous(v, r)
  <2>1. v.pc = "select" /\ w.item # Expired /\ Flowing(w)
    BY Zenon, <1>3, <1>6 DEF Flowing, sentNext
  <2>2. Contiguous(w, r)
    BY Zenon, <2>1 DEF WatcherOK
  <2>3. last(s) + Len(w.input) = r
    BY Zenon, <2>2, <1>4 DEF Contiguous
  <2> QED BY Zenon, <1>3, <2>1, <2>2, <2>3 DEF Contiguous
<1>7. v.pc \in {"select", "send"} => last(s) # Expired
  BY Zenon, <1>3, <1>4 DEF sentNext
<1>8. WatcherOK(v, r, g)
  <2>1. v.pc # "send" /\ v.pc # "exited"
    BY Zenon, <1>3 DEF sentNext
  <2> QED BY Zenon, <1>3, <1>5, <1>6, <1>7, <2>1 DEF WatcherOK
<1>9. ASSUME NEW seen \in Nat, ReaderOK(w, seen, r) PROVE ReaderOK(v, seen, r)
  <2> SUFFICES ASSUME seen # 0 PROVE s[1] \in {seen + 1, Expired}
    <3>1. v.result # <<>> /\ v.result[1] = s[1]
      BY Zenon, <1>2, <1>3
    <3> QED BY Zenon, <3>1 DEF ReaderOK
  <2>1. CASE w.result = <<>>
    <3>1. Len(w.result) = 0
      BY Zenon, <2>1, EmptyChannel, Sizes
    <3>2. s[1] = w.item
      BY <3>1, <1>2
    <3> QED BY Zenon, <2>1, <3>2, <1>9 DEF ReaderOK
  <2>2. CASE w.result # <<>>
    <3>1. s[1] = w.result[1]
      BY <2>2, <1>2, WatcherFields
    <3> QED BY Zenon, <2>2, <3>1, <1>9 DEF ReaderOK
  <2> QED BY Zenon, <2>1, <2>2
<1> QED BY Zenon, <1>3, <1>8, <1>9 DEF v, s

LEMMA GiveUpKeeps ==
  ASSUME NEW w \in Watcher, NEW r, NEW g, WatcherOK(w, r, g), w.pc = "send", w.stopped
  PROVE  LET v == [w EXCEPT !.pc = sentNext(w), !.item = 0]
         IN  /\ v \in Watcher /\ v.stopped = w.stopped /\ WatcherOK(v, r, g)
             /\ \A seen : ReaderOK(w, seen, r) => ReaderOK(v, seen, r)
<1> DEFINE v == [w EXCEPT !.pc = sentNext(w), !.item = 0]
<1>1. 0 \in 0..MaxCommits /\ sentNext(w) \in {"stop", "select"}
  BY Sizes DEF sentNext
<1>2. /\ v \in Watcher /\ v.stopped = w.stopped /\ v.pc = sentNext(w) /\ v.item = 0
      /\ v.input = w.input /\ v.result = w.result
  BY Zenon, <1>1 DEF Watcher
<1> HIDE DEF v
<1>3. WatcherOK(v, r, g)
  BY Zenon, <1>1, <1>2 DEF WatcherOK, Flowing
<1>4. ASSUME NEW seen, ReaderOK(w, seen, r) PROVE ReaderOK(v, seen, r)
  BY Zenon, <1>1, <1>2, <1>4 DEF ReaderOK
<1> QED BY Zenon, <1>2, <1>3, <1>4 DEF v

\* process returns; its client still has the watcher.
LEMMA ExitKeeps ==
  ASSUME NEW w \in Watcher, NEW r, NEW r2, NEW g, NEW g2, WatcherOK(w, r, g), w.stopped
  PROVE  LET v == [w EXCEPT !.pc = "exited", !.input = <<>>, !.item = 0]
         IN  /\ v \in Watcher /\ v.stopped /\ WatcherOK(v, r2, g2)
             /\ \A seen : ReaderOK(w, seen, r) => ReaderOK(v, seen, r2)
<1> DEFINE v == [w EXCEPT !.pc = "exited", !.input = <<>>, !.item = 0]
<1>1. 0 \in 0..MaxCommits /\ <<>> \in Bounded(Events, ChanSize)
  BY Zenon, Sizes, EmptyChannel
<1>2. /\ v \in Watcher /\ v.stopped = w.stopped /\ v.pc = "exited" /\ v.item = 0
      /\ v.result = w.result
  BY Zenon, <1>1 DEF Watcher
<1> HIDE DEF v
<1>3. WatcherOK(v, r2, g2)
  BY Zenon, <1>2 DEF WatcherOK, Flowing
<1>4. ASSUME NEW seen, ReaderOK(w, seen, r) PROVE ReaderOK(v, seen, r2)
  BY Zenon, <1>2, <1>4 DEF ReaderOK
<1> QED BY Zenon, <1>2, <1>3, <1>4 DEF v

\* A slot that is not in use, and one just taken into use.
LEMMA FreshKeeps ==
  ASSUME NEW r \in Nat, NEW g
  PROVE  LET v == [NoWatcher EXCEPT !.pc = "select", !.stopped = FALSE]
         IN  /\ NoWatcher \in Watcher /\ NoWatcher.stopped /\ WatcherOK(NoWatcher, r, g)
             /\ v \in Watcher /\ WatcherOK(v, r, TRUE)
<1> DEFINE v == [NoWatcher EXCEPT !.pc = "select", !.stopped = FALSE]
<1>1. /\ 0 \in 0..MaxCommits /\ <<>> \in Bounded(Events, ChanSize)
      /\ <<>> \in Bounded(Events \cup {Expired}, ChanSize) /\ Len(<<>>) = 0
  BY Zenon, Sizes, EmptyChannel
<1>2. NoWatcher \in Watcher /\ v \in Watcher
  BY Zenon, <1>1 DEF NoWatcher, Watcher
<1>3. Follows(<<>>)
  BY <1>1 DEF Follows
<1>4. WatcherOK(NoWatcher, r, g) /\ NoWatcher.stopped
  BY Zenon, <1>3 DEF WatcherOK, NoWatcher, Flowing
<1>5. v.input = <<>> /\ v.result = <<>> /\ v.item = 0 /\ v.pc = "select" /\ v.stopped = FALSE
  BY Zenon DEF NoWatcher
<1> HIDE DEF v
<1>6. WatcherOK(v, r, TRUE)
  BY <1>1, <1>3, <1>5 DEF WatcherOK, Contiguous
<1> QED BY Zenon, <1>2, <1>4, <1>6 DEF v

\* watchHandler has read an event: it is what the client has seen last.
LEMMA ReadKeeps ==
  ASSUME NEW w \in Watcher, NEW r \in Nat, NEW g, WatcherOK(w, r, g), w.result # <<>>
  PROVE  LET v == [w EXCEPT !.result = Tail(@)]
         IN  /\ v \in Watcher /\ v.stopped = w.stopped /\ WatcherOK(v, r, g)
             /\ ReaderOK(v, Head(w.result), r)
             /\ Head(w.result) \in 0..MaxCommits
<1> DEFINE s == Tail(w.result)
           e == Head(w.result)
           v == [w EXCEPT !.result = s]
<1>1. /\ e \in Events \cup {Expired} /\ e = w.result[1]
      /\ s \in Bounded(Events \cup {Expired}, ChanSize)
      /\ Len(w.result) \in Nat \ {0} /\ Len(s) = Len(w.result) - 1
      /\ \A k \in 1..Len(s) : s[k] = w.result[k + 1]
  <2>1. w.result \in Bounded(Events \cup {Expired}, ChanSize) /\ ChanSize \in Nat
    BY Zenon, WatcherFields, Sizes
  <2> QED BY ONLY <2>1, w.result # <<>>, TakeFrom
<1>2. e \in 0..MaxCommits
  <2>1. e \in Events \/ e = Expired
    BY Zenon, <1>1
  <2> HIDE DEF e
  <2> QED BY <2>1, Sizes DEF Events, Expired
<1> HIDE DEF s, e
<1>3. /\ v \in Watcher /\ v.stopped = w.stopped /\ v.pc = w.pc /\ v.item = w.item
      /\ v.input = w.input /\ v.result = s
  BY Zenon, <1>1 DEF Watcher
<1> HIDE DEF v
<1>4. ASSUME s # <<>>
      PROVE  last(s) = last(w.result) /\ s[1] = w.result[2] /\ 1 \in 1 .. Len(w.result) - 1
  <2>1. Len(s) \in Nat \ {0}
    <3>1. Len(s) \in 0..ChanSize /\ Len(s) # 0
      BY Zenon, <1>1, <1>4, EmptyChannel, Sizes
    <3> QED BY ONLY <3>1, Sizes
  <2>2. Len(s) = Len(w.result) - 1 /\ Len(w.result) \in Nat
    BY Zenon, <1>1
  <2>3. Len(s) + 1 = Len(w.result) /\ Len(s) \in 1..Len(s) /\ 1 \in 1..Len(s)
    <3>1. \A n \in Nat \ {0}, m \in Nat :
            n = m - 1 => n + 1 = m /\ n \in 1..n /\ 1 \in 1..n
      OBVIOUS
    <3> QED BY ONLY <2>1, <2>2, <3>1, Zenon
  <2>4. s[Len(s)] = w.result[Len(s) + 1] /\ s[1] = w.result[1 + 1]
    BY Zenon, <2>3, <1>1
  <2> QED BY <2>1, <2>3, <2>4 DEF last
<1>5. Follows(s)
  <2> SUFFICES ASSUME NEW k \in 1 .. Len(s) - 1
               PROVE  s[k + 1] \in {s[k] + 1, Expired} /\ s[k] # Expired
    BY Zenon DEF Follows
  <2>1. /\ k \in 1..Len(s) /\ k + 1 \in 1..Len(s) /\ k + 1 \in 1 .. Len(w.result) - 1
    BY <1>1
  <2>2. s[k] = w.result[k + 1] /\ s[k + 1] = w.result[(k + 1) + 1]
    BY Zenon, <2>1, <1>1
  <2>3. /\ w.result[(k + 1) + 1] \in {w.result[k + 1] + 1, Expired}
        /\ w.result[k + 1] # Expired
    BY Zenon, <2>1 DEF WatcherOK, Follows
  <2> QED BY Zenon, <2>2, <2>3
<1>6. Contiguous(w, r) => Contiguous(v, r)
  BY Zenon, <1>3, <1>4 DEF Contiguous
<1>7. WatcherOK(v, r, g)
  BY Zenon, <1>3, <1>4, <1>5, <1>6 DEF WatcherOK, Flowing
<1>8. ReaderOK(v, e, r)
  <2> SUFFICES ASSUME e # 0 PROVE ReaderOK(v, e, r)
    BY Zenon DEF ReaderOK
  <2>1. CASE s # <<>>
    <3>1. w.result[1 + 1] \in {w.result[1] + 1, Expired}
      BY Zenon, <2>1, <1>4 DEF WatcherOK, Follows
    <3>2. s[1] \in {e + 1, Expired}
      BY Zenon, <3>1, <2>1, <1>1, <1>4
    <3> QED BY Zenon, <2>1, <3>2, <1>3 DEF ReaderOK
  <2>2. CASE s = <<>>
    <3>1. Len(w.result) = 1
      BY <2>2, <1>1, EmptyChannel, Sizes
    <3>2. last(w.result) = e
      BY Zenon, <3>1, <1>1 DEF last
    <3>3. v.pc = "send" => v.item \in {e + 1, Expired}
      BY Zenon, <3>2, <1>3 DEF WatcherOK
    <3>4. v.pc = "select" /\ ~ v.stopped => e + Len(v.input) = r
      BY Zenon, <3>2, <1>3 DEF WatcherOK, Flowing, Contiguous
    <3> QED BY Zenon, <2>2, <3>3, <3>4, <1>3 DEF ReaderOK
  <2> QED BY Zenon, <2>1, <2>2
<1> QED BY Zenon, <1>2, <1>3, <1>7, <1>8 DEF v, s, e

-----------------------------------------------------------------------------
(* The goroutine of a watcher *)

LEMMA ReachedIsNat == TypeOK => \A i \in Slots : reached(i) \in Nat
<1> SUFFICES ASSUME TypeOK PROVE bc.event \in Nat /\ bc.done \in Nat
  BY Zenon DEF reached
<1>1. bc.event \in 0..MaxCommits /\ bc.done \in 0..MaxCommits
  BY Zenon DEF TypeOK, Broadcaster
<1> QED BY <1>1, Sizes

\* A step that changes only watcher i and, maybe, its registration.
LEMMA OneWatcher ==
  ASSUME IInv, NEW i \in Slots, NEW v \in Watcher,
         watcher' = [watcher EXCEPT ![i] = v],
         UNCHANGED <<committed, sending, incoming, closed, bc, client, scenario, abandoned,
                     panicked>>,
         watchers' \in {watchers, watchers \ {i}},
         bc.pc \in {"try", "wait"} /\ bc.at = i => ~ v.stopped,
         WatcherOK(v, reached(i), i \in watchers'),
         client[i[1]].slot = i =>
           \A seen \in Nat : ReaderOK(watcher[i], seen, reached(i))
                            => ReaderOK(v, seen, reached(i))
  PROVE  IInv'
<1>1. /\ watcher \in [Slots -> Watcher] /\ watchers \subseteq Slots
      /\ client \in [Clients -> Client]
  BY Zenon DEF IInv, TypeOK
<1>2. watcher'[i] = v /\ \A j \in Slots \ {i} : watcher'[j] = watcher[j]
  BY Zenon, <1>1
<1>3. \A j : reached(j)' = reached(j)
  BY Zenon DEF reached, Busy
<1>4. \A j \in Slots \ {i} : j \in watchers' <=> j \in watchers
  BY Zenon
<1>5. Locked'
  BY Zenon, <1>2 DEF IInv, Locked, Busy
<1>6. WatchersOK'
  <2> SUFFICES ASSUME NEW j \in Slots
               PROVE  WatcherOK(watcher'[j], reached(j), j \in watchers')
    BY Zenon, <1>3 DEF WatchersOK
  <2>1. CASE j = i
    BY Zenon, <2>1, <1>2
  <2>2. CASE j # i
    <3>1. WatcherOK(watcher[j], reached(j), j \in watchers)
      BY Zenon DEF IInv, WatchersOK
    <3>2. watcher'[j] = watcher[j] /\ (j \in watchers' <=> j \in watchers)
      BY Zenon, <2>2, <1>2, <1>4
    <3> QED BY Zenon, <3>1, <3>2 DEF WatcherOK
  <2> QED BY Zenon, <2>1, <2>2
<1>7. SlotsOwned'
  BY Zenon DEF IInv, SlotsOwned
<1>8. ReadersOK'
  <2> SUFFICES ASSUME NEW c \in Clients, client[c].pc = "read"
               PROVE  ReaderOK(watcher'[client[c].slot], client[c].seen, reached(client[c].slot))
    BY Zenon, <1>3 DEF ReadersOK
  <2>1. ReaderOK(watcher[client[c].slot], client[c].seen, reached(client[c].slot))
    BY Zenon DEF IInv, ReadersOK
  <2>2. client[c].slot \in Slots /\ client[c].slot[1] = c
    BY Zenon DEF IInv, SlotsOwned
  <2>3. client[c].seen \in Nat
    <3>1. client[c].seen \in 0..MaxCommits
      BY Zenon, <1>1 DEF Client
    <3> QED BY <3>1, Sizes
  <2>4. CASE client[c].slot = i
    BY Zenon, <2>1, <2>2, <2>3, <2>4, <1>2
  <2>5. CASE client[c].slot # i
    BY Zenon, <2>1, <2>2, <2>5, <1>2
  <2> QED BY Zenon, <2>4, <2>5
<1>9. TypeOK'
  <2>1. watcher' \in [Slots -> Watcher] /\ watchers' \subseteq Slots
    BY Zenon, <1>1
  <2> QED BY Zenon, <2>1 DEF IInv, TypeOK
<1>10. Commits' /\ NeverSendsOnClosedInput'
  BY Zenon DEF IInv, Commits, received, Busy, NeverSendsOnClosedInput
<1> QED BY Zenon, <1>5, <1>6, <1>7, <1>8, <1>9, <1>10 DEF IInv

\* cacheWatcher.process.
LEMMA ProcessKeeps ==
  ASSUME IInv, NEW i \in Slots, Process(i)
  PROVE  IInv'
<1> DEFINE w == watcher[i]
           r == reached(i)
<1>1. /\ w \in Watcher /\ r \in Nat /\ WatcherOK(w, r, i \in watchers)
      /\ watcher \in [Slots -> Watcher]
  BY Zenon, ReachedIsNat DEF IInv, TypeOK, WatchersOK
<1>2. bc.pc \in {"try", "wait"} /\ bc.at = i => ~ w.stopped
  BY Zenon DEF IInv, Locked
<1>3. UNCHANGED <<committed, sending, incoming, closed, bc, client, scenario, abandoned,
                  panicked>>
  BY Zenon DEF Process
\* A step to v of the goroutine that leaves the watcher registered.
<1>4. ASSUME NEW v \in Watcher, watcher' = [watcher EXCEPT ![i] = v], UNCHANGED watchers,
             v.stopped = w.stopped, WatcherOK(v, r, i \in watchers),
             \A seen \in Nat : ReaderOK(w, seen, r) => ReaderOK(v, seen, r)
      PROVE  IInv'
  BY Zenon, <1>1, <1>2, <1>3, <1>4, OneWatcher
\* The return of the goroutine of u, which is watcher i, stopped.
<1>5. ASSUME NEW u \in Watcher, u.stopped, WatcherOK(u, r, i \in watchers),
             \A seen \in Nat : ReaderOK(w, seen, r) => ReaderOK(u, seen, r),
             bc.pc \in {"try", "wait"} => bc.at # i,
             watchers' \in {watchers, watchers \ {i}},
             watcher' = [watcher EXCEPT ![i] = IF client[i[1]].slot = i
                           THEN [u EXCEPT !.pc = "exited", !.input = <<>>, !.item = 0]
                           ELSE NoWatcher]
      PROVE  IInv'
  <2>1. CASE client[i[1]].slot = i
    <3> DEFINE v == [u EXCEPT !.pc = "exited", !.input = <<>>, !.item = 0]
    <3>1. /\ v \in Watcher /\ WatcherOK(v, r, i \in watchers')
          /\ \A seen : ReaderOK(u, seen, r) => ReaderOK(v, seen, r)
      BY Zenon, <1>5, ExitKeeps
    <3>2. watcher' = [watcher EXCEPT ![i] = v]
      BY Zenon, <1>5, <2>1
    <3> HIDE DEF v
    <3>3. \A seen \in Nat : ReaderOK(w, seen, r) => ReaderOK(v, seen, r)
      BY Zenon, <1>5, <3>1
    <3> QED BY Zenon, <1>1, <1>3, <1>5, <3>1, <3>2, <3>3, OneWatcher
  <2>2. CASE client[i[1]].slot # i
    <3>1. NoWatcher \in Watcher /\ WatcherOK(NoWatcher, r, i \in watchers')
      BY Zenon, <1>1, FreshKeeps
    <3>2. watcher' = [watcher EXCEPT ![i] = NoWatcher]
      BY Zenon, <1>5, <2>2
    <3> QED BY Zenon, <1>1, <1>3, <1>5, <2>2, <3>1, <3>2, OneWatcher
  <2> QED BY Zenon, <2>1, <2>2
<1>6. CASE Expire(i)
  <2> DEFINE v == [w EXCEPT !.pc = IF w.stopped THEN "stop" ELSE "send", !.item = Expired]
  <2>1. w.pc = "select" /\ UNCHANGED watchers
    BY Zenon, <1>6 DEF Expire
  <2>2. /\ v \in Watcher /\ v.stopped = w.stopped /\ WatcherOK(v, r, i \in watchers)
        /\ \A seen : ReaderOK(w, seen, r) => ReaderOK(v, seen, r)
    BY Zenon, <1>1, <2>1, ExpireKeeps
  <2>3. watcher' = [watcher EXCEPT ![i] = v]
    BY Zenon, <1>1, <1>6 DEF Expire
  <2> HIDE DEF v
  <2> QED BY Zenon, <1>4, <2>1, <2>2, <2>3
<1>7. CASE Take(i) /\ w.input # <<>> /\ w.stopped
  <2> DEFINE v == [w EXCEPT !.input = Tail(@)]
  <2>1. UNCHANGED watchers /\ watcher' = take(i)
    BY Zenon, <1>7 DEF Take
  <2>2. /\ v \in Watcher /\ v.stopped = w.stopped /\ WatcherOK(v, r, i \in watchers)
        /\ \A seen : ReaderOK(w, seen, r) => ReaderOK(v, seen, r)
    BY Zenon, <1>1, <1>7, DropKeeps
  <2>3. watcher' = [watcher EXCEPT ![i] = v]
    BY Zenon, <1>1, <1>7, <2>1 DEF take
  <2> HIDE DEF v
  <2> QED BY Zenon, <1>4, <2>1, <2>2, <2>3
<1>8. CASE Take(i) /\ w.input # <<>> /\ ~ w.stopped
  <2> DEFINE v == [w EXCEPT !.input = Tail(@), !.pc = "send", !.item = Head(w.input)]
  <2>1. UNCHANGED watchers /\ watcher' = take(i) /\ w.pc = "select"
    BY Zenon, <1>8 DEF Take
  <2>2. /\ v \in Watcher /\ v.stopped = w.stopped /\ WatcherOK(v, r, i \in watchers)
        /\ \A seen \in Nat : ReaderOK(w, seen, r) => ReaderOK(v, seen, r)
    BY Zenon, <1>1, <1>8, <2>1, TakeKeeps
  <2>3. watcher' = [watcher EXCEPT ![i] = v]
    BY Zenon, <1>1, <1>8, <2>1 DEF take
  <2> HIDE DEF v
  <2> QED BY Zenon, <1>4, <2>1, <2>2, <2>3
<1>9. CASE Take(i) /\ w.input = <<>>
  <2>1. w.stopped /\ watchers' = watchers /\ watcher' = Exit(watcher, i)
    BY Zenon, <1>9 DEF Take
  <2>2. watcher' = [watcher EXCEPT ![i] = IF client[i[1]].slot = i
                      THEN [w EXCEPT !.pc = "exited", !.input = <<>>, !.item = 0]
                      ELSE NoWatcher]
    BY Zenon, <2>1 DEF Exit
  <2> QED BY Zenon, <1>1, <1>2, <1>5, <2>1, <2>2
<1>10. CASE sendEvent(i)
  <2>1. w.pc = "send" /\ UNCHANGED watchers
    BY Zenon, <1>10 DEF sendEvent
  <2>2. CASE /\ HasRoom(w.result)
             /\ watcher' = afterSend([watcher EXCEPT ![i].result = Append(@, watcher[i].item)], i)
    <3> DEFINE v == [w EXCEPT !.result = Append(@, w.item), !.pc = sentNext(w), !.item = 0]
    <3>1. /\ v \in Watcher /\ v.stopped = w.stopped /\ WatcherOK(v, r, i \in watchers)
          /\ \A seen \in Nat : ReaderOK(w, seen, r) => ReaderOK(v, seen, r)
      BY Zenon, <1>1, <2>1, <2>2, SendKeeps
    <3>2. watcher' = [watcher EXCEPT ![i] = v]
      BY Zenon, <1>1, <2>2 DEF afterSend, sentNext
    <3> HIDE DEF v
    <3> QED BY Zenon, <1>4, <2>1, <3>1, <3>2
  <2>3. CASE w.stopped /\ watcher' = afterSend(watcher, i)
    <3> DEFINE v == [w EXCEPT !.pc = sentNext(w), !.item = 0]
    <3>1. /\ v \in Watcher /\ v.stopped = w.stopped /\ WatcherOK(v, r, i \in watchers)
          /\ \A seen : ReaderOK(w, seen, r) => ReaderOK(v, seen, r)
      BY Zenon, <1>1, <2>1, <2>3, GiveUpKeeps
    <3>2. watcher' = [watcher EXCEPT ![i] = v]
      BY Zenon, <1>1, <2>3 DEF afterSend, sentNext
    <3> HIDE DEF v
    <3> QED BY Zenon, <1>4, <2>1, <3>1, <3>2
  <2> QED BY Zenon, <1>10, <2>2, <2>3 DEF sendEvent
<1>11. CASE SelfStop(i)
  <2> DEFINE u == [w EXCEPT !.stopped = TRUE]
  <2>1. /\ Unlocked /\ watchers' = watchers \ {i}
        /\ watcher' = Exit(dostop(watcher, {i}), i)
    BY Zenon, <1>11 DEF SelfStop
  <2>2. /\ u \in Watcher /\ u.stopped /\ WatcherOK(u, r, i \in watchers)
        /\ \A seen : ReaderOK(w, seen, r) => ReaderOK(u, seen, r)
    BY Zenon, <1>1, StopKeeps
  <2>3. dostop(watcher, {i}) = [watcher EXCEPT ![i] = u]
    BY Zenon, <1>1 DEF dostop
  <2> HIDE DEF u
  <2>4. watcher' = [watcher EXCEPT ![i] = IF client[i[1]].slot = i
                      THEN [u EXCEPT !.pc = "exited", !.input = <<>>, !.item = 0]
                      ELSE NoWatcher]
    BY Zenon, <1>1, <2>1, <2>3 DEF Exit
  <2>5. bc.pc \notin {"try", "wait"}
    BY Zenon, <2>1 DEF Unlocked
  <2> QED BY Zenon, <1>5, <2>1, <2>2, <2>4, <2>5
<1> QED BY Zenon, <1>6, <1>7, <1>8, <1>9, <1>10, <1>11 DEF Process, Take

-----------------------------------------------------------------------------
(* The store and the broadcaster *)

LEMMA BroadcasterFields ==
  ASSUME TypeOK
  PROVE  /\ bc.pc \in {"receive", "pick", "try", "wait", "exited"}
         /\ bc.event \in 0..MaxCommits /\ bc.done \in 0..MaxCommits
         /\ bc.event \in Nat /\ bc.done \in Nat
         /\ bc.todo \subseteq Slots /\ bc.at \in Slots \cup {NoSlot}
         /\ committed \in Nat /\ incoming \in Bounded(Events, IncomingSize)
         /\ sending \in BOOLEAN /\ Len(incoming) \in Nat
<1>1. /\ bc.pc \in {"receive", "pick", "try", "wait", "exited"}
      /\ bc.event \in 0..MaxCommits /\ bc.done \in 0..MaxCommits
      /\ bc.todo \subseteq Slots /\ bc.at \in Slots \cup {NoSlot}
  BY Zenon DEF TypeOK, Broadcaster
<1>2. /\ committed \in 0..MaxCommits /\ incoming \in Bounded(Events, IncomingSize)
      /\ sending \in BOOLEAN
  BY Zenon DEF TypeOK
<1>3. Len(incoming) \in 0..IncomingSize
  BY Zenon, <1>2, EmptyChannel, Sizes
<1> QED BY <1>1, <1>2, <1>3, Sizes

\* The state of the store and of the broadcaster changes, no watcher does.
LEMMA NoWatcherChanges ==
  ASSUME IInv, UNCHANGED <<watchers, watcher, client>>,
         \A j \in Slots : ~ watcher[j].stopped => reached(j)' = reached(j)
  PROVE  WatchersOK' /\ SlotsOwned' /\ ReadersOK'
<1>1. ASSUME NEW j \in Slots
      PROVE  /\ WatcherOK(watcher[j], reached(j)', j \in watchers)
             /\ \A seen : ReaderOK(watcher[j], seen, reached(j))
                         => ReaderOK(watcher[j], seen, reached(j)')
  <2>1. WatcherOK(watcher[j], reached(j), j \in watchers)
    BY Zenon DEF IInv, WatchersOK
  <2>2. CASE watcher[j].stopped
    BY Zenon, <2>1, <2>2, StoppedKeeps
  <2>3. CASE ~ watcher[j].stopped
    BY Zenon, <2>1, <2>3
  <2> QED BY Zenon, <2>2, <2>3
<1>2. WatchersOK'
  BY Zenon, <1>1 DEF WatchersOK
<1>3. SlotsOwned'
  BY Zenon DEF IInv, SlotsOwned
<1>4. ReadersOK'
  <2> SUFFICES ASSUME NEW c \in Clients, client[c].pc = "read"
               PROVE  ReaderOK(watcher[client[c].slot], client[c].seen, reached(client[c].slot)')
    BY Zenon DEF ReadersOK
  <2>1. PICK j \in Slots : j = client[c].slot
    BY Zenon DEF IInv, SlotsOwned
  <2>2. ReaderOK(watcher[j], client[c].seen, reached(j))
    BY Zenon, <2>1 DEF IInv, ReadersOK
  <2>3. ReaderOK(watcher[j], client[c].seen, reached(j)')
    BY Zenon, <1>1, <2>2
  <2> QED BY Zenon, <2>1, <2>3 DEF reached, Busy
<1> QED BY Zenon, <1>2, <1>3, <1>4

LEMMA CommitKeeps == ASSUME IInv, Commit PROVE IInv'
<1>1. /\ ~ sending /\ committed < scenario.commits /\ committed' = committed + 1
      /\ sending' = TRUE
      /\ UNCHANGED <<incoming, closed, bc, watchers, watcher, client, scenario, abandoned,
                     panicked>>
  BY Zenon DEF Commit
<1>2. /\ committed \in Nat /\ bc.event \in Nat /\ bc.done \in Nat /\ Len(incoming) \in Nat
  BY Zenon, BroadcasterFields DEF IInv
<1>3. scenario.commits \in 0..MaxCommits
  BY Zenon, ScenariosAssumption DEF IInv, TypeOK
<1>4. committed' \in 0..MaxCommits /\ committed' <= scenario.commits
  BY <1>1, <1>2, <1>3, Sizes
<1>5. TypeOK'
  BY Zenon, <1>1, <1>4 DEF IInv, TypeOK
<1>6. received' = received /\ received \in Nat /\ Busy' = Busy
  BY Zenon, <1>1, <1>2 DEF received, Busy
<1>7. Commits'
  <2>1. received + Len(incoming) + 0 = committed
    BY Zenon, <1>1 DEF IInv, Commits
  <2>2. received + Len(incoming) + 1 = committed + 1
    BY <2>1, <1>2, <1>6
  <2> QED BY Zenon, <1>1, <1>4, <1>6, <2>2 DEF IInv, Commits
<1>8. Locked' /\ NeverSendsOnClosedInput'
  BY Zenon, <1>1 DEF IInv, Locked, Busy, NeverSendsOnClosedInput
<1>9. \A j : reached(j)' = reached(j)
  BY Zenon, <1>1 DEF reached, Busy
<1>10. WatchersOK' /\ SlotsOwned' /\ ReadersOK'
  BY Zenon, <1>1, <1>9, NoWatcherChanges
<1> QED BY Zenon, <1>5, <1>7, <1>8, <1>10 DEF IInv

LEMMA ActionKeeps == ASSUME IInv, Action PROVE IInv'
<1>1. /\ sending
      /\ UNCHANGED <<committed, closed, bc, watchers, watcher, client, scenario, abandoned>>
  BY Zenon DEF Action
<1>2. /\ committed \in Nat /\ bc.event \in Nat /\ bc.done \in Nat /\ Len(incoming) \in Nat
      /\ committed \in 0..MaxCommits /\ incoming \in Bounded(Events, IncomingSize)
  BY Zenon, BroadcasterFields DEF IInv, TypeOK
<1>3. received' = received /\ received \in Nat /\ Busy' = Busy
  BY Zenon, <1>1, <1>2 DEF received, Busy
<1>4. received + Len(incoming) + 1 = committed
  BY Zenon, <1>1 DEF IInv, Commits
<1>5. \A j : reached(j)' = reached(j)
  BY Zenon, <1>1 DEF reached, Busy
<1>6. WatchersOK' /\ SlotsOwned' /\ ReadersOK'
  BY Zenon, <1>1, <1>5, NoWatcherChanges
<1>7. Locked'
  BY Zenon, <1>1 DEF IInv, Locked, Busy
<1>8. CASE closed
  <2>1. panicked' = "incoming" /\ UNCHANGED <<sending, incoming>>
    BY Zenon, <1>8 DEF Action
  <2>2. TypeOK' /\ Commits' /\ NeverSendsOnClosedInput'
    BY Zenon, <1>1, <1>3, <2>1 DEF IInv, TypeOK, Commits, NeverSendsOnClosedInput
  <2> QED BY Zenon, <1>6, <1>7, <2>2 DEF IInv
<1>9. CASE ~ closed
  <2> DEFINE s == Append(incoming, committed)
  <2>1. /\ Len(incoming) < IncomingSize /\ incoming' = s /\ sending' = FALSE
        /\ UNCHANGED panicked
    BY Zenon, <1>9 DEF Action
  <2>2. committed \in Events
    BY <1>2, <1>3, <1>4 DEF Events
  <2>3. /\ s \in Bounded(Events, IncomingSize) /\ Len(s) = Len(incoming) + 1
        /\ \A k \in 1..Len(incoming) : s[k] = incoming[k]
        /\ s[Len(incoming) + 1] = committed
    BY <1>2, <2>1, <2>2, PutInto, Sizes
  <2> HIDE DEF s
  <2>4. ASSUME NEW k \in 1..Len(s) PROVE s[k] = received + k
    <3>1. CASE k = Len(incoming) + 1
      BY <3>1, <1>2, <1>3, <1>4, <2>3
    <3>2. CASE k \in 1..Len(incoming)
      BY Zenon, <3>2, <2>3 DEF IInv, Commits
    <3> QED BY <3>1, <3>2, <1>2, <2>3
  <2>5. received + Len(s) + 0 = committed
    BY <1>2, <1>3, <1>4, <2>3
  <2>6. Commits'
    BY Zenon, <1>1, <1>3, <2>1, <2>4, <2>5 DEF IInv, Commits
  <2>7. TypeOK'
    BY Zenon, <1>1, <2>1, <2>3 DEF IInv, TypeOK
  <2>8. NeverSendsOnClosedInput'
    BY Zenon, <2>1 DEF IInv, NeverSendsOnClosedInput
  <2> QED BY Zenon, <1>6, <1>7, <2>6, <2>7, <2>8 DEF IInv
<1> QED BY Zenon, <1>8, <1>9

\* Shutdown stops the watchers that are registered; the others are stopped.
LEMMA ShutdownKeeps == ASSUME IInv, Shutdown PROVE IInv'
<1>1. /\ Unlocked /\ closed' = TRUE /\ watcher' = dostop(watcher, watchers)
      /\ UNCHANGED <<committed, sending, incoming, bc, watchers, client, scenario, abandoned,
                     panicked>>
  BY Zenon DEF Shutdown
<1>2. watcher \in [Slots -> Watcher] /\ client \in [Clients -> Client]
  BY Zenon DEF IInv, TypeOK
<1>3. \A j : reached(j)' = reached(j)
  BY Zenon, <1>1 DEF reached, Busy
<1>4. ASSUME NEW j \in Slots
      PROVE  /\ watcher'[j] \in Watcher /\ WatcherOK(watcher'[j], reached(j), j \in watchers)
             /\ \A seen : ReaderOK(watcher[j], seen, reached(j))
                         => ReaderOK(watcher'[j], seen, reached(j))
  <2>1. watcher[j] \in Watcher /\ WatcherOK(watcher[j], reached(j), j \in watchers)
    BY Zenon, <1>2 DEF IInv, WatchersOK
  <2>2. CASE j \in watchers
    <3>1. watcher'[j] = [watcher[j] EXCEPT !.stopped = TRUE]
      BY Zenon, <1>1, <2>2 DEF dostop
    <3> QED BY <2>1, <3>1, StopKeeps
  <2>3. CASE j \notin watchers
    <3>1. watcher'[j] = watcher[j]
      BY Zenon, <1>1, <2>3 DEF dostop
    <3> QED BY Zenon, <2>1, <3>1
  <2> QED BY Zenon, <2>2, <2>3
<1>5. TypeOK'
  <2>1. watcher' \in [Slots -> Watcher]
    BY Zenon, <1>1, <1>4 DEF dostop
  <2> QED BY Zenon, <1>1, <2>1 DEF IInv, TypeOK
<1>6. Commits' /\ NeverSendsOnClosedInput'
  BY Zenon, <1>1 DEF IInv, Commits, received, Busy, NeverSendsOnClosedInput
<1>7. Locked'
  BY Zenon, <1>1 DEF IInv, Locked, Busy, Unlocked
<1>8. WatchersOK'
  BY Zenon, <1>1, <1>3, <1>4 DEF WatchersOK
<1>9. SlotsOwned'
  BY Zenon, <1>1 DEF IInv, SlotsOwned
<1>10. ReadersOK'
  <2> SUFFICES ASSUME NEW c \in Clients, client[c].pc = "read"
               PROVE  ReaderOK(watcher'[client[c].slot], client[c].seen, reached(client[c].slot))
    BY Zenon, <1>1, <1>3 DEF ReadersOK
  <2>1. client[c].slot \in Slots
    BY Zenon DEF IInv, SlotsOwned
  <2>2. ReaderOK(watcher[client[c].slot], client[c].seen, reached(client[c].slot))
    BY Zenon DEF IInv, ReadersOK
  <2> QED BY Zenon, <1>4, <2>1, <2>2
<1> QED BY Zenon, <1>5, <1>6, <1>7, <1>8, <1>9, <1>10 DEF IInv

\* distribute goes on: the watchers of todo still have to get the event.
LEMMA OnwardKeeps ==
  ASSUME IInv, Busy, NEW todo \in SUBSET Slots, Onward(todo),
         UNCHANGED <<committed, sending, incoming, scenario>>
  PROVE  /\ bc' \in Broadcaster /\ Commits' /\ Locked'
         /\ \A j \in Slots : reached(j)' = IF j \in todo THEN bc.done ELSE bc.event
<1>1. /\ bc \in Broadcaster /\ NoSlot \in Slots \cup {NoSlot} /\ 0 \in 0..MaxCommits
      /\ bc.event \in 0..MaxCommits
  <2>1. TypeOK
    BY Zenon DEF IInv
  <2>2. bc \in Broadcaster /\ bc.event \in 0..MaxCommits
    BY Zenon, <2>1, BroadcasterFields DEF TypeOK
  <2>3. 0 \in 0..MaxCommits
    BY Sizes
  <2> QED BY Zenon, <2>2, <2>3
<1>2. received = bc.event /\ bc.event = bc.done + 1
  BY Zenon DEF IInv, Commits, received
<1>3. CASE todo = {}
  <2>1. bc' = [bc EXCEPT !.pc = "receive", !.todo = {}, !.at = NoSlot, !.event = 0,
                         !.done = bc.event]
    BY Zenon, <1>3 DEF Onward
  <2>2. /\ bc' \in Broadcaster /\ bc'.pc = "receive" /\ bc'.todo = {} /\ bc'.at = NoSlot
        /\ bc'.done = bc.event
    BY Zenon, <1>1, <2>1 DEF Broadcaster
  <2>3. ~ Busy' /\ received' = bc.event
    BY Zenon, <2>2 DEF Busy, received
  <2>4. Commits' /\ Locked'
    BY Zenon, <1>2, <2>2, <2>3 DEF IInv, Commits, Locked
  <2>5. \A j \in Slots : reached(j)' = bc.event
    BY Zenon, <2>2, <2>3 DEF reached
  <2> QED BY Zenon, <1>3, <2>2, <2>4, <2>5
<1>4. CASE todo # {}
  <2>1. bc' = [bc EXCEPT !.pc = "pick", !.todo = todo, !.at = NoSlot]
    BY Zenon, <1>4 DEF Onward
  <2>2. /\ bc' \in Broadcaster /\ bc'.pc = "pick" /\ bc'.todo = todo /\ bc'.at = NoSlot
        /\ bc'.done = bc.done /\ bc'.event = bc.event
    BY Zenon, <1>1, <2>1 DEF Broadcaster
  <2>3. Busy' /\ received' = bc.event
    BY Zenon, <2>2 DEF Busy, received
  <2>4. Commits' /\ Locked'
    BY Zenon, <1>2, <2>2, <2>3 DEF IInv, Commits, Locked
  <2>5. \A j \in Slots : reached(j)' = IF j \in todo THEN bc.done ELSE bc.event
    BY Zenon, <2>2, <2>3, NoSlotIsNone DEF reached
  <2> QED BY Zenon, <2>2, <2>4, <2>5
<1> QED BY Zenon, <1>3, <1>4

LEMMA ReceiveKeeps ==
  ASSUME IInv, Receive, UNCHANGED <<committed, sending, closed, client, scenario, abandoned>>
  PROVE  IInv'
<1>1. /\ bc.pc = "receive" /\ UNCHANGED <<watchers, watcher, panicked>>
  BY Zenon DEF Receive
<1>2. /\ bc \in Broadcaster /\ bc.done \in Nat /\ bc.at = NoSlot /\ bc.todo = {} /\ ~ Busy
      /\ received = bc.done /\ \A j : reached(j) = bc.done
  BY Zenon, <1>1, BroadcasterFields DEF IInv, TypeOK, Locked, Busy, received, reached
<1>3. NeverSendsOnClosedInput'
  BY Zenon, <1>1 DEF IInv, NeverSendsOnClosedInput
<1>4. CASE incoming = <<>>
  <2>1. bc' = [bc EXCEPT !.pc = "exited"] /\ UNCHANGED incoming
    BY Zenon, <1>4 DEF Receive
  <2>2. /\ bc' \in Broadcaster /\ bc'.pc = "exited" /\ bc'.done = bc.done
        /\ bc'.todo = {} /\ bc'.at = NoSlot
    BY Zenon, <1>2, <2>1 DEF Broadcaster
  <2>3. ~ Busy' /\ received' = received /\ \A j : reached(j)' = reached(j)
    BY Zenon, <1>2, <2>2 DEF Busy, received, reached
  <2>4. TypeOK' /\ Commits' /\ Locked'
    BY Zenon, <1>1, <2>1, <2>2, <2>3 DEF IInv, TypeOK, Commits, Locked
  <2> QED BY Zenon, <1>1, <1>3, <2>3, <2>4, NoWatcherChanges DEF IInv
<1>5. CASE incoming # <<>>
  <2> DEFINE e == Head(incoming)
             s == Tail(incoming)
  <2>1. /\ incoming' = s
        /\ bc' = IF watchers = {}
                 THEN [bc EXCEPT !.done = e]
                 ELSE [bc EXCEPT !.pc = "pick", !.event = e, !.todo = watchers]
    BY Zenon, <1>5 DEF Receive
  <2>2. /\ e \in Events /\ e = incoming[1] /\ s \in Bounded(Events, IncomingSize)
        /\ Len(incoming) \in Nat \ {0} /\ Len(s) = Len(incoming) - 1
        /\ \A k \in 1..Len(s) : s[k] = incoming[k + 1]
    <3>1. incoming \in Bounded(Events, IncomingSize) /\ IncomingSize \in Nat
      BY Zenon, Sizes DEF IInv, TypeOK
    <3> QED BY ONLY <3>1, <1>5, TakeFrom
  <2> HIDE DEF e, s
  <2>3. e = bc.done + 1
    BY <1>2, <2>2 DEF IInv, Commits
  <2>4. e \in 0..MaxCommits
    BY <2>2, Sizes DEF Events
  <2>5. /\ bc' \in Broadcaster /\ bc'.at = NoSlot
        /\ watchers = {} => bc'.done = e /\ bc'.pc = "receive" /\ bc'.todo = {}
        /\ watchers # {} => /\ bc'.done = bc.done /\ bc'.pc = "pick" /\ bc'.event = e
                            /\ bc'.todo = watchers
    <3>1. watchers \in SUBSET Slots
      BY Zenon DEF IInv, TypeOK
    <3> QED BY Zenon, <1>1, <1>2, <2>1, <2>4, <3>1 DEF Broadcaster
  <2>6. received' = e /\ (Busy' <=> watchers # {})
    BY Zenon, <2>5 DEF received, Busy
  <2>7. ASSUME NEW j \in Slots, ~ watcher[j].stopped PROVE reached(j)' = reached(j)
    <3>1. j \in watchers
      BY Zenon, <2>7 DEF IInv, WatchersOK, WatcherOK
    <3>2. Busy' /\ j \in bc'.todo /\ bc'.done = bc.done
      BY Zenon, <2>5, <2>6, <3>1
    <3>3. reached(j)' = bc.done
      BY Zenon, <3>2 DEF reached
    <3> QED BY Zenon, <1>2, <3>3
  <2>8. TypeOK'
    BY Zenon, <1>1, <2>1, <2>2, <2>5 DEF IInv, TypeOK
  <2>9. Commits'
    <3>1. ASSUME NEW k \in 1..Len(s) PROVE s[k] = e + k
      <4>1. k + 1 \in 1..Len(incoming) /\ s[k] = incoming[k + 1]
        BY <2>2
      <4>2. incoming[k + 1] = bc.done + (k + 1)
        BY Zenon, <1>2, <4>1 DEF IInv, Commits
      <4>3. bc.done \in Nat /\ k \in Nat
        <5>1. bc.done \in 0..MaxCommits
          BY Zenon DEF IInv, TypeOK, Broadcaster
        <5> QED BY ONLY <5>1, <2>2, Sizes, k \in 1..Len(s), SMT
      <4>4. s[k] = bc.done + (k + 1) /\ e = bc.done + 1
        BY Zenon, <2>3, <4>1, <4>2
      <4>5. bc.done + (k + 1) = (bc.done + 1) + k
        BY ONLY <4>3, SMT
      <4> QED BY Zenon, <4>4, <4>5
    <3>2. e + Len(s) + (IF sending THEN 1 ELSE 0) = committed
      <4>1. bc.done + Len(incoming) + (IF sending THEN 1 ELSE 0) = committed
        BY Zenon, <1>2 DEF IInv, Commits
      <4>2. Len(incoming) \in Nat /\ Len(s) = Len(incoming) - 1
        BY Zenon, <2>2
      <4> QED BY <1>2, <2>3, <4>1, <4>2
    <3>3. Busy' => bc'.event = bc'.done + 1
      BY Zenon, <2>3, <2>5, <2>6
    <3>4. committed <= scenario.commits
      BY Zenon DEF IInv, Commits
    <3> QED BY Zenon, <2>1, <2>6, <3>1, <3>2, <3>3, <3>4 DEF Commits
  <2>10. Locked'
    BY Zenon, <2>5, <2>6 DEF Locked
  <2> QED BY Zenon, <1>1, <1>3, <2>7, <2>8, <2>9, <2>10, NoWatcherChanges DEF IInv
<1> QED BY Zenon, <1>4, <1>5

LEMMA PickKeeps ==
  ASSUME IInv, NEW i \in Slots, Pick(i),
         UNCHANGED <<committed, sending, closed, client, scenario, abandoned>>
  PROVE  IInv'
<1>1. /\ bc.pc = "pick" /\ i \in bc.todo /\ UNCHANGED <<incoming, watchers, watcher, panicked>>
  BY Zenon DEF Pick
<1>2. /\ bc \in Broadcaster /\ bc.todo \subseteq Slots /\ bc.at = NoSlot /\ Busy
      /\ \A j \in Slots : reached(j) = IF j \in bc.todo THEN bc.done ELSE bc.event
  <2>1. bc \in Broadcaster /\ bc.todo \subseteq Slots
    BY Zenon, BroadcasterFields DEF IInv, TypeOK
  <2>2. bc.at = NoSlot /\ Busy
    BY Zenon, <1>1 DEF IInv, Locked, Busy
  <2> QED BY Zenon, <2>1, <2>2, NoSlotIsNone DEF reached
<1>3. NeverSendsOnClosedInput'
  BY Zenon, <1>1 DEF IInv, NeverSendsOnClosedInput
<1>4. CASE skips(i)
  <2>1. Onward(bc.todo \ {i})
    BY Zenon, <1>4 DEF Pick
  <2>2. /\ bc' \in Broadcaster /\ Commits' /\ Locked'
        /\ \A j \in Slots : reached(j)' = IF j \in bc.todo \ {i} THEN bc.done ELSE bc.event
    <3>1. bc.todo \ {i} \in SUBSET Slots
      BY Zenon, <1>2
    <3> QED BY Zenon, <1>1, <1>2, <2>1, <3>1, OnwardKeeps
  <2>3. \A j \in Slots : ~ watcher[j].stopped => reached(j)' = reached(j)
    BY Zenon, <1>2, <1>4, <2>2 DEF skips
  <2>4. TypeOK'
    BY Zenon, <1>1, <2>2 DEF IInv, TypeOK
  <2> QED BY Zenon, <1>1, <1>3, <2>2, <2>3, <2>4, NoWatcherChanges DEF IInv
<1>5. CASE ~ skips(i)
  <2>1. bc' = [bc EXCEPT !.pc = "try", !.todo = @ \ {i}, !.at = i]
    BY Zenon, <1>5 DEF Pick
  <2>2. /\ bc' \in Broadcaster /\ bc'.pc = "try" /\ bc'.todo = bc.todo \ {i} /\ bc'.at = i
        /\ bc'.event = bc.event /\ bc'.done = bc.done
    BY Zenon, <1>2, <2>1 DEF Broadcaster
  <2>3. Busy' /\ received' = received
    BY Zenon, <1>2, <2>2 DEF Busy, received
  <2>4. \A j \in Slots : reached(j)' = reached(j)
    BY Zenon, <1>1, <1>2, <2>2, <2>3 DEF reached
  <2>5. TypeOK'
    BY Zenon, <1>1, <2>2 DEF IInv, TypeOK
  <2>6. Commits'
    BY Zenon, <1>1, <1>2, <2>2, <2>3 DEF IInv, Commits
  <2>7. Locked'
    BY Zenon, <1>1, <1>5, <2>2, <2>3 DEF Locked, skips
  <2> QED BY Zenon, <1>1, <1>3, <2>4, <2>5, <2>6, <2>7, NoWatcherChanges DEF IInv
<1> QED BY Zenon, <1>4, <1>5

LEMMA FullKeeps ==
  ASSUME IInv, Full, UNCHANGED <<committed, sending, closed, client, scenario, abandoned>>
  PROVE  IInv'
<1>1. /\ bc.pc = "try" /\ bc' = [bc EXCEPT !.pc = "wait"] /\ bc \in Broadcaster
      /\ UNCHANGED <<incoming, watchers, watcher, panicked>>
  BY Zenon DEF Full, IInv, TypeOK
<1>2. /\ bc' \in Broadcaster /\ bc'.pc = "wait" /\ bc'.todo = bc.todo /\ bc'.at = bc.at
      /\ bc'.event = bc.event /\ bc'.done = bc.done
  BY Zenon, <1>1 DEF Broadcaster
<1>3. Busy /\ Busy' /\ received' = received /\ \A j : reached(j)' = reached(j)
  BY Zenon, <1>1, <1>2 DEF Busy, received, reached
<1>4. TypeOK'
  BY Zenon, <1>1, <1>2 DEF IInv, TypeOK
<1>5. Commits' /\ NeverSendsOnClosedInput'
  BY Zenon, <1>1, <1>2, <1>3 DEF IInv, Commits, NeverSendsOnClosedInput
<1>6. Locked'
  BY Zenon, <1>1, <1>2, <1>3 DEF IInv, Locked
<1> QED BY Zenon, <1>1, <1>3, <1>4, <1>5, <1>6, NoWatcherChanges DEF IInv

\* distribute is done with the watcher at: v is what add made of it.
LEMMA AddedKeeps ==
  ASSUME IInv, bc.pc \in {"try", "wait"}, Onward(bc.todo), NEW v \in Watcher,
         watcher' = [watcher EXCEPT ![bc.at] = v], watchers' \in {watchers, watchers \ {bc.at}},
         WatcherOK(v, bc.event, bc.at \in watchers'),
         \A seen \in Nat : ReaderOK(watcher[bc.at], seen, bc.done)
                            => ReaderOK(v, seen, bc.event),
         UNCHANGED <<incoming, panicked, committed, sending, closed, client, scenario,
                     abandoned>>
  PROVE  IInv'
<1>1. Busy /\ bc.at \in Slots /\ bc.at \notin bc.todo /\ bc.todo \in SUBSET Slots
  BY Zenon, BroadcasterFields DEF IInv, Locked, Busy
<1>2. PICK i \in Slots : i = bc.at
  BY Zenon, <1>1
<1>3. \A j \in Slots : reached(j) = IF j \in bc.todo \cup {i} THEN bc.done ELSE bc.event
  BY Zenon, <1>1, <1>2 DEF reached
<1>4. /\ bc' \in Broadcaster /\ Commits' /\ Locked'
      /\ \A j \in Slots : reached(j)' = IF j \in bc.todo THEN bc.done ELSE bc.event
  BY Zenon, <1>1, OnwardKeeps
<1>5. /\ watcher \in [Slots -> Watcher] /\ watchers \subseteq Slots
      /\ client \in [Clients -> Client]
  BY Zenon DEF IInv, TypeOK
<1>6. watcher'[i] = v /\ \A j \in Slots \ {i} : watcher'[j] = watcher[j]
  BY Zenon, <1>2, <1>5
<1>7. /\ reached(i) = bc.done /\ reached(i)' = bc.event
      /\ \A j \in Slots \ {i} : reached(j)' = reached(j)
  BY Zenon, <1>1, <1>2, <1>3, <1>4
<1>8. \A j \in Slots \ {i} : j \in watchers' <=> j \in watchers
  BY Zenon, <1>2
<1>9. WatchersOK'
  <2> SUFFICES ASSUME NEW j \in Slots
               PROVE  WatcherOK(watcher'[j], reached(j)', j \in watchers')
    BY Zenon DEF WatchersOK
  <2>1. CASE j = i
    BY Zenon, <2>1, <1>2, <1>6, <1>7
  <2>2. CASE j # i
    <3>1. WatcherOK(watcher[j], reached(j), j \in watchers)
      BY Zenon DEF IInv, WatchersOK
    <3>2. /\ watcher'[j] = watcher[j] /\ (j \in watchers' <=> j \in watchers)
          /\ reached(j)' = reached(j)
      BY Zenon, <2>2, <1>6, <1>7, <1>8
    <3> QED BY Zenon, <3>1, <3>2 DEF WatcherOK
  <2> QED BY Zenon, <2>1, <2>2
<1>10. ReadersOK'
  <2> SUFFICES ASSUME NEW c \in Clients, client[c].pc = "read"
               PROVE  ReaderOK(watcher'[client[c].slot], client[c].seen, reached(client[c].slot)')
    BY Zenon DEF ReadersOK
  <2>1. PICK j \in Slots : j = client[c].slot
    BY Zenon DEF IInv, SlotsOwned
  <2>2. ReaderOK(watcher[j], client[c].seen, reached(j))
    BY Zenon, <2>1 DEF IInv, ReadersOK
  <2>3. client[c].seen \in Nat
    <3>1. client[c].seen \in 0..MaxCommits
      BY Zenon, <1>5 DEF Client
    <3> QED BY <3>1, Sizes
  <2>4. ReaderOK(watcher'[j], client[c].seen, reached(j)')
    <3>1. CASE j = i
      BY Zenon, <3>1, <2>2, <2>3, <1>2, <1>6, <1>7
    <3>2. CASE j # i
      BY Zenon, <3>2, <2>2, <1>6, <1>7
    <3> QED BY Zenon, <3>1, <3>2
  <2> QED BY Zenon, <2>1, <2>4 DEF reached, Busy
<1>11. TypeOK'
  <2>1. watcher' \in [Slots -> Watcher] /\ watchers' \subseteq Slots
    BY Zenon, <1>5
  <2> QED BY Zenon, <1>4, <2>1 DEF IInv, TypeOK
<1>12. SlotsOwned' /\ NeverSendsOnClosedInput'
  BY Zenon DEF IInv, SlotsOwned, NeverSendsOnClosedInput
<1> QED BY Zenon, <1>4, <1>9, <1>10, <1>11, <1>12 DEF IInv

\* add, addWithTimeout: the watcher is not stopped, so the channel is open.
LEMMA SendStepKeeps ==
  ASSUME IInv, Send, UNCHANGED <<committed, sending, closed, client, scenario, abandoned>>
  PROVE  IInv'
<1> DEFINE w == watcher[bc.at]
           v == [w EXCEPT !.input = Append(@, bc.event)]
<1>1. bc.pc \in {"try", "wait"} /\ UNCHANGED <<incoming, watchers>>
  BY Zenon DEF Send
<1>2. bc.at \in Slots /\ ~ w.stopped /\ Busy
  BY Zenon, <1>1 DEF IInv, Locked, Busy
<1>3. /\ HasRoom(w.input) /\ Onward(bc.todo) /\ UNCHANGED panicked
      /\ watcher' = [watcher EXCEPT ![bc.at].input = Append(@, bc.event)]
  BY Zenon, <1>2 DEF Send
<1>4. watcher \in [Slots -> Watcher] /\ w \in Watcher
  BY Zenon, <1>2 DEF IInv, TypeOK
<1>5. watcher' = [watcher EXCEPT ![bc.at] = v]
  BY Zenon, <1>2, <1>3, <1>4
<1>6. reached(bc.at) = bc.done
  BY Zenon, <1>2 DEF reached
<1>7. WatcherOK(w, bc.done, bc.at \in watchers)
  BY Zenon, <1>2, <1>6 DEF IInv, WatchersOK
<1>8. bc.done \in Nat /\ bc.event \in Events /\ bc.event = bc.done + 1
  <2>1. bc.done \in Nat /\ bc.event \in 0..MaxCommits
    BY Zenon, BroadcasterFields DEF IInv
  <2>2. bc.event = bc.done + 1
    BY Zenon, <1>2 DEF IInv, Commits
  <2> QED BY <2>1, <2>2, Sizes DEF Events
<1>9. /\ v \in Watcher /\ WatcherOK(v, bc.event, bc.at \in watchers)
      /\ \A seen \in Nat : ReaderOK(w, seen, bc.done) => ReaderOK(v, seen, bc.event)
  BY Zenon, <1>3, <1>4, <1>7, <1>8, AddKeeps
<1> HIDE DEF v
<1> QED BY Zenon, <1>1, <1>3, <1>5, <1>9, AddedKeeps

LEMMA TimeoutKeeps ==
  ASSUME IInv, Timeout, UNCHANGED <<committed, sending, closed, client, scenario, abandoned>>
  PROVE  IInv'
<1> DEFINE w == watcher[bc.at]
           v == [w EXCEPT !.stopped = TRUE]
<1>1. /\ bc.pc = "wait" /\ watchers' = watchers \ {bc.at} /\ watcher' = dostop(watcher, {bc.at})
      /\ Onward(bc.todo) /\ UNCHANGED <<incoming, panicked>>
  BY Zenon DEF Timeout
<1>2. bc.at \in Slots /\ Busy
  BY Zenon, <1>1 DEF IInv, Locked, Busy
<1>3. watcher \in [Slots -> Watcher] /\ w \in Watcher
  BY Zenon, <1>2 DEF IInv, TypeOK
<1>4. watcher' = [watcher EXCEPT ![bc.at] = v]
  BY Zenon, <1>1, <1>2, <1>3 DEF dostop
<1>5. reached(bc.at) = bc.done
  BY Zenon, <1>2 DEF reached
<1>6. WatcherOK(w, bc.done, bc.at \in watchers)
  BY Zenon, <1>2, <1>5 DEF IInv, WatchersOK
<1>7. /\ v \in Watcher /\ WatcherOK(v, bc.event, bc.at \in watchers')
      /\ \A seen : ReaderOK(w, seen, bc.done) => ReaderOK(v, seen, bc.event)
  BY Zenon, <1>3, <1>6, StopKeeps
<1> HIDE DEF v
<1> QED BY Zenon, <1>1, <1>4, <1>7, AddedKeeps

LEMMA BroadcastKeeps == ASSUME IInv, Broadcast PROVE IInv'
<1>1. UNCHANGED <<committed, sending, closed, client, scenario, abandoned>>
  BY Zenon DEF Broadcast
<1> QED BY Zenon, <1>1, ReceiveKeeps, PickKeeps, SendStepKeeps, FullKeeps, TimeoutKeeps DEF Broadcast

-----------------------------------------------------------------------------
(* The clients *)

\* Client c takes a step to k and changes one slot of its own, i, to v.
OwnStep(c, k, i, v) ==
  /\ k \in Client /\ i \in Slots /\ v \in Watcher /\ i[1] = c
  /\ client' = [client EXCEPT ![c] = k] /\ watcher' = [watcher EXCEPT ![i] = v]
  /\ watchers' \in {watchers, watchers \cup {i}, watchers \ {i}}
  /\ bc.pc \in {"try", "wait"} /\ bc.at = i => ~ v.stopped
  /\ WatcherOK(v, reached(i), i \in watchers')
  /\ k.pc \in {"read", "stop"} => k.slot = i
  /\ k.pc \in {"list", "watch"} => k.slot = NoSlot
  /\ k.pc = "read" => ReaderOK(v, k.seen, reached(i))

LEMMA OneClient ==
  ASSUME IInv, NEW c \in Clients, NEW k, NEW i, NEW v, OwnStep(c, k, i, v),
         UNCHANGED <<committed, sending, incoming, closed, bc, scenario, panicked>>,
         abandoned' \in 0..scenario.abandons
  PROVE  IInv'
<1> USE DEF OwnStep
<1>1. /\ watcher \in [Slots -> Watcher] /\ watchers \subseteq Slots
      /\ client \in [Clients -> Client]
  BY Zenon DEF IInv, TypeOK
<1>2. watcher'[i] = v /\ \A j \in Slots \ {i} : watcher'[j] = watcher[j]
  BY Zenon, <1>1
<1>3. client'[c] = k /\ \A d \in Clients \ {c} : client'[d] = client[d]
  BY Zenon, <1>1
<1>4. \A j : reached(j)' = reached(j)
  BY Zenon DEF reached, Busy
<1>5. \A j \in Slots \ {i} : j \in watchers' <=> j \in watchers
  BY Zenon
<1>6. Locked'
  BY Zenon, <1>2 DEF IInv, Locked, Busy
<1>7. WatchersOK'
  <2> SUFFICES ASSUME NEW j \in Slots
               PROVE  WatcherOK(watcher'[j], reached(j), j \in watchers')
    BY Zenon, <1>4 DEF WatchersOK
  <2>1. CASE j = i
    BY Zenon, <2>1, <1>2
  <2>2. CASE j # i
    <3>1. WatcherOK(watcher[j], reached(j), j \in watchers)
      BY Zenon DEF IInv, WatchersOK
    <3>2. watcher'[j] = watcher[j] /\ (j \in watchers' <=> j \in watchers)
      BY Zenon, <2>2, <1>2, <1>5
    <3> QED BY Zenon, <3>1, <3>2 DEF WatcherOK
  <2> QED BY Zenon, <2>1, <2>2
<1>8. SlotsOwned'
  BY <1>3 DEF IInv, SlotsOwned
<1>9. ReadersOK'
  <2> SUFFICES ASSUME NEW d \in Clients, client'[d].pc = "read"
               PROVE  ReaderOK(watcher'[client'[d].slot], client'[d].seen,
                               reached(client'[d].slot))
    BY Zenon, <1>4 DEF ReadersOK, reached, Busy
  <2>1. CASE d = c
    BY Zenon, <2>1, <1>2, <1>3
  <2>2. CASE d # c
    <3>1. client'[d] = client[d]
      BY Zenon, <1>3, <2>2
    <3>2. client[d].slot \in Slots /\ client[d].slot[1] = d
      BY Zenon, <3>1 DEF IInv, SlotsOwned
    <3>3. ReaderOK(watcher[client[d].slot], client[d].seen, reached(client[d].slot))
      BY Zenon, <3>1 DEF IInv, ReadersOK
    <3>4. watcher'[client[d].slot] = watcher[client[d].slot]
      BY Zenon, <3>2, <2>2, <1>2
    <3> QED BY Zenon, <3>1, <3>3, <3>4
  <2> QED BY Zenon, <2>1, <2>2
<1>10. TypeOK'
  <2>1. /\ watcher' \in [Slots -> Watcher] /\ watchers' \subseteq Slots
        /\ client' \in [Clients -> Client]
    BY Zenon, <1>1
  <2> QED BY Zenon, <2>1 DEF IInv, TypeOK
<1>11. Commits' /\ NeverSendsOnClosedInput'
  BY Zenon DEF IInv, Commits, received, Busy, NeverSendsOnClosedInput
<1> QED BY Zenon, <1>6, <1>7, <1>8, <1>9, <1>10, <1>11 DEF IInv

LEMMA ClientFields ==
  ASSUME IInv, NEW c \in Clients
  PROVE  /\ client[c] \in Client /\ client \in [Clients -> Client]
         /\ watcher \in [Slots -> Watcher]
         /\ abandoned \in 0..scenario.abandons /\ committed \in 0..MaxCommits
  BY Zenon DEF IInv, TypeOK

\* The client leaves its watcher as it is, and does not read from it any more.
LEMMA LeavesKeep ==
  ASSUME IInv, NEW c \in Clients, NEW k \in Client, client' = [client EXCEPT ![c] = k],
         UNCHANGED <<committed, sending, incoming, closed, bc, watchers, watcher, scenario,
                     panicked>>,
         abandoned' \in 0..scenario.abandons,
         k.slot = client[c].slot, k.pc # "read",
         k.pc = "stop" <=> client[c].pc \in {"read", "stop"}
  PROVE  IInv'
<1>1. client[c] \in Client /\ watcher \in [Slots -> Watcher]
  BY Zenon, ClientFields
<1>2. PICK i \in Slots : i[1] = c /\ (client[c].pc \in {"read", "stop"} => client[c].slot = i)
  <2>1. CASE client[c].pc \in {"read", "stop"}
    BY Zenon, <2>1 DEF IInv, SlotsOwned
  <2>2. CASE client[c].pc \notin {"read", "stop"}
    <3>1. <<c, 1>> \in Slots /\ <<c, 1>>[1] = c
      BY Zenon DEF Slots
    <3> QED BY Zenon, <2>2, <3>1
  <2> QED BY Zenon, <2>1, <2>2
<1>3. WatcherOK(watcher[i], reached(i), i \in watchers)
  BY Zenon DEF IInv, WatchersOK
<1>4. bc.pc \in {"try", "wait"} /\ bc.at = i => ~ watcher[i].stopped
  BY Zenon DEF IInv, Locked
<1>5. watcher' = [watcher EXCEPT ![i] = watcher[i]] /\ watcher[i] \in Watcher
  BY Zenon, <1>1
<1>6. /\ k.pc \in {"read", "stop"} => k.slot = i
      /\ k.pc \in {"list", "watch"} => k.slot = NoSlot
  BY Zenon, <1>1, <1>2 DEF IInv, SlotsOwned, Client
<1>7. OwnStep(c, k, i, watcher[i])
  BY Zenon, <1>2, <1>3, <1>4, <1>5, <1>6 DEF OwnStep
<1> QED BY Zenon, <1>7, OneClient

\* List, Watch, watchHandler and the deferred Stop of a reflector.
LEMMA ReflectKeeps ==
  ASSUME IInv, NEW c \in Clients, Reflect(c)
  PROVE  IInv'
<1> DEFINE i == client[c].slot
           r == reached(i)
<1>1. /\ UNCHANGED <<committed, sending, incoming, closed, bc, scenario, abandoned, panicked>>
  BY Zenon DEF Reflect
<1>2. /\ client[c] \in Client /\ client \in [Clients -> Client]
      /\ watcher \in [Slots -> Watcher]
      /\ abandoned' \in 0..scenario.abandons /\ committed \in 0..MaxCommits
  BY Zenon, <1>1, ClientFields
<1>3. ASSUME client[c].pc \in {"read", "stop"}
      PROVE  /\ i \in Slots /\ i[1] = c /\ watcher[i] \in Watcher /\ r \in Nat
             /\ WatcherOK(watcher[i], r, i \in watchers)
  <2>1. i \in Slots /\ i[1] = c
    BY Zenon, <1>3 DEF IInv, SlotsOwned
  <2> QED BY Zenon, <1>2, <2>1, ReachedIsNat DEF IInv, WatchersOK
<1>4. CASE List(c)
  <2> DEFINE k == [client[c] EXCEPT !.pc = "watch", !.cache = committed]
  <2>1. client[c].pc = "list" /\ UNCHANGED <<watchers, watcher>>
    BY Zenon, <1>4 DEF List
  <2>2. client' = [client EXCEPT ![c] = k]
    BY Zenon, <1>2, <1>4 DEF List
  <2>3. k \in Client /\ k.slot = client[c].slot /\ k.pc = "watch"
    BY Zenon, <1>2 DEF Client
  <2> HIDE DEF k
  <2> QED BY Zenon, <1>1, <1>2, <2>1, <2>2, <2>3, LeavesKeep
<1>5. CASE Watch(c)
  <2>1. client[c].pc = "watch" /\ Unlocked
    BY Zenon, <1>5 DEF Watch
  <2>2. PICK j \in Slots :
          /\ j[1] = c /\ Free(j) /\ watchers' = watchers \cup {j}
          /\ watcher' = [watcher EXCEPT ![j].pc = "select", ![j].stopped = FALSE]
          /\ client' = [client EXCEPT ![c].pc = "read", ![c].slot = j, ![c].seen = 0,
                                      ![c].gap = bc.done > client[c].cache]
    BY Zenon, <1>5 DEF Watch
  <2> DEFINE v == [NoWatcher EXCEPT !.pc = "select", !.stopped = FALSE]
             g == bc.done > client[c].cache
             k == [client[c] EXCEPT !.pc = "read", !.slot = j, !.seen = 0, !.gap = g]
  <2>3. watcher[j] = NoWatcher
    BY Zenon, <2>2 DEF Free
  <2>4. watcher' = [watcher EXCEPT ![j] = v]
    BY Zenon, <1>2, <2>2, <2>3
  <2>5. v \in Watcher /\ WatcherOK(v, reached(j), TRUE)
    <3>1. reached(j) \in Nat
      BY Zenon, ReachedIsNat DEF IInv
    <3> QED BY Zenon, <3>1, FreshKeeps
  <2>6. client' = [client EXCEPT ![c] = k]
    BY Zenon, <1>2, <2>2
  <2>7. k \in Client /\ k.pc = "read" /\ k.slot = j /\ k.seen = 0
    <3>1. 0 \in 0..MaxCommits /\ g \in BOOLEAN
      BY Sizes
    <3> HIDE DEF g
    <3> QED BY Zenon, <1>2, <3>1 DEF Client
  <2>8. ReaderOK(v, 0, reached(j))
    BY Zenon DEF ReaderOK
  <2>9. bc.pc \notin {"try", "wait"}
    BY Zenon, <2>1 DEF Unlocked
  <2>10. WatcherOK(v, reached(j), j \in watchers')
    BY Zenon, <2>2, <2>5 DEF WatcherOK
  <2> HIDE DEF v, k
  <2>11. OwnStep(c, k, j, v)
    BY Zenon, <2>2, <2>4, <2>5, <2>6, <2>7, <2>8, <2>9, <2>10 DEF OwnStep
  <2> QED BY Zenon, <1>1, <1>2, <2>11, OneClient
<1>6. CASE ReadEvent(c)
  <2> DEFINE e == Head(watcher[i].result)
             v == [watcher[i] EXCEPT !.result = Tail(@)]
  <2>1. /\ client[c].pc = "read" /\ watcher[i].result # <<>> /\ UNCHANGED watchers
        /\ watcher' = [watcher EXCEPT ![i].result = Tail(@)]
        /\ IF e = Expired THEN Leave(c, "list")
                          ELSE client' = [client EXCEPT ![c].cache = e, ![c].seen = e]
    BY Zenon, <1>6 DEF ReadEvent
  <2>2. watcher' = [watcher EXCEPT ![i] = v]
    BY Zenon, <1>2, <1>3, <2>1
  <2>3. /\ v \in Watcher /\ v.stopped = watcher[i].stopped /\ WatcherOK(v, r, i \in watchers)
        /\ ReaderOK(v, e, r) /\ e \in 0..MaxCommits
    BY Zenon, <1>3, <2>1, ReadKeeps
  <2>4. bc.pc \in {"try", "wait"} /\ bc.at = i => ~ v.stopped
    BY Zenon, <2>3 DEF IInv, Locked
  <2> HIDE DEF v, e
  <2>5. CASE e = Expired
    <3> DEFINE k == [client[c] EXCEPT !.pc = "stop", !.next = "list"]
    <3>1. client' = [client EXCEPT ![c] = k]
      BY Zenon, <1>2, <2>1, <2>5 DEF Leave
    <3>2. k \in Client /\ k.pc = "stop" /\ k.slot = i
      BY Zenon, <1>2 DEF Client
    <3> HIDE DEF k
    <3>3. OwnStep(c, k, i, v)
      BY Zenon, <1>3, <2>1, <2>2, <2>3, <2>4, <3>1, <3>2 DEF OwnStep
    <3> QED BY Zenon, <1>1, <1>2, <3>3, OneClient
  <2>6. CASE e # Expired
    <3> DEFINE k == [client[c] EXCEPT !.cache = e, !.seen = e]
    <3>1. client' = [client EXCEPT ![c] = k]
      BY Zenon, <1>2, <2>1, <2>6
    <3>2. k \in Client /\ k.pc = "read" /\ k.slot = i /\ k.seen = e
      BY Zenon, <1>2, <2>1, <2>3 DEF Client
    <3> HIDE DEF k
    <3>3. OwnStep(c, k, i, v)
      BY Zenon, <1>3, <2>1, <2>2, <2>3, <2>4, <3>1, <3>2 DEF OwnStep
    <3> QED BY Zenon, <1>1, <1>2, <3>3, OneClient
  <2> QED BY Zenon, <2>5, <2>6
<1>7. CASE ReadClosed(c)
  <2>1. client[c].pc = "read" /\ UNCHANGED <<watchers, watcher>>
    BY Zenon, <1>7 DEF ReadClosed
  <2>2. PICK n \in {"watch", "list"} : Leave(c, n)
    BY Zenon, <1>7 DEF ReadClosed
  <2> DEFINE k == [client[c] EXCEPT !.pc = "stop", !.next = n]
  <2>3. client' = [client EXCEPT ![c] = k]
    BY Zenon, <1>2, <2>2 DEF Leave
  <2>4. k \in Client /\ k.slot = client[c].slot /\ k.pc = "stop"
    BY Zenon, <1>2 DEF Client
  <2> HIDE DEF k
  <2> QED BY Zenon, <1>1, <1>2, <2>1, <2>3, <2>4, LeavesKeep
<1>8. CASE Stop(c)
  <2> DEFINE k == [client[c] EXCEPT !.pc = client[c].next, !.slot = NoSlot]
             u == [watcher[i] EXCEPT !.stopped = TRUE]
             v == IF watcher[i].pc = "exited" THEN NoWatcher ELSE u
  <2>1. /\ client[c].pc = "stop" /\ Unlocked /\ watchers' = watchers \ {i}
        /\ watcher' = IF watcher[i].pc = "exited" THEN [watcher EXCEPT ![i] = NoWatcher]
                                                  ELSE dostop(watcher, {i})
        /\ client' = [client EXCEPT ![c].pc = client[c].next, ![c].slot = NoSlot]
    BY Zenon, <1>8 DEF Stop
  <2>2. dostop(watcher, {i}) = [watcher EXCEPT ![i] = u]
    BY Zenon, <1>2, <1>3, <2>1 DEF dostop
  <2>3. watcher' = [watcher EXCEPT ![i] = v]
    BY Zenon, <2>1, <2>2
  <2>4. v \in Watcher /\ WatcherOK(v, r, i \in watchers')
    <3>1. NoWatcher \in Watcher /\ WatcherOK(NoWatcher, r, i \in watchers')
      BY Zenon, <1>3, <2>1, FreshKeeps
    <3>2. u \in Watcher /\ WatcherOK(u, r, i \in watchers')
      BY Zenon, <1>3, <2>1, StopKeeps
    <3> QED BY Zenon, <3>1, <3>2
  <2>5. client' = [client EXCEPT ![c] = k]
    BY Zenon, <1>2, <2>1
  <2>6. k \in Client /\ k.pc \in {"list", "watch"} /\ k.slot = NoSlot
    BY Zenon, <1>2 DEF Client
  <2>7. bc.pc \notin {"try", "wait"}
    BY Zenon, <2>1 DEF Unlocked
  <2> HIDE DEF v, k
  <2>8. OwnStep(c, k, i, v)
    BY Zenon, <1>3, <2>1, <2>3, <2>4, <2>5, <2>6, <2>7 DEF OwnStep
  <2> QED BY Zenon, <1>1, <1>2, <2>8, OneClient
<1> QED BY Zenon, <1>4, <1>5, <1>6, <1>7, <1>8 DEF Reflect

LEMMA AbandonKeeps ==
  ASSUME IInv, NEW c \in Clients, Abandon(c)
  PROVE  IInv'
<1>0. PICK next \in {"list", "watch"} : Leave(c, next)
  BY Zenon DEF Abandon
<1> DEFINE k == [client[c] EXCEPT !.pc = "stop", !.next = next]
<1>1. /\ client[c].pc = "read" /\ abandoned < scenario.abandons
      /\ abandoned' = abandoned + 1
      /\ UNCHANGED <<committed, sending, incoming, closed, bc, watchers, watcher, scenario,
                     panicked>>
  BY Zenon DEF Abandon
<1>2. /\ c \in Clients /\ client[c] \in Client /\ client \in [Clients -> Client]
      /\ abandoned \in 0..scenario.abandons
  BY Zenon, ClientFields DEF Clients
<1>3. abandoned' \in 0..scenario.abandons
  <2>1. scenario.abandons \in Nat
    BY Zenon, ScenariosAssumption DEF IInv, TypeOK
  <2> QED BY <1>1, <1>2, <2>1
<1>4. client' = [client EXCEPT ![c] = k]
  BY Zenon, <1>0, <1>2 DEF Leave
<1>5. k \in Client /\ k.slot = client[c].slot /\ k.pc = "stop"
  BY Zenon, <1>0, <1>2 DEF Client
<1> HIDE DEF k
<1> QED BY Zenon, <1>1, <1>2, <1>3, <1>4, <1>5, LeavesKeep

-----------------------------------------------------------------------------
(* The theorems *)

LEMMA InitOK == ASSUME Init PROVE IInv
<1>1. /\ 0 \in 0..MaxCommits /\ <<>> \in Bounded(Events, IncomingSize) /\ Len(<<>>) = 0
  BY Zenon, Sizes, EmptyChannel
<1>2. /\ committed = 0 /\ sending = FALSE /\ incoming = <<>> /\ closed = FALSE
      /\ watchers = {} /\ scenario \in Scenarios /\ abandoned = 0 /\ panicked = ""
  BY Zenon DEF Init
<1>3. /\ bc = [pc |-> "receive", event |-> 0, todo |-> {}, at |-> NoSlot, done |-> 0]
      /\ ~ Busy /\ received = 0 /\ \A i : reached(i) = 0
  BY Zenon DEF Init, Busy, received, reached
<1>4. ASSUME NEW i \in Slots
      PROVE  /\ watcher[i] = NoWatcher /\ NoWatcher \in Watcher /\ watcher[i].stopped
             /\ WatcherOK(watcher[i], reached(i), i \in watchers)
  <2>1. watcher[i] = NoWatcher
    BY Zenon DEF Init
  <2> QED BY Zenon, <1>3, <2>1, FreshKeeps
<1>5. ASSUME NEW c \in Clients
      PROVE  client[c] \in Client /\ client[c].pc = "list" /\ client[c].slot = NoSlot
  BY Zenon, <1>1 DEF Init, Client
<1>6. scenario.commits \in Nat /\ scenario.abandons \in Nat
  <2>1. scenario.commits \in 0..MaxCommits /\ scenario.abandons \in Nat
    BY Zenon, <1>2, ScenariosAssumption
  <2> QED BY <2>1, Sizes
<1>7. TypeOK
  <2>1. bc \in Broadcaster
    BY Zenon, <1>1, <1>3 DEF Broadcaster
  <2>2. watcher \in [Slots -> Watcher] /\ client \in [Clients -> Client]
    BY Zenon, <1>4, <1>5 DEF Init
  <2>3. abandoned \in 0..scenario.abandons
    <3>1. \A n \in Nat : 0 \in 0..n
      OBVIOUS
    <3>2. abandoned = 0
      BY Zenon, <1>2
    <3> QED BY Zenon, <1>6, <3>1, <3>2
  <2> QED BY Zenon, <1>1, <1>2, <2>1, <2>2, <2>3 DEF TypeOK
<1>8. Commits
  <2>1. Len(incoming) = 0 /\ ~ sending /\ committed = 0
    BY <1>1, <1>2, Zenon
  <2>2. \A k \in 1..Len(incoming) : incoming[k] = received + k
    BY <2>1
  <2>3. received + Len(incoming) + (IF sending THEN 1 ELSE 0) = committed
    BY <1>3, <2>1
  <2>4. committed <= scenario.commits
    BY <1>6, <2>1
  <2> QED BY Zenon, <1>3, <2>2, <2>3, <2>4 DEF Commits
<1>9. Locked /\ WatchersOK /\ SlotsOwned /\ ReadersOK
  BY Zenon, <1>3, <1>4, <1>5 DEF Locked, WatchersOK, SlotsOwned, ReadersOK
<1> QED BY Zenon, <1>2, <1>7, <1>8, <1>9 DEF IInv, NeverSendsOnClosedInput

LEMMA StutterKeeps == ASSUME IInv, UNCHANGED vars PROVE IInv'
<1>1. TypeOK'
  BY Zenon DEF vars, IInv, TypeOK
<1>2. Commits' /\ Locked' /\ NeverSendsOnClosedInput'
  BY Zenon DEF vars, IInv, Commits, Locked, received, Busy, NeverSendsOnClosedInput
<1>3. WatchersOK' /\ SlotsOwned' /\ ReadersOK'
  <2>1. \A j : reached(j)' = reached(j)
    BY Zenon DEF vars, reached, Busy
  <2> QED BY Zenon, <2>1, NoWatcherChanges DEF vars
<1> QED BY Zenon, <1>1, <1>2, <1>3 DEF IInv

\* What the broadcaster, the goroutines of the watchers and the reflectors keep
\* between them, at every moment and for any number of clients, commits and
\* buffer sizes: every commit is distributed, queued or being queued, in order;
\* a watcher that is not stopped is registered and its two channels hold a run
\* of consecutive events that ends with the last one distributed to it; while
\* distribute adds to a watcher, nobody closes its channel.
THEOREM Invariance == Spec => []IInv
<1>1. Init => IInv
  BY Zenon, InitOK
<1>2. IInv /\ [Next]_vars => IInv'
  <2> SUFFICES ASSUME IInv, [Next]_vars PROVE IInv'
    BY Zenon
  <2>1. CASE Commit
    BY Zenon, <2>1, CommitKeeps
  <2>2. CASE Action
    BY Zenon, <2>2, ActionKeeps
  <2>3. CASE Broadcast
    BY Zenon, <2>3, BroadcastKeeps
  <2>4. CASE Shutdown
    BY Zenon, <2>4, ShutdownKeeps
  <2>5. CASE \E i \in Slots : Process(i)
    BY Zenon, <2>5, ProcessKeeps
  <2>6. CASE \E c \in Clients : Reflect(c)
    BY Zenon, <2>6, ReflectKeeps
  <2>7. CASE \E c \in Clients : Abandon(c)
    BY Zenon, <2>7, AbandonKeeps
  <2>8. CASE UNCHANGED vars
    BY Zenon, <2>8, StutterKeeps
  <2> QED BY Zenon, <2>1, <2>2, <2>3, <2>4, <2>5, <2>6, <2>7, <2>8 DEF Next
<1> QED BY <1>1, <1>2, PTL DEF Spec

\* Every channel of the broadcaster stays within its buffer and every goroutine
\* in one of its states.
THEOREM TypeCorrect == Spec => []TypeOK
<1>1. IInv => TypeOK
  BY Zenon DEF IInv
<1> QED BY <1>1, Invariance, PTL

\* add tests stopped without the mutex of the watcher and sends: nobody closes
\* the input in between, since every dostop but the one of the watcher itself is
\* called with the lock that distribute holds.
THEOREM InputsStayOpen == Spec => []NeverSendsOnClosedInput
<1>1. IInv => NeverSendsOnClosedInput
  BY Zenon DEF IInv
<1> QED BY <1>1, Invariance, PTL

\* An event in front of a run of events it is followed by.
LEMMA FollowsOn ==
  ASSUME NEW n \in Nat, NEW s \in Bounded(Events \cup {Expired}, n), NEW a \in Events,
         Follows(s), s # <<>> => s[1] \in {a + 1, Expired}
  PROVE  Follows(<<a>> \o s)
<1> DEFINE t == <<a>> \o s
<1>1. s \in Seq(Events \cup {Expired}) /\ <<a>> \in Seq(Events \cup {Expired})
  BY BoundedIsSeq
<1>2. Len(s) \in Nat /\ (s # <<>> <=> Len(s) # 0)
  BY Zenon, <1>1, EmptySeq, LenProperties
<1>3. Len(<<a>>) = 1 /\ <<a>>[1] = a
  BY Zenon
<1>4. /\ Len(t) = Len(s) + 1
      /\ t[1] = a /\ \A k \in 1..Len(s) : t[k + 1] = s[k]
  <2>1. /\ Len(t) = Len(<<a>>) + Len(s)
        /\ \A k \in 1 .. Len(<<a>>) + Len(s) :
             t[k] = IF k <= Len(<<a>>) THEN <<a>>[k] ELSE s[k - Len(<<a>>)]
    BY Zenon, <1>1, ConcatProperties
  <2> HIDE DEF t
  <2> QED BY <1>2, <1>3, <2>1
<1> HIDE DEF t
<1>5. a # Expired
  BY DEF Events, Expired
<1> SUFFICES ASSUME NEW k \in 1 .. Len(t) - 1
             PROVE  t[k + 1] \in {t[k] + 1, Expired} /\ t[k] # Expired
  BY Zenon DEF Follows, t
<1>6. k \in 1..Len(s) /\ t[k + 1] = s[k]
  BY <1>2, <1>4
<1>7. CASE k = 1
  BY <1>2, <1>4, <1>5, <1>6, <1>7
<1>8. CASE k # 1
  <2>1. k - 1 \in 1 .. Len(s) - 1 /\ k - 1 \in 1..Len(s) /\ (k - 1) + 1 = k
    BY <1>2, <1>6, <1>8
  <2>2. t[k] = s[k - 1]
    BY Zenon, <1>4, <2>1
  <2>3. s[(k - 1) + 1] \in {s[k - 1] + 1, Expired} /\ s[k - 1] # Expired
    BY Zenon, <2>1 DEF Follows
  <2> QED BY Zenon, <1>6, <2>1, <2>2, <2>3
<1> QED BY Zenon, <1>7, <1>8

\* Whatever ends a watch, what its client reads from it are consecutive events,
\* with the error event only at the end: none is lost between incoming, the
\* input and the result of the watcher, and none is read twice.
THEOREM ReadsHaveNoHoles == Spec => []NoHoles
<1>1. ASSUME IInv PROVE NoHoles
  <2> SUFFICES ASSUME NEW c \in Clients, client[c].pc = "read"
               PROVE  Follows((IF client[c].seen = 0 THEN <<>> ELSE <<client[c].seen>>)
                              \o watcher[client[c].slot].result)
    BY Zenon DEF NoHoles
  <2> DEFINE w == watcher[client[c].slot]
             seen == client[c].seen
  <2>1. client[c].slot \in Slots
    BY Zenon, <1>1 DEF IInv, SlotsOwned
  <2>2. w \in Watcher /\ client[c] \in Client
    BY Zenon, <1>1, <2>1 DEF IInv, TypeOK
  <2>3. Follows(w.result) /\ ReaderOK(w, seen, reached(client[c].slot))
    BY Zenon, <1>1, <2>1 DEF IInv, WatchersOK, WatcherOK, ReadersOK
  <2>4. w.result \in Bounded(Events \cup {Expired}, ChanSize)
    BY Zenon, <2>2, WatcherFields
  <2>5. CASE seen = 0
    <3>1. <<>> \o w.result = w.result
      BY Zenon, <2>4, BoundedIsSeq, ConcatEmptySeq, Sizes
    <3> QED BY Zenon, <2>3, <2>5, <3>1
  <2>6. CASE seen # 0
    <3>1. seen \in Events
      <4>1. seen \in 0..MaxCommits
        BY Zenon, <2>2 DEF Client
      <4> QED BY <2>6, <4>1, Sizes DEF Events
    <3>2. w.result # <<>> => w.result[1] \in {seen + 1, Expired}
      BY Zenon, <2>3, <2>6 DEF ReaderOK
    <3> QED BY Zenon, <2>3, <2>4, <2>6, <3>1, <3>2, FollowsOn, Sizes
  <2> QED BY Zenon, <2>5, <2>6
<1> QED BY <1>1, Invariance, PTL
=============================================================================
