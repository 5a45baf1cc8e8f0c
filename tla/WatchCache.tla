----------------------------- MODULE WatchCache -----------------------------
(***************************************************************************)
(* The watch broadcaster of the in-memory store (pkg/memkube/mem/          *)
(* watch_cache.go) and the informers that watch through it.                *)
(*                                                                         *)
(* Committing an object calls Action, which queues its event on a bounded  *)
(* channel.  One goroutine takes the events off and, holding the lock of   *)
(* the broadcaster, puts each into the bounded input channel of every      *)
(* watcher.  Each watcher has a goroutine that moves events from its input *)
(* to its bounded result channel, where the client reads them.  A local    *)
(* watcher (an informer of this process) is waited for as long as it takes; *)
(* a remote one is terminated when it is too slow, and expires after its   *)
(* timeout.                                                                *)
(*                                                                         *)
(* Abstractions.  The store is the sequence of its commits: the event of   *)
(* the n-th commit is the number n, the state it leads to as well.  The    *)
(* lock is held across steps by distribute only; every other holder does   *)
(* not block and is one step.  A watcher lives in a slot that is used      *)
(* again when its goroutine is gone and no client has it (the code counts  *)
(* watcherIdx up).  How long a timer runs is left open.                    *)
(***************************************************************************)
EXTENDS Naturals, Sequences

CONSTANTS Local,           \* informers of the process itself
          Remote,          \* informers served through the rpc service
          IncomingSize,    \* capacity of watchBroadcaster.incoming
          ChanSize,        \* capacity of a watcher's input and of its result
          MaxCommits,      \* bound on the commits
          Scenarios        \* which clients run, bounds on commits and on watches
                           \* abandoned, may the store shut down

ASSUME SizesAssumption ==
  /\ {IncomingSize, ChanSize} \subseteq Nat \ {0}
  /\ MaxCommits \in Nat

Clients == Local \cup Remote

ASSUME ScenariosAssumption ==
  \A s \in Scenarios :
    s.clients \subseteq Clients /\ s.commits \in 0..MaxCommits /\ s.abandons \in Nat

\* The watchers of a client that exist at a time: the one it reads, and an older
\* one whose goroutine has not ended yet.
Slots == Clients \X {1, 2}
NoSlot == <<>>
local(i) == i[1] \in Local

VARIABLES committed,    \* commits so far
          sending,      \* is the committer in Action?
          incoming,     \* watchBroadcaster.incoming
          closed,       \* has Shutdown closed it?
          bc,           \* the goroutine of watchBroadcaster.process
          watchers,     \* the slots registered in watchBroadcaster.watchers
          watcher,      \* slot -> cacheWatcher and its goroutine
          client,       \* client -> reflector
          scenario,     \* the scenario of this behaviour, fixed
          abandoned,    \* watches stopped by a client that may not have read all
          panicked      \* "", or the channel a send found closed

vars == <<committed, sending, incoming, closed, bc, watchers, watcher, client,
          scenario, abandoned, panicked>>

Expired == 0      \* the error event that makes a client list again

\* Faulty variant: a channel takes one event more than its buffer holds.
HasRoomForOneMore(channel) == Len(channel) <= ChanSize

HasRoom(channel) == Len(channel) < ChanSize

NoWatcher == [pc |-> "exited", stopped |-> TRUE,
              input |-> <<>>, item |-> 0, result |-> <<>>]

Init ==
  /\ committed = 0 /\ sending = FALSE
  /\ incoming = <<>> /\ closed = FALSE
  /\ bc = [pc |-> "receive", event |-> 0, todo |-> {}, at |-> NoSlot, done |-> 0]
  /\ watchers = {} /\ watcher = [i \in Slots |-> NoWatcher]
  /\ client = [c \in Clients |-> [pc |-> "list", next |-> "list", slot |-> NoSlot,
                                  cache |-> 0, seen |-> 0, gap |-> FALSE]]
  /\ scenario \in Scenarios /\ abandoned = 0 /\ panicked = ""
-----------------------------------------------------------------------------
(* The store *)

\* pendingObject.Commit: the object changes, its event is still to be sent.
Commit ==
  /\ ~ sending /\ committed < scenario.commits
  /\ committed' = committed + 1 /\ sending' = TRUE
  /\ UNCHANGED <<incoming, closed, bc, watchers, watcher, client, scenario, abandoned, panicked>>

\* Action: blocks while incoming is full; a closed channel makes it panic.
Action ==
  /\ sending
  /\ \/ /\ closed
        /\ panicked' = "incoming"
        /\ UNCHANGED <<sending, incoming>>
     \/ /\ ~ closed /\ Len(incoming) < IncomingSize
        /\ incoming' = Append(incoming, committed)
        /\ sending' = FALSE
        /\ UNCHANGED panicked
  /\ UNCHANGED <<committed, closed, bc, watchers, watcher, client, scenario,
                 abandoned>>
-----------------------------------------------------------------------------
(* The broadcaster *)

\* Is the lock free?  distribute holds it while it adds an event.
Unlocked == bc.pc = "receive" \/ bc.pc = "exited"

\* distribute goes on with the watchers of todo, in any order, or unlocks.
Onward(todo) ==
  bc' = IF todo = {}
        THEN [bc EXCEPT !.pc = "receive", !.todo = {}, !.at = NoSlot, !.event = 0,
                        !.done = bc.event]
        ELSE [bc EXCEPT !.pc = "pick", !.todo = todo, !.at = NoSlot]

\* process takes the next event and distribute locks; with the channel closed
\* and drained the loop ends.
Receive ==
  /\ bc.pc = "receive"
  /\ \/ /\ incoming # <<>>
        /\ incoming' = Tail(incoming)
        /\ bc' = IF watchers = {}
                 THEN [bc EXCEPT !.done = Head(incoming)]
                 ELSE [bc EXCEPT !.pc = "pick", !.event = Head(incoming), !.todo = watchers]
     \/ /\ incoming = <<>> /\ closed
        /\ bc' = [bc EXCEPT !.pc = "exited"]
        /\ UNCHANGED incoming
  /\ UNCHANGED <<watchers, watcher, panicked>>

\* add returns at once.
skips(i) == watcher[i].stopped

\* add: the test of stopped.
Pick(i) ==
  /\ bc.pc = "pick" /\ i \in bc.todo
  /\ IF skips(i) THEN Onward(bc.todo \ {i})
                 ELSE bc' = [bc EXCEPT !.pc = "try", !.todo = @ \ {i}, !.at = i]
  /\ UNCHANGED <<incoming, watchers, watcher, panicked>>

\* add, addWithTimeout: the event goes into the input channel.  dostop closes
\* that channel, and a send on a closed channel panics.
Send ==
  /\ bc.pc \in {"try", "wait"}
  /\ \/ /\ watcher[bc.at].stopped
        /\ panicked' = "input"
        /\ UNCHANGED <<watcher, bc>>
     \/ /\ ~ watcher[bc.at].stopped
        /\ HasRoom(watcher[bc.at].input)
        /\ watcher' = [watcher EXCEPT ![bc.at].input = Append(@, bc.event)]
        /\ Onward(bc.todo)
        /\ UNCHANGED panicked
  /\ UNCHANGED <<incoming, watchers>>

\* The first attempt finds the channel full.
Full ==
  /\ bc.pc = "try" /\ ~ watcher[bc.at].stopped
  /\ ~ HasRoom(watcher[bc.at].input)
  /\ bc' = [bc EXCEPT !.pc = "wait"]
  /\ UNCHANGED <<incoming, watchers, watcher, panicked>>

dostop(ws, I) == [i \in Slots |-> IF i \in I THEN [ws[i] EXCEPT !.stopped = TRUE] ELSE ws[i]]

\* Faulty variant: the broadcaster waits for remote watchers as for local ones.
NeverTimeout ==
  /\ bc.pc = "timeout"
  /\ UNCHANGED <<incoming, watchers, watcher, bc, panicked>>

\* addWithTimeout: a remote watcher stayed full too long; innerStop.
Timeout ==
  /\ bc.pc = "wait" /\ ~ local(bc.at)
  /\ watchers' = watchers \ {bc.at}
  /\ watcher' = dostop(watcher, {bc.at})
  /\ Onward(bc.todo)
  /\ UNCHANGED <<incoming, panicked>>

Broadcast ==
  /\ Receive \/ (\E i \in Slots : Pick(i)) \/ Send \/ Full \/ Timeout
  /\ UNCHANGED <<committed, sending, closed, client, scenario, abandoned>>

\* Shutdown: the channels are closed; the watchers stay registered.
Shutdown ==
  /\ scenario.shutdown /\ Unlocked /\ ~ closed
  /\ closed' = TRUE
  /\ watcher' = dostop(watcher, watchers)
  /\ UNCHANGED <<committed, sending, incoming, bc, watchers, client, scenario, abandoned, panicked>>
-----------------------------------------------------------------------------
(* The goroutine of a watcher: cacheWatcher.process *)

\* process returns: the deferred close(c.result).  Nothing is left of a watcher
\* that no client has.
Exit(ws, i) ==
  [ws EXCEPT ![i] = IF client[i[1]].slot = i
                    THEN [@ EXCEPT !.pc = "exited", !.input = <<>>, !.item = 0]
                    ELSE NoWatcher]

\* Faulty variant: the watch ends without an error event.
ExpireQuietly(i) ==
  /\ watcher[i].pc = "select" /\ ~ local(i)
  /\ watcher' = [watcher EXCEPT ![i].pc = "stop"]
  /\ UNCHANGED watchers

\* The timer of a remote watcher fires: sendEvent of the error event.
Expire(i) ==
  /\ watcher[i].pc = "select" /\ ~ local(i)
  /\ watcher' = [watcher EXCEPT ![i].pc = IF watcher[i].stopped THEN "stop" ELSE "send",
                                ![i].item = Expired]
  /\ UNCHANGED watchers

\* Faulty variant: sendEvent has no first test of done.
takeUnchecked(i) ==
  [watcher EXCEPT ![i].input = Tail(@), ![i].pc = "send", ![i].item = Head(watcher[i].input)]

\* An event leaves input; sendEvent drops it when done is closed already.
take(i) ==
  IF watcher[i].stopped
  THEN [watcher EXCEPT ![i].input = Tail(@)]
  ELSE [watcher EXCEPT ![i].input = Tail(@), ![i].pc = "send",
                       ![i].item = Head(watcher[i].input)]

\* An event from input, or the end of it.
Take(i) ==
  /\ watcher[i].pc = "select"
  /\ \/ watcher[i].input # <<>> /\ watcher' = take(i)
     \/ watcher[i].input = <<>> /\ watcher[i].stopped /\ watcher' = Exit(watcher, i)
  /\ UNCHANGED watchers

\* After sendEvent: the loop goes on, or Stop follows the error event.
afterSend(ws, i) ==
  [ws EXCEPT ![i].pc = IF watcher[i].item = Expired THEN "stop" ELSE "select",
             ![i].item = 0]

\* Faulty variant: sendEvent waits for the client even when done is closed.
sendEventOnly(i) ==
  /\ watcher[i].pc = "send"
  /\ HasRoom(watcher[i].result)
  /\ watcher' = afterSend([watcher EXCEPT ![i].result = Append(@, watcher[i].item)], i)
  /\ UNCHANGED watchers

\* sendEvent: into result, or not at all when done is closed meanwhile.
sendEvent(i) ==
  /\ watcher[i].pc = "send"
  /\ \/ /\ HasRoom(watcher[i].result)
        /\ watcher' = afterSend([watcher EXCEPT ![i].result = Append(@, watcher[i].item)], i)
     \/ /\ watcher[i].stopped
        /\ watcher' = afterSend(watcher, i)
  /\ UNCHANGED watchers

\* Stop after the error event, and the return from process.
SelfStop(i) ==
  /\ watcher[i].pc = "stop" /\ Unlocked
  /\ watchers' = watchers \ {i}
  /\ watcher' = Exit(dostop(watcher, {i}), i)

Process(i) ==
  /\ Expire(i) \/ Take(i) \/ sendEvent(i) \/ SelfStop(i)
  /\ UNCHANGED <<committed, sending, incoming, closed, bc, client, scenario, abandoned,
                 panicked>>
-----------------------------------------------------------------------------
(***************************************************************************)
(* The clients: client-go reflectors.  A reflector lists, watches from the *)
(* version of the list and replaces what it has by what it reads.  On an   *)
(* error event it stops the watch and lists again; when the watch ends     *)
(* without one it only watches again, unless it ended at once.             *)
(***************************************************************************)
List(c) ==
  /\ client[c].pc = "list" /\ c \in scenario.clients
  /\ client' = [client EXCEPT ![c].pc = "watch", ![c].cache = committed]
  /\ UNCHANGED <<watchers, watcher>>

Free(i) == watcher[i] = NoWatcher /\ client[i[1]].slot # i

\* Watch registers a watcher for the events to come: the version to watch from
\* is not used.  (gap: an event newer than the list is already distributed.)
Watch(c) ==
  /\ client[c].pc = "watch" /\ Unlocked
  /\ \E i \in Slots :
       /\ i[1] = c /\ Free(i) /\ (i[2] = 2 => ~ Free(<<c, 1>>))
       /\ watchers' = watchers \cup {i}
       /\ watcher' = [watcher EXCEPT ![i].pc = "select", ![i].stopped = FALSE]
       /\ client' = [client EXCEPT ![c].pc = "read", ![c].slot = i, ![c].seen = 0,
                                   ![c].gap = bc.done > client[c].cache]

Leave(c, next) == client' = [client EXCEPT ![c].pc = "stop", ![c].next = next]

\* watchHandler: an event from result.
ReadEvent(c) ==
  LET i == client[c].slot
      e == Head(watcher[i].result)
  IN  /\ client[c].pc = "read"
      /\ watcher[i].result # <<>>
      /\ watcher' = [watcher EXCEPT ![i].result = Tail(@)]
      /\ IF e = Expired THEN Leave(c, "list")
                        ELSE client' = [client EXCEPT ![c].cache = e, ![c].seen = e]
      /\ UNCHANGED watchers

\* watchHandler: result is closed.
ReadClosed(c) ==
  LET i == client[c].slot
  IN  /\ client[c].pc = "read"
      /\ watcher[i].result = <<>> /\ watcher[i].pc = "exited"
      /\ Leave(c, "watch") \/ (client[c].seen = 0 /\ Leave(c, "list"))
      /\ UNCHANGED <<watchers, watcher>>

\* Faulty variant: Stop closes the channels before it takes the lock.
StopFirst(c) ==
  /\ client[c].pc = "stop"
  /\ IF watcher[client[c].slot].stopped /\ Unlocked
     THEN /\ watchers' = watchers \ {client[c].slot}
          /\ client' = [client EXCEPT ![c].pc = client[c].next, ![c].slot = NoSlot]
          /\ watcher' = [watcher EXCEPT
                           ![client[c].slot] = IF @.pc = "exited" THEN NoWatcher ELSE @]
     ELSE /\ watcher' = dostop(watcher, {client[c].slot})
          /\ UNCHANGED <<watchers, client>>

\* The deferred Stop: forget under the lock, then dostop, which is seen by the
\* goroutine of the watcher only.
Stop(c) ==
  LET i == client[c].slot
  IN  /\ client[c].pc = "stop" /\ Unlocked
      /\ watchers' = watchers \ {i}
      /\ watcher' = IF watcher[i].pc = "exited" THEN [watcher EXCEPT ![i] = NoWatcher]
                                                ELSE dostop(watcher, {i})
      /\ client' = [client EXCEPT ![c].pc = client[c].next, ![c].slot = NoSlot]

Reflect(c) ==
  /\ List(c) \/ Watch(c) \/ ReadEvent(c) \/ ReadClosed(c) \/ Stop(c)
  /\ UNCHANGED <<committed, sending, incoming, closed, bc, scenario, abandoned, panicked>>

\* A client stops a watch that it may not have read to the end.  The connection
\* of a remote client breaks: serveWatch returns and stops the watcher, the client
\* sees the end of its watch.  A local reflector whose resync fails gives up its
\* watch and lists again.
Abandon(c) ==
  /\ client[c].pc = "read" /\ abandoned < scenario.abandons
  /\ abandoned' = abandoned + 1
  /\ Leave(c, IF c \in Local THEN "list" ELSE "watch")
  /\ UNCHANGED <<committed, sending, incoming, closed, bc, watchers, watcher, scenario,
                 panicked>>
-----------------------------------------------------------------------------
Next ==
  /\ panicked = ""
  /\ \/ Commit \/ Action \/ Broadcast \/ Shutdown
     \/ \E i \in Slots : Process(i)
     \/ \E c \in Clients : Reflect(c)
     \/ \E c \in Clients : Abandon(c)

\* Every goroutine that can go on does, and timers fire: the rpc service gives
\* every remote watch a timeout, addWithTimeout every wait.
Fairness ==
  /\ WF_vars(panicked = "" /\ Action)
  /\ WF_vars(panicked = "" /\ Broadcast)
  /\ \A i \in Slots : WF_vars(panicked = "" /\ Process(i))
  /\ \A c \in Clients : WF_vars(panicked = "" /\ Reflect(c))

Spec == Init /\ [][Next]_vars /\ Fairness
-----------------------------------------------------------------------------
(* Properties *)

Events == 1..MaxCommits
Bounded(S, n) == UNION {[1..k -> S] : k \in 0..n}

Broadcaster ==
  [pc : {"receive", "pick", "try", "wait", "exited"}, event : 0..MaxCommits,
   todo : SUBSET Slots, at : Slots \cup {NoSlot}, done : 0..MaxCommits]

Watcher ==
  [pc : {"select", "send", "stop", "exited"}, stopped : BOOLEAN,
   input : Bounded(Events, ChanSize), item : 0..MaxCommits,
   result : Bounded(Events \cup {Expired}, ChanSize)]

Client ==
  [pc : {"list", "watch", "read", "stop"}, next : {"list", "watch"},
   slot : Slots \cup {NoSlot}, cache : 0..MaxCommits, seen : 0..MaxCommits,
   gap : BOOLEAN]

\* Every channel holds at most what it has room for, every goroutine is
\* somewhere.
TypeOK ==
  /\ committed \in 0..MaxCommits /\ sending \in BOOLEAN /\ closed \in BOOLEAN
  /\ incoming \in Bounded(Events, IncomingSize)
  /\ bc \in Broadcaster
  /\ watchers \subseteq Slots
  /\ watcher \in [Slots -> Watcher]
  /\ client \in [Clients -> Client]
  /\ scenario \in Scenarios /\ abandoned \in 0..scenario.abandons
  /\ panicked \in {"", "incoming", "input"}

\* Nobody sends on an input channel that is closed, though add tests stopped
\* without the mutex of the watcher: whoever calls dostop holds the lock of the
\* broadcaster or has unregistered the watcher under it.
NeverSendsOnClosedInput == panicked # "input"

\* What a client reads from one watch has no hole, whatever terminates the
\* watch: an event is followed by the next one, and the error event is the last.
Follows(s) == \A k \in 1 .. Len(s) - 1 : s[k + 1] \in {s[k] + 1, Expired} /\ s[k] # Expired
NoHoles ==
  \A c \in Clients :
    client[c].pc = "read" =>
      Follows((IF client[c].seen = 0 THEN <<>> ELSE <<client[c].seen>>)
              \o watcher[client[c].slot].result)

\* The deadlock that the comment in add tells of: the broadcaster waits, with the
\* lock, for room in the input of a local watcher, whose goroutine waits for room
\* in the result, whose client waits in Stop for the lock.
Deadlock ==
  LET i == bc.at
  IN  /\ bc.pc = "wait" /\ local(i) /\ ~ HasRoom(watcher[i].input)
      /\ watcher[i].pc = "send" /\ ~ HasRoom(watcher[i].result)
      /\ client[i[1]].slot = i /\ client[i[1]].pc = "stop"
Down == panicked # "" \/ Deadlock

\* Every Watch and every Stop returns: nobody waits for the lock forever, neither
\* behind a remote watcher that is not read any more nor anywhere else, except in
\* the deadlock of a local client that stops a watch before it has read all.
CallsReturn ==
  \A c \in Clients :
    /\ client[c].pc = "watch" ~> client[c].pc # "watch" \/ Down
    /\ client[c].pc = "stop" ~> client[c].pc # "stop" \/ Down

\* The goroutine of a stopped watcher ends, with the same exception.
NoLeaks ==
  \A i \in Slots : watcher[i].stopped ~> watcher[i].pc = "exited" \/ Down

\* While the store runs, and is not in that deadlock, every informer ends up with
\* the state of the store: a remote one whatever it misses, since its watch expires
\* and makes it list; a local one unless it missed an event between its list and
\* its watch.
UpToDate(c) == client[c].cache = committed
InformersConverge ==
  <>[](closed \/ Deadlock \/ \A c \in scenario.clients :
                   UpToDate(c) \/ (c \in Local /\ client[c].gap))
=============================================================================
