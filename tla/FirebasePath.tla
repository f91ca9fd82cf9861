---------------------------- MODULE FirebasePath ----------------------------
(***************************************************************************)
(* One path of the Firebase Realtime Database as the app's devices see it: *)
(* the value the server keeps, and on every device the Objective-C client  *)
(* under Pods/FirebaseDatabase: the cached server value and the pending    *)
(* local writes (FSyncTree, FWriteTree), the connection with its           *)
(* outstanding puts (FPersistentConnection) and the events raised on the   *)
(* main queue (FEventRaiser).  The server is external: it handles each     *)
(* connection's messages in order, tells every listener of a new value and *)
(* then answers the writer.                                                *)
(*                                                                         *)
(* A device has one connection for all paths, and while any listen sent on *)
(* it has no response yet the answers to puts are held back.  Of the other *)
(* paths only that is kept: that they are listened to.                     *)
(*                                                                         *)
(* A write overwrites the whole value, as setValue does; what a value is   *)
(* is left to the module that instantiates this one.                       *)
(***************************************************************************)
EXTENDS Integers, Sequences, FiniteSets

CONSTANTS
  Clients,    \* the devices
  Values,     \* the values the path may hold
  Initial,    \* the value the path holds at the start
  NoValue,    \* what a device knows before the server told it anything
  Regs,       \* the kinds of listeners a device registers on the path
  MaxWrites,  \* bound: writes made, all devices together
  MaxDrops,   \* bound: connections lost
  MaxRejects, \* bound: writes the server's rules refuse
  MaxKills,   \* bound: app processes killed
  MaxReads,   \* bound: listens sent for other paths
  MaxOthers,  \* bound: changes beside the path, under a node it belongs to
  MaxQueue    \* bound: events waiting on the main queue when one registers

ASSUME InitialAssumption == Initial \in Values
ASSUME NoValueAssumption == NoValue \notin Values
ASSUME BoundsAssumption ==
  /\ MaxWrites \in Nat /\ MaxDrops \in Nat /\ MaxRejects \in Nat
  /\ MaxKills \in Nat /\ MaxReads \in Nat /\ MaxOthers \in Nat
  /\ MaxQueue \in Nat

VARIABLES
  db,         \* the value on the server
  listeners,  \* the devices the server tells of a new value
  online,     \* the devices whose connection is up
  up,         \* device |-> messages on their way to the server
  down,       \* device |-> messages on their way to the device
  cache,      \* device |-> last value received from the server
  pending,    \* device |-> local writes not acknowledged, oldest first
  registered, \* device |-> the listeners registered on the path
  events,     \* device |-> value events waiting on the main queue
  unacked,    \* device |-> listens sent on its connection without response
  deferred,   \* device |-> how many writes, the oldest, have their answer held
              \* back: received, but not before the last listen's response
  budget      \* what is left of the six bounds

pathVars == <<db, listeners, online, up, down, cache, pending, registered,
              events, unacked, deferred, budget>>

-----------------------------------------------------------------------------
\* Operators whose comment begins with "Mutant" are no part of the model: each
\* is what a plausible mistake would make of the definition that follows it.

Known == Values \cup {NoValue}

ListenRequest == [kind |-> "listen"]
ReadRequest   == [kind |-> "read"]       \* a listen on another path
Put(v)        == [kind |-> "put", value |-> v]
Data(v)       == [kind |-> "data", value |-> v]
Listening     == [kind |-> "listening"]  \* the response to either
Ok            == [kind |-> "ok"]
Rejected      == [kind |-> "rejected"]

UpMessage   == {ListenRequest, ReadRequest} \cup {Put(v) : v \in Values}
DownMessage == {Listening, Ok, Rejected} \cup {Data(v) : v \in Values}
Budgets     == {"writes", "drops", "rejects", "kills", "reads", "others"}
Event       == [value : Values, to : SUBSET Regs]

\* Mutant: the oldest write shadows the later ones.
ViewOldest(c) ==
  IF cache[c] = NoValue \/ pending[c] = <<>> THEN cache[c]
  ELSE Head(pending[c])

\* What a device shows: its latest pending write shadows the server's value,
\* and nothing is shown before the server's value is known.
View(c) ==
  IF cache[c] = NoValue \/ pending[c] = <<>> THEN cache[c]
  ELSE pending[c][Len(pending[c])]

\* Mutant: nothing is raised while a write is pending.
RaiseWhenSettled(c) ==
  events' = IF View(c)' # View(c) /\ registered[c] # {} /\ pending'[c] = <<>>
              THEN [events EXCEPT ![c] =
                      Append(@, [value |-> View(c)', to |-> registered[c]])]
              ELSE events

\* A change of the view is raised, on the main queue, to those who listen.
RaiseChange(c) ==
  events' = IF View(c)' # View(c) /\ registered[c] # {}
              THEN [events EXCEPT ![c] =
                      Append(@, [value |-> View(c)', to |-> registered[c]])]
              ELSE events

\* Mutant: a new listener is served before anything is known.
ServeUnknown(queue, c, r) == Append(queue, [value |-> View(c), to |-> {r}])

\* What is queued for a new listener: the view, if there is one yet.
Serve(queue, c, r) ==
  IF View(c) = NoValue THEN queue
  ELSE Append(queue, [value |-> View(c), to |-> {r}])

Spend(b) == budget[b] > 0 /\ budget' = [budget EXCEPT ![b] = @ - 1]

-----------------------------------------------------------------------------
PathInit ==
  /\ db = Initial
  /\ listeners = {}
  /\ online = {}
  /\ up = [c \in Clients |-> <<>>]
  /\ down = [c \in Clients |-> <<>>]
  /\ cache = [c \in Clients |-> NoValue]
  /\ pending = [c \in Clients |-> <<>>]
  /\ registered = [c \in Clients |-> {}]
  /\ events = [c \in Clients |-> <<>>]
  /\ unacked = [c \in Clients |-> 0]
  /\ deferred = [c \in Clients |-> 0]
  /\ budget = [writes |-> MaxWrites, drops |-> MaxDrops,
               rejects |-> MaxRejects, kills |-> MaxKills,
               reads |-> MaxReads, others |-> MaxOthers]

\* A listen or put is sent at once, if the connection is up.
SendListen(c, request) ==
  /\ up' = IF c \in online THEN [up EXCEPT ![c] = Append(@, request)] ELSE up
  /\ unacked' = IF c \in online THEN [unacked EXCEPT ![c] = @ + 1] ELSE unacked

\* A controller registers listener r.  The first one makes the connection
\* listen on the path; a later one is served from the cache.  Events still
\* queued for an earlier holder of r reach this one only if they share the
\* object their block writes to (carry).
Register(c, r, carry) ==
  LET queued == IF carry THEN events[c]
                ELSE [i \in 1..Len(events[c]) |->
                        [events[c][i] EXCEPT !.to = @ \ {r}]]
  IN  /\ Len(events[c]) < MaxQueue
      /\ registered' = [registered EXCEPT ![c] = @ \cup {r}]
      /\ IF registered[c] = {} THEN SendListen(c, ListenRequest)
         ELSE UNCHANGED <<up, unacked>>
      /\ events' = [events EXCEPT ![c] = Serve(queued, c, r)]
      /\ UNCHANGED <<db, listeners, online, down, cache, pending, deferred,
                     budget>>

\* setValue: the write is pending and visible at once, and sent if possible.
\* Only controllers that listen on the path write to it.
Write(c, v) ==
  /\ registered[c] # {}
  /\ Spend("writes")
  /\ pending' = [pending EXCEPT ![c] = Append(@, v)]
  /\ up' = IF c \in online THEN [up EXCEPT ![c] = Append(@, Put(v))] ELSE up
  /\ UNCHANGED <<db, listeners, online, down, cache, registered, unacked,
                 deferred>>
  /\ RaiseChange(c)

\* A controller listens on other paths, of which it reads values.  One request
\* stands for all it sends at a time: what counts is their last response.
\* Offline they only join the listens a new connection sends.
ReadElsewhere(c) ==
  /\ c \in online
  /\ Spend("reads")
  /\ SendListen(c, ReadRequest)

Read(c) ==
  /\ ReadElsewhere(c)
  /\ UNCHANGED <<db, listeners, online, down, cache, pending, registered,
                 events, deferred>>

\* The main queue runs the block of the oldest event, which may read other
\* paths.
Deliver(c, reading) ==
  /\ events[c] # <<>>
  /\ events' = [events EXCEPT ![c] = Tail(@)]
  /\ IF reading THEN ReadElsewhere(c) ELSE UNCHANGED <<up, unacked, budget>>
  /\ UNCHANGED <<db, listeners, online, down, cache, pending, registered,
                 deferred>>

\* Something changes beside the path: listener r, if it listens to a node above
\* both, is told the whole of it, this path included.
RaiseAgain(c, r) ==
  /\ r \in registered[c] /\ View(c) # NoValue
  /\ Spend("others")
  /\ events' = [events EXCEPT ![c] = Serve(@, c, r)]
  /\ UNCHANGED <<db, listeners, online, up, down, cache, pending, registered,
                 unacked, deferred>>

-----------------------------------------------------------------------------
(* The server, external.                                                   *)

TakeUp(c, kind) ==
  /\ up[c] # <<>> /\ Head(up[c]).kind = kind
  /\ up' = [up EXCEPT ![c] = Tail(@)]

\* A listen is answered with the current value, then with its response.
ServerListen(c) ==
  /\ TakeUp(c, "listen")
  /\ listeners' = listeners \cup {c}
  /\ down' = [down EXCEPT ![c] = Append(Append(@, Data(db)), Listening)]
  /\ UNCHANGED <<db, online, cache, pending, registered, events, unacked,
                 deferred, budget>>

\* Of a listen on another path only the response is of interest here.
ServerRead(c) ==
  /\ TakeUp(c, "read")
  /\ down' = [down EXCEPT ![c] = Append(@, Listening)]
  /\ UNCHANGED <<db, listeners, online, cache, pending, registered, events,
                 unacked, deferred, budget>>

\* A put replaces the value; listeners hear of it before the writer's answer.
ServerApply(c) ==
  /\ TakeUp(c, "put")
  /\ db' = Head(up[c]).value
  /\ down' = [d \in Clients |->
                LET told == IF d \in listeners THEN Append(down[d], Data(db'))
                            ELSE down[d]
                IN  IF d = c THEN Append(told, Ok) ELSE told]
  /\ UNCHANGED <<listeners, online, cache, pending, registered, events,
                 unacked, deferred, budget>>

\* The server's rules refuse a put.
ServerReject(c) ==
  /\ TakeUp(c, "put")
  /\ Spend("rejects")
  /\ down' = [down EXCEPT ![c] = Append(@, Rejected)]
  /\ UNCHANGED <<db, listeners, online, cache, pending, registered, events,
                 unacked, deferred>>

-----------------------------------------------------------------------------
(* The connection.                                                         *)

TakeDown(c, kinds) ==
  /\ down[c] # <<>> /\ Head(down[c]).kind \in kinds
  /\ down' = [down EXCEPT ![c] = Tail(@)]
  /\ UNCHANGED <<db, listeners, online, up, registered, budget>>

\* Mutant: the server's data is ignored while writes are pending.
ReceiveDataSettled(c) ==
  /\ TakeDown(c, {"data"})
  /\ cache' = IF pending[c] = <<>> THEN [cache EXCEPT ![c] = Head(down[c]).value]
              ELSE cache
  /\ UNCHANGED <<pending, unacked, deferred>>
  /\ RaiseChange(c)

\* New data from the server goes into the cache.
ReceiveData(c) ==
  /\ TakeDown(c, {"data"})
  /\ cache' = [cache EXCEPT ![c] = Head(down[c]).value]
  /\ UNCHANGED <<pending, unacked, deferred>>
  /\ RaiseChange(c)

\* A queue without the elements from a to b.
Without(queue, a, b) ==
  SubSeq(queue, 1, a - 1) \o SubSeq(queue, b + 1, Len(queue))

\* Mutant: the listeners are not told when a write is taken back.
ReceiveAnswerQuietly(c, kind) ==
  /\ TakeDown(c, {kind})
  /\ deferred[c] < Len(pending[c])
  /\ IF unacked[c] = 0
       THEN /\ pending' = [pending EXCEPT
                            ![c] = Without(@, deferred[c] + 1, deferred[c] + 1)]
            /\ UNCHANGED deferred
       ELSE /\ deferred' = [deferred EXCEPT ![c] = @ + 1]
            /\ UNCHANGED pending
  /\ UNCHANGED <<cache, unacked, events>>

\* The oldest outstanding put is answered.  If no listen waits for its response
\* the write is forgotten and, when nothing later shadows it, the view falls
\* back on the server's value; else the answer is held back.
ReceiveAnswer(c, kind) ==
  /\ TakeDown(c, {kind})
  /\ deferred[c] < Len(pending[c])
  /\ IF unacked[c] = 0
       THEN /\ pending' = [pending EXCEPT
                            ![c] = Without(@, deferred[c] + 1, deferred[c] + 1)]
            /\ UNCHANGED deferred
       ELSE /\ deferred' = [deferred EXCEPT ![c] = @ + 1]
            /\ UNCHANGED pending
  /\ UNCHANGED <<cache, unacked>>
  /\ RaiseChange(c)

ReceiveOk(c)       == ReceiveAnswer(c, "ok")
ReceiveRejected(c) == ReceiveAnswer(c, "rejected")

\* A listen has its response; with the last of them (ackPuts) all answers held
\* back are handled, oldest first: their writes are forgotten, and nothing but
\* the last can be seen, the others being shadowed by it.
ReceiveListening(c) ==
  LET acked == IF unacked[c] = 1 THEN deferred[c] ELSE 0
  IN  /\ TakeDown(c, {"listening"})
      /\ unacked' = [unacked EXCEPT ![c] = @ - 1]
      /\ pending' = [pending EXCEPT ![c] = Without(@, 1, acked)]
      /\ deferred' = [deferred EXCEPT ![c] = @ - acked]
      /\ UNCHANGED cache
      /\ RaiseChange(c)

\* Mutant: the count of listens without response survives the connection.
DisconnectCounting(c) ==
  /\ c \in online
  /\ Spend("drops")
  /\ online' = online \ {c}
  /\ listeners' = listeners \ {c}
  /\ up' = [up EXCEPT ![c] = <<>>]
  /\ down' = [down EXCEPT ![c] = <<>>]
  /\ UNCHANGED <<db, cache, pending, registered, events, unacked, deferred>>

\* The connection is lost with all that travels on it.  The pending writes,
\* those already sent included, stay, and so do the answers held back.
Disconnect(c) ==
  /\ c \in online
  /\ Spend("drops")
  /\ online' = online \ {c}
  /\ listeners' = listeners \ {c}
  /\ up' = [up EXCEPT ![c] = <<>>]
  /\ down' = [down EXCEPT ![c] = <<>>]
  /\ unacked' = [unacked EXCEPT ![c] = 0]
  /\ UNCHANGED <<db, cache, pending, registered, events, deferred>>

\* Mutant: every write not forgotten is sent again.
AllPending(c) == pending[c]

\* The puts not answered yet; a write whose answer is held back is none.
Outstanding(c) == SubSeq(pending[c], deferred[c] + 1, Len(pending[c]))

\* Mutants: only one half of the state is restored.
RestoreListens(c, reading) ==
  (IF registered[c] = {} THEN <<>> ELSE <<ListenRequest>>)
  \o (IF reading THEN <<ReadRequest>> ELSE <<>>)
RestorePuts(c, reading) ==
  [i \in 1..Len(Outstanding(c)) |-> Put(Outstanding(c)[i])]

\* What a new connection sends first: the listens, those on other paths (if
\* there are any: reading) in no particular order with this path's, then every
\* outstanding put.
RestoreState(c, reading) ==
  (IF registered[c] = {} THEN <<>> ELSE <<ListenRequest>>)
  \o (IF reading THEN <<ReadRequest>> ELSE <<>>)
  \o [i \in 1..Len(Outstanding(c)) |-> Put(Outstanding(c)[i])]

Reconnect(c, reading) ==
  /\ c \notin online
  /\ online' = online \cup {c}
  /\ up' = [up EXCEPT ![c] = RestoreState(c, reading)]
  /\ unacked' = [unacked EXCEPT ![c] = (IF registered[c] = {} THEN 0 ELSE 1)
                                      + (IF reading THEN 1 ELSE 0)]
  /\ IF reading THEN Spend("reads") ELSE UNCHANGED budget
  /\ UNCHANGED <<db, listeners, down, cache, pending, registered, events,
                 deferred>>

\* The process ends; nothing is persisted, so the next one starts from nothing.
Kill(c) ==
  /\ Spend("kills")
  /\ online' = online \ {c}
  /\ listeners' = listeners \ {c}
  /\ up' = [up EXCEPT ![c] = <<>>]
  /\ down' = [down EXCEPT ![c] = <<>>]
  /\ cache' = [cache EXCEPT ![c] = NoValue]
  /\ pending' = [pending EXCEPT ![c] = <<>>]
  /\ registered' = [registered EXCEPT ![c] = {}]
  /\ events' = [events EXCEPT ![c] = <<>>]
  /\ unacked' = [unacked EXCEPT ![c] = 0]
  /\ deferred' = [deferred EXCEPT ![c] = 0]
  /\ UNCHANGED db

-----------------------------------------------------------------------------
\* Everything the app and its user have no part in, save Deliver.
ServerStep(c) ==
  ServerListen(c) \/ ServerRead(c) \/ ServerApply(c) \/ ServerReject(c)
Receive(c) ==
  ReceiveData(c) \/ ReceiveOk(c) \/ ReceiveRejected(c) \/ ReceiveListening(c)

PathNext ==
  \E c \in Clients :
    \/ \E r \in Regs, carry \in BOOLEAN : Register(c, r, carry)
    \/ \E v \in Values : Write(c, v)
    \/ Read(c)
    \/ \E reading \in BOOLEAN : Deliver(c, reading)
    \/ \E r \in Regs : RaiseAgain(c, r)
    \/ ServerStep(c)
    \/ Receive(c)
    \/ Disconnect(c)
    \/ \E reading \in BOOLEAN : Reconnect(c, reading)
    \/ Kill(c)

PathSpec == PathInit /\ [][PathNext]_pathVars

\* The connection is retried for ever, and the queues are worked off.
PathFairness ==
  \A c \in Clients :
    /\ WF_pathVars(\E reading \in BOOLEAN : Reconnect(c, reading))
    /\ WF_pathVars(ServerStep(c))
    /\ WF_pathVars(Receive(c))

-----------------------------------------------------------------------------
(* The abstract specification and its mapping.                             *)

\* Positions of the messages of some kinds in a queue.
At(queue, kinds) == {i \in 1..Len(queue) : queue[i].kind \in kinds}

\* How many pending writes of a device the server has dealt with: their answer
\* is held back or on its way.
Answers(c) == Cardinality(At(down[c], {"ok", "rejected"}))
Dealt(c)   == deferred[c] + Answers(c)

Shared == INSTANCE SharedValue WITH
            value  <- db,
            wanted <- pending,
            taken  <- [c \in Clients |-> Dealt(c)]

-----------------------------------------------------------------------------
(* Properties.                                                             *)

\* Type invariant of the path's variables; that the count of listens, which the
\* code keeps unsigned, never gets below zero is part of HeldBackIsDue.
PathTypeOK ==
  /\ db \in Values
  /\ listeners \in SUBSET Clients
  /\ online \in SUBSET Clients
  /\ up \in [Clients -> Seq(UpMessage)]
  /\ down \in [Clients -> Seq(DownMessage)]
  /\ cache \in [Clients -> Known]
  /\ pending \in [Clients -> Seq(Values)]
  /\ registered \in [Clients -> SUBSET Regs]
  /\ events \in [Clients -> Seq(Event)]
  /\ unacked \in [Clients -> Int]
  /\ deferred \in [Clients -> Nat]
  /\ budget \in [Budgets -> Nat]

\* Every put has its answer coming: on a live connection the pending writes
\* are, oldest first, those whose answer is held back, those whose answer is
\* on its way down and those still on their way up, so an answer always finds
\* the put it answers at the head of the outstanding ones (sendPut,
\* FPersistentConnection.m:679-706), and none is applied again that was
\* answered, although onDisconnect keeps it pending.
EveryPutIsAnswered ==
  \A c \in online :
    LET puts  == At(up[c], {"put"})
        first == Dealt(c)
    IN  /\ Len(pending[c]) = first + Cardinality(puts)
        /\ \A i \in puts :
             up[c][i].value =
               pending[c][first + Cardinality({j \in puts : j <= i})]

\* v is the value of the last marked element of a queue or, when none is
\* marked, the value held already: what one will hold after the queue.
EndsAt(queue, marked, held, v) ==
  IF marked = {} THEN held = v
  ELSE \E i \in marked : (\A j \in marked : j <= i) /\ queue[i].value = v

\* A device the server counts as listening is never left behind: the last
\* data on its way down or, when there is none, the cached value is the
\* server's, after any losses, rejections and repeated puts.
ListenersAreTold ==
  \A c \in listeners : EndsAt(down[c], At(down[c], {"data"}), cache[c], db)

\* A successful answer never changes what the device shows, whatever other
\* devices write: handled as it comes (ackUserWriteOn, FViewProcessor.m:660-727)
\* it uncovers the data it confirms, which came right before it, and held back
\* it changes nothing yet.  What an answer held back uncovers later, with the
\* last listen's response (ReceiveListening), may be another device's value.
AnswerIsSilent ==
  [][\A c \in Clients : ReceiveOk(c) => View(c)' = View(c)]_pathVars

\* No answer is held back for ever: the count of listens without a response is
\* that of the listens and responses still on their way, over any loss and
\* restart, and while an answer is held back there is one, or a listen of this
\* path that the next connection will send (unackedListensCount and putsToAck,
\* FPersistentConnection.m:374, 689-698, 810-815).
HeldBackIsDue ==
  \A c \in Clients :
    /\ unacked[c] = Cardinality(At(up[c], {"listen", "read"}))
                    + Cardinality(At(down[c], {"listening"}))
    /\ deferred[c] > 0 =>
         registered[c] # {} /\ (c \in online => unacked[c] > 0)

\* Once writing, losing and restarting stop, every device that listens ends up with the
\* server's value and no write of its own left over.
DevicesSettle ==
  <>[](\A c \in Clients :
         pending[c] = <<>> /\ (registered[c] # {} => View(c) = db))

\* The path is a shared value: a device's writes are dealt with in the order
\* they were made and before they are forgotten, each as a whole, whatever is
\* lost, sent again (restoreState, FPersistentConnection.m:988-1019) or
\* rejected on the way.
ImplementsShared == Shared!Spec
=============================================================================
