----------------------- MODULE SessionMembershipProofs -----------------------
(***************************************************************************)
(* Theorems about joining and leaving a session and their proofs, for any  *)
(* devices, users, host and bounds.                                        *)
(***************************************************************************)
EXTENDS SessionMembership, FirebasePathProofs

-----------------------------------------------------------------------------
(* Inductive invariants.                                                   *)

\* Neither part is inductive alone: what a press writes is well formed because
\* what is shown is, an open screen shows something, and the host has no button.
MembershipInv == TypeOK /\ ListsWellFormed

HasLast(marked) == marked # {} => \E i \in marked : \A j \in marked : j <= i

\* What a queue of events promises a list holding l and a details screen
\* holding d on a device that shows v.  The list is registered first and hears
\* of every change, so an event with none for the list behind it carries v.
ListPromise(queue, l, v) ==
  /\ HasLast(QueuedFor(queue, "list"))
  /\ \A i \in 1..Len(queue) :
       (\A j \in QueuedFor(queue, "list") : j <= i) => queue[i].value = v
  /\ QueuedFor(queue, "list") = {} => l = v

DetailsPromise(queue, d, v) == EndsAt(queue, QueuedFor(queue, "details"), d, v)

\* The inductive strengthening of NothingMissed, for one device and for all.
DeviceShows(c) ==
  /\ cache[c] = NoValue =>
       events[c] = <<>> /\ listed[c] = NoValue /\ details[c] = NoValue
  /\ "list" \notin registered[c] =>
       /\ registered[c] = {} /\ events[c] = <<>> /\ c \notin shared
       /\ listed[c] = NoValue /\ details[c] = NoValue
  /\ "list" \in registered[c] => ListPromise(events[c], listed[c], View(c))
  /\ "details" \in registered[c] => DetailsPromise(events[c], details[c], View(c))

ShownInv == \A c \in Clients : DeviceShows(c)

-----------------------------------------------------------------------------
(* Lists.                                                                  *)

\* What the participants path may hold is the well-formed lists.
LEMMA ValuesAreLists ==
  /\ \A list : list \in Values <=>
       list \in [Users -> 0..1] /\ list[Host] = 1
  /\ Known = {NoValue} \cup WellFormedLists
  BY PathAssumption DEF WellFormedLists, Known

\* Leaving or joining from a well-formed list gives one: the user who presses
\* is not the host, leaves only when in the list and joins only when not.
LEMMA PressedListWellFormed ==
  ASSUME NEW list \in Values, NEW u \in Users, u # Host
  PROVE  /\ Contains(list, u) => RemoveAll(list, u) \in Values
         /\ ~Contains(list, u) => Append1(list, u) \in Values
  <1>1. list \in [Users -> 0..1] /\ list[Host] = 1
    BY ValuesAreLists
  <1>2. RemoveAll(list, u) \in [Users -> 0..1] /\ RemoveAll(list, u)[Host] = 1
    BY <1>1 DEF RemoveAll
  <1>3. ASSUME ~Contains(list, u)
        PROVE  Append1(list, u) \in [Users -> 0..1] /\ Append1(list, u)[Host] = 1
    <2>1. list[u] + 1 = 1
      BY <1>1, <1>3 DEF Contains
    <2> QED BY <1>1, <2>1 DEF Append1
  <1> QED BY <1>2, <1>3, ValuesAreLists

-----------------------------------------------------------------------------
(* Each step of the app is a step of the path.                             *)

\* A press writes a well-formed list.
LEMMA PressWrites ==
  ASSUME MembershipInv, NEW c \in Clients, Press(c)
  PROVE  \E v \in Values : /\ Write(c, v)
                           /\ details' = [details EXCEPT ![c] = v]
                           /\ listed' = IF c \in shared
                                          THEN [listed EXCEPT ![c] = v] ELSE listed
  <1>1. details[c] \in Values /\ uid[c] \in Users /\ uid[c] # Host
    BY UsersAssumption, PathAssumption DEF TypeOK, Press, MembershipInv, ListsWellFormed
  <1> DEFINE new == IF Contains(details[c], uid[c])
                      THEN RemoveAll(details[c], uid[c])
                      ELSE Append1(details[c], uid[c])
  <1>2. new \in Values
    BY <1>1, PressedListWellFormed
  <1>3. Write(c, new) /\ details' = [details EXCEPT ![c] = new]
        /\ listed' = IF c \in shared THEN [listed EXCEPT ![c] = new] ELSE listed
    BY DEF Going, Press
  <1> QED BY <1>2, <1>3

LEMMA StepOfPath ==
  ASSUME MembershipInv, [Next]_vars
  PROVE  [PathNext]_pathVars
  <1> USE PathAssumption
  <1>1. CASE UNCHANGED vars
    BY <1>1 DEF vars
  <1>2. ASSUME NEW c \in Clients, LoadList(c)
        PROVE  PathNext
    BY <1>2 DEF LoadList, PathNext
  <1>3. ASSUME NEW c \in Clients, OpenDetails(c)
        PROVE  PathNext
    <2>1. (c \in shared) \in BOOLEAN
      OBVIOUS
    <2> QED BY <1>3, <2>1 DEF OpenDetails, PathNext
  <1>4. ASSUME NEW c \in Clients, GoBack(c)
        PROVE  UNCHANGED pathVars
    BY <1>4 DEF GoBack
  <1>5. ASSUME NEW c \in Clients, Press(c)
        PROVE  PathNext
    BY <1>5, PressWrites DEF PathNext
  <1>6. ASSUME NEW c \in Clients, NEW reading \in BOOLEAN,
               HandleEvent(c, reading)
        PROVE  PathNext
    BY <1>6 DEF HandleEvent, PathNext
  <1>7. ASSUME NEW c \in Clients, KillApp(c)
        PROVE  PathNext
    BY <1>7 DEF KillApp, PathNext
  <1>8. ASSUME NEW c \in Clients, Background(c)
        PROVE  PathNext
    BY <1>8 DEF Background, PathNext
  <1>9. ASSUME NEW c \in Clients, OtherSessionChanges(c)
        PROVE  PathNext
    BY <1>9 DEF OtherSessionChanges, PathNext
  <1> QED BY <1>1, <1>2, <1>3, <1>4, <1>5, <1>6, <1>7, <1>8, <1>9 DEF Next

-----------------------------------------------------------------------------
(* MembershipInv is inductive.                                             *)

\* The part of MembershipInv about the screens.
ScreensInv ==
  /\ TypeOK
  /\ \A c \in Clients : listed[c] \in Known /\ details[c] \in Known

LEMMA MembershipInvParts == MembershipInv <=> PathTypeOK /\ ScreensInv
  BY ValuesAreLists DEF MembershipInv, ListsWellFormed, ScreensInv, TypeOK

\* A value the path may hold is a list.
LEMMA KnownAreLists == Known \subseteq {NoValue} \cup Lists
  BY ValuesAreLists DEF WellFormedLists, Lists

LEMMA OpenDetailsInv ==
  ASSUME ScreensInv, NEW c \in Clients, OpenDetails(c)
  PROVE  ScreensInv'
  <1>1. Title(c, listed[c]) \in {"Join", "Leave", "hidden"}
        /\ (Title(c, listed[c]) # "hidden" => uid[c] # Host)
    BY DEF Title
  <1> QED BY <1>1 DEF OpenDetails, ScreensInv, TypeOK

LEMMA PressInv ==
  ASSUME MembershipInv, NEW c \in Clients, Press(c)
  PROVE  ScreensInv'
  <1>1. PICK v \in Values : /\ details' = [details EXCEPT ![c] = v]
                           /\ listed' = IF c \in shared
                                          THEN [listed EXCEPT ![c] = v] ELSE listed
    BY PressWrites
  <1>2. v \in Known /\ v # NoValue /\ v \in {NoValue} \cup Lists
    BY NoValueAssumption, KnownAreLists DEF Known
  <1>3. shared' = shared /\ open' = open /\ button[c] # "hidden"
        /\ button' = [button EXCEPT ![c] = IF Contains(details[c], uid[c])
                                            THEN "Join" ELSE "Leave"]
    BY DEF Going, Press
  <1>4. ScreensInv
    BY MembershipInvParts
  <1> QED BY <1>1, <1>2, <1>3, <1>4 DEF ScreensInv, TypeOK

LEMMA HandleEventInv ==
  ASSUME PathTypeOK, ScreensInv, NEW c \in Clients, NEW reading \in BOOLEAN,
         HandleEvent(c, reading)
  PROVE  ScreensInv'
  <1>1. Head(events[c]) \in Event
    BY TailType DEF HandleEvent, Deliver, PathTypeOK
  <1>2. Head(events[c]).value \in Known /\ Head(events[c]).value # NoValue
        /\ Head(events[c]).value \in {NoValue} \cup Lists
    BY <1>1, NoValueAssumption, KnownAreLists DEF Event, Known
  <1>3. details' = details \/ details' = [details EXCEPT ![c] = Head(events[c]).value]
    BY DEF HandleEvent
  <1>4. listed' = listed \/ listed' = [listed EXCEPT ![c] = Head(events[c]).value]
    BY DEF HandleEvent
  <1>5. shared' \subseteq shared /\ open' = open /\ button' = button
    BY DEF HandleEvent
  <1> QED BY <1>2, <1>3, <1>4, <1>5 DEF ScreensInv, TypeOK

LEMMA KillAppInv ==
  ASSUME ScreensInv, NEW c \in Clients, KillApp(c)
  PROVE  ScreensInv'
  BY DEF KillApp, ScreensInv, TypeOK, Known

LEMMA MembershipInvStep ==
  ASSUME MembershipInv, [Next]_vars
  PROVE  MembershipInv'
  <1>1. PathTypeOK /\ ScreensInv
    BY MembershipInvParts
  <1>2. PathTypeOK'
    BY <1>1, StepOfPath, PathStepType
  <1>3. ScreensInv'
    <2>1. ASSUME UNCHANGED screenVars
          PROVE  ScreensInv'
      BY <1>1, <2>1 DEF screenVars, ScreensInv, TypeOK
    <2>2. CASE UNCHANGED vars
      BY <2>1, <2>2 DEF vars
    <2>3. ASSUME NEW c \in Clients,
                 LoadList(c) \/ OtherSessionChanges(c) \/ Background(c)
          PROVE  ScreensInv'
      BY <2>1, <2>3 DEF LoadList, OtherSessionChanges, Background
    <2>4. ASSUME NEW c \in Clients, OpenDetails(c)
          PROVE  ScreensInv'
      BY <1>1, <2>4, OpenDetailsInv
    <2>5. ASSUME NEW c \in Clients, GoBack(c)
          PROVE  ScreensInv'
      BY <1>1, <2>5 DEF GoBack, ScreensInv, TypeOK
    <2>6. ASSUME NEW c \in Clients, Press(c)
          PROVE  ScreensInv'
      BY <2>6, PressInv
    <2>7. ASSUME NEW c \in Clients, NEW reading \in BOOLEAN,
                 HandleEvent(c, reading)
          PROVE  ScreensInv'
      BY <1>1, <2>7, HandleEventInv
    <2>8. ASSUME NEW c \in Clients, KillApp(c)
          PROVE  ScreensInv'
      BY <1>1, <2>8, KillAppInv
    <2> QED BY <2>2, <2>3, <2>4, <2>5, <2>6, <2>7, <2>8 DEF Next
  <1> QED BY <1>2, <1>3, ValuesAreLists
          DEF MembershipInv, ListsWellFormed, ScreensInv, TypeOK

LEMMA MembershipInvInit == Init => MembershipInv
  <1> SUFFICES ASSUME Init PROVE MembershipInv
    OBVIOUS
  <1>1. PathTypeOK
    BY InitialAssumption, BoundsAssumption, EmptySeq
    DEF Init, PathInit, PathTypeOK, Known, Budgets
  <1>2. ScreensInv
    BY DEF Init, ScreensInv, TypeOK, Known
  <1> QED BY <1>1, <1>2, MembershipInvParts

-----------------------------------------------------------------------------
(* What a queue promises, when an event is added or consumed.              *)

LEMMA QueuedForAppended ==
  ASSUME NEW q \in Seq(Event), NEW e \in Event, NEW r
  PROVE  /\ QueuedFor(Append(q, e), r) =
              IF r \in e.to THEN QueuedFor(q, r) \cup {Len(q) + 1}
              ELSE QueuedFor(q, r)
         /\ Len(q) \in Nat /\ Len(Append(q, e)) = Len(q) + 1
         /\ QueuedFor(q, r) \in SUBSET (1..Len(q))
         /\ \A i \in 1..Len(q) : Append(q, e)[i] = q[i]
         /\ Append(q, e)[Len(q) + 1] = e
  <1>1. Len(q) \in Nat /\ Len(Append(q, e)) = Len(q) + 1
        /\ (\A i \in 1..Len(q) : Append(q, e)[i] = q[i])
        /\ Append(q, e)[Len(q) + 1] = e
    BY AppendProperties, LenProperties
  <1>2. 1..(Len(q) + 1) = (1..Len(q)) \cup {Len(q) + 1}
    BY <1>1
  <1> QED BY <1>1, <1>2 DEF QueuedFor

LEMMA QueuedForConsumed ==
  ASSUME NEW q \in Seq(Event), q # <<>>, NEW r
  PROVE  /\ QueuedFor(Tail(q), r) =
              {i \in 1..(Len(q) - 1) : i + 1 \in QueuedFor(q, r)}
         /\ Len(q) \in Nat \ {0} /\ Head(q) = q[1] /\ Len(Tail(q)) = Len(q) - 1
         /\ QueuedFor(q, r) \in SUBSET (1..Len(q))
         /\ \A i \in 1..(Len(q) - 1) : Tail(q)[i] = q[i+1]
  <1>1. Len(q) \in Nat \ {0} /\ Len(Tail(q)) = Len(q) - 1 /\ Head(q) = q[1]
        /\ (\A i \in 1..(Len(q) - 1) : Tail(q)[i] = q[i+1])
    BY HeadTailProperties, LenProperties, EmptySeq
  <1>2. \A i \in 1..(Len(q) - 1) : i + 1 \in 1..Len(q)
    BY <1>1
  <1> QED BY <1>1, <1>2 DEF QueuedFor

\* A change raised to both screens settles what they will hold.
LEMMA PromiseOfChange ==
  ASSUME NEW q \in Seq(Event), NEW e \in Event, NEW l, NEW d
  PROVE  /\ "list" \in e.to => ListPromise(Append(q, e), l, e.value)
         /\ "details" \in e.to => DetailsPromise(Append(q, e), d, e.value)
  <1> DEFINE q2 == Append(q, e)
             n  == Len(q)
  <1>1. /\ n \in Nat /\ Len(q2) = n + 1 /\ q2[n + 1] = e
        /\ \A r : QueuedFor(q, r) \in SUBSET (1..n)
        /\ \A r : r \in e.to => QueuedFor(q2, r) = QueuedFor(q, r) \cup {n + 1}
    BY QueuedForAppended
  <1> HIDE DEF q2, n
  <1>2. ASSUME "list" \in e.to PROVE ListPromise(q2, l, e.value)
    <2>1. n + 1 \in QueuedFor(q2, "list")
      BY <1>1, <1>2
    <2>2. ASSUME NEW i \in 1..Len(q2), \A j \in QueuedFor(q2, "list") : j <= i
          PROVE  q2[i].value = e.value
      BY <1>1, <2>1, <2>2
    <2>3. HasLast(QueuedFor(q2, "list"))
      <3>1. \A j \in QueuedFor(q2, "list") : j <= n + 1
        <4>1. QueuedFor(q, "list") \in SUBSET (1..n)
              /\ QueuedFor(q2, "list") = QueuedFor(q, "list") \cup {n + 1}
          BY <1>1, <1>2
        <4> QED BY <1>1, <4>1
      <3> QED BY <2>1, <3>1 DEF HasLast
    <2> QED BY <2>1, <2>2, <2>3 DEF ListPromise
  <1>3. ASSUME "details" \in e.to PROVE DetailsPromise(q2, d, e.value)
    <2>1. EndsAt(q2, QueuedFor(q, "details") \cup {n + 1}, d, e.value)
      BY <1>1, EndsAtAppended
    <2> QED BY <1>1, <1>3, <2>1 DEF DetailsPromise
  <1> QED BY <1>2, <1>3 DEF q2

\* The first event of a new details screen changes nothing for the list.
LEMMA PromiseOfFirstEvent ==
  ASSUME NEW q \in Seq(Event), NEW e \in Event, NEW l,
         "list" \notin e.to, ListPromise(q, l, e.value)
  PROVE  ListPromise(Append(q, e), l, e.value)
  <1> DEFINE q2 == Append(q, e)
             n  == Len(q)
  <1>1. /\ n \in Nat /\ Len(q2) = n + 1 /\ q2[n + 1] = e
        /\ QueuedFor(q2, "list") = QueuedFor(q, "list")
        /\ \A i \in 1..n : q2[i] = q[i]
    BY QueuedForAppended
  <1> HIDE DEF q2, n
  <1>2. ASSUME NEW i \in 1..Len(q2), \A j \in QueuedFor(q2, "list") : j <= i
        PROVE  q2[i].value = e.value
    <2>1. CASE i = n + 1
      BY <1>1, <2>1
    <2>2. CASE i # n + 1
      <3>1. i \in 1..n /\ q2[i] = q[i]
        BY <1>1, <2>2
      <3> QED BY <1>1, <1>2, <3>1 DEF ListPromise, n
    <2> QED BY <2>1, <2>2
  <1> QED BY <1>1, <1>2 DEF ListPromise, q2

\* Nor does taking an old details screen's events from it.
LEMMA PromiseOfStripped ==
  ASSUME NEW q \in Seq(Event), NEW l, NEW v, ListPromise(q, l, v)
  PROVE  ListPromise([i \in 1..Len(q) |-> [q[i] EXCEPT !.to = @ \ {"details"}]], l, v)
  <1> DEFINE q2 == [i \in 1..Len(q) |-> [q[i] EXCEPT !.to = @ \ {"details"}]]
  <1>1. Len(q) \in Nat /\ \A i \in 1..Len(q) : q[i] \in Event
    BY LenProperties, ElementOfSeq
  <1>2. \A i \in 1..Len(q) : q2[i] = [q[i] EXCEPT !.to = @ \ {"details"}]
    OBVIOUS
  <1>3. \A i \in 1..Len(q) : q2[i].value = q[i].value
                            /\ ("list" \in q2[i].to <=> "list" \in q[i].to)
    BY <1>1, <1>2 DEF Event
  <1>4. q2 \in Seq(Event) /\ Len(q2) = Len(q)
    <2>1. \A i \in 1..Len(q) : [q[i] EXCEPT !.to = @ \ {"details"}] \in Event
      BY <1>1 DEF Event
    <2> QED BY <1>1, <2>1, IsASeq, LenProperties
  <1> HIDE DEF q2
  <1>5. QueuedFor(q2, "list") = QueuedFor(q, "list")
    BY <1>3, <1>4 DEF QueuedFor
  <1>6. ListPromise(q2, l, v)
    BY <1>3, <1>4, <1>5 DEF ListPromise
  <1> QED BY <1>6 DEF q2

\* Handling the oldest event keeps what the screens will hold.
LEMMA PromiseOfConsumed ==
  ASSUME NEW q \in Seq(Event), q # <<>>, NEW l, NEW l2, NEW v,
         "list" \in Head(q).to => l2 = Head(q).value,
         l2 = l \/ l2 = Head(q).value,
         ListPromise(q, l, v)
  PROVE  ListPromise(Tail(q), l2, v)
  <1> DEFINE q2 == Tail(q)
             n  == Len(q)
  <1>1. /\ n \in Nat \ {0} /\ Len(q2) = n - 1 /\ Head(q) = q[1]
        /\ QueuedFor(q, "list") \in SUBSET (1..n)
        /\ QueuedFor(q2, "list") = {i \in 1..(n-1) : i + 1 \in QueuedFor(q, "list")}
        /\ \A i \in 1..(n-1) : q2[i] = q[i+1]
    BY QueuedForConsumed
  <1>0. 1 \in QueuedFor(q, "list") <=> "list" \in Head(q).to
    BY <1>1 DEF QueuedFor
  <1>00. /\ HasLast(QueuedFor(q, "list"))
         /\ \A i \in 1..n : (\A j \in QueuedFor(q, "list") : j <= i) => q[i].value = v
         /\ QueuedFor(q, "list") = {} => l = v
    BY DEF ListPromise
  <1> HIDE DEF q2, n
  <1>2. ASSUME NEW i \in 1..Len(q2), \A j \in QueuedFor(q2, "list") : j <= i
        PROVE  q2[i].value = v
    <2>1. i + 1 \in 1..n /\ q2[i] = q[i+1]
      BY <1>1
    <2>2. \A j \in QueuedFor(q, "list") : j <= i + 1
      <3> TAKE j \in QueuedFor(q, "list")
      <3>1. j = 1 \/ j - 1 \in QueuedFor(q2, "list")
        BY <1>1
      <3> QED BY <1>1, <1>2, <3>1
    <2> QED BY <1>00, <2>1, <2>2
  <1>3. ASSUME QueuedFor(q2, "list") = {} PROVE l2 = v
    <2>1. \A j \in QueuedFor(q, "list") : j = 1
      <3> SUFFICES ASSUME NEW j \in QueuedFor(q, "list"), j # 1 PROVE FALSE
        OBVIOUS
      <3>1. j - 1 \in 1..(n-1) /\ (j - 1) + 1 = j
        BY <1>1
      <3> QED BY <1>1, <1>3, <3>1
    <2>2. q[1].value = v
      BY <1>00, <1>1, <2>1
    <2>3. CASE 1 \in QueuedFor(q, "list")
      BY <1>0, <1>1, <2>2, <2>3
    <2>4. CASE 1 \notin QueuedFor(q, "list")
      <3>1. QueuedFor(q, "list") = {}
        BY <2>1, <2>4
      <3> QED BY <1>00, <1>1, <2>2, <3>1
    <2> QED BY <2>3, <2>4
  <1>4. HasLast(QueuedFor(q2, "list"))
    <2> SUFFICES ASSUME NEW k \in QueuedFor(q2, "list")
                 PROVE  \E i \in QueuedFor(q2, "list") :
                          \A j \in QueuedFor(q2, "list") : j <= i
      BY DEF HasLast
    <2>1. k \in 1..(n-1) /\ k + 1 \in QueuedFor(q, "list")
      BY <1>1
    <2>2. PICK i \in QueuedFor(q, "list") : \A j \in QueuedFor(q, "list") : j <= i
      BY <1>00, <2>1 DEF HasLast
    <2>3. i \in 1..n /\ k + 1 <= i
      BY <1>1, <2>1, <2>2
    <2>4. i - 1 \in 1..(n-1) /\ (i - 1) + 1 = i
      BY <1>1, <2>1, <2>3
    <2>5. i - 1 \in QueuedFor(q2, "list")
      BY <1>1, <2>4
    <2>6. \A j \in QueuedFor(q2, "list") : j <= i - 1
      BY <1>1, <2>2, <2>3
    <2> QED BY <2>5, <2>6
  <1> QED BY <1>2, <1>3, <1>4 DEF ListPromise, q2

LEMMA DetailsPromiseOfConsumed ==
  ASSUME NEW q \in Seq(Event), q # <<>>, NEW d, NEW d2, NEW v,
         "details" \in Head(q).to => d2 = Head(q).value,
         "details" \notin Head(q).to => d2 = d,
         DetailsPromise(q, d, v)
  PROVE  DetailsPromise(Tail(q), d2, v)
  <1>1. /\ Len(q) \in Nat \ {0} /\ Head(q) = q[1]
        /\ QueuedFor(q, "details") \in SUBSET (1..Len(q))
        /\ QueuedFor(Tail(q), "details") =
             {i \in 1..(Len(q)-1) : i + 1 \in QueuedFor(q, "details")}
        /\ \A i \in 1..(Len(q)-1) : Tail(q)[i] = q[i+1]
    BY QueuedForConsumed
  <1>2. 1 \in QueuedFor(q, "details") <=> "details" \in Head(q).to
    BY <1>1 DEF QueuedFor
  <1>3. EndsAt(Tail(q), {i \in 1..(Len(q)-1) : i + 1 \in QueuedFor(q, "details")},
               d2, v)
    <2> DEFINE marked == QueuedFor(q, "details")
               n == Len(q)
    <2>1. /\ n \in Nat \ {0} /\ marked \in SUBSET (1..n)
          /\ \A i \in 1..(n-1) : Tail(q)[i] = q[i+1]
          /\ 1 \in marked => d2 = q[1].value
          /\ 1 \notin marked => d2 = d
          /\ EndsAt(q, marked, d, v)
      BY <1>1, <1>2 DEF DetailsPromise
    <2> HIDE DEF marked, n
    <2>2. EndsAt(Tail(q), {i \in 1..(n-1) : i + 1 \in marked}, d2, v)
      BY <2>1, EndsAtConsumed
    <2> QED BY <2>2 DEF marked, n
  <1> QED BY <1>1, <1>3 DEF DetailsPromise

-----------------------------------------------------------------------------
(* ShownInv is inductive, given MembershipInv.                             *)

LEMMA ViewIsValue ==
  ASSUME PathTypeOK, NEW c \in Clients, cache[c] # NoValue
  PROVE  View(c) \in Values
  <1>1. CASE pending[c] = <<>>
    BY <1>1 DEF View, PathTypeOK, Known
  <1>2. CASE pending[c] # <<>>
    <2>1. pending[c] \in Seq(Values)
      BY DEF PathTypeOK
    <2> QED BY <1>2, <2>1, LastIsValue DEF View
  <1> QED BY <1>1, <1>2

\* A step that leaves a device alone.
LEMMA DeviceUntouched ==
  ASSUME NEW c \in Clients, DeviceShows(c),
         events'[c] = events[c], listed'[c] = listed[c], details'[c] = details[c],
         registered'[c] = registered[c], cache'[c] = cache[c],
         pending'[c] = pending[c], c \in shared' => c \in shared
  PROVE  DeviceShows(c)'
  <1>1. View(c)' = View(c)
    BY DEF View
  <1> QED BY <1>1 DEF DeviceShows

\* A step that changes what a device shows, or leaves it, and whose screens
\* keep what they hold or take the new view.
LEMMA DeviceChanged ==
  ASSUME PathTypeOK, NEW c \in Clients, DeviceShows(c), RaiseChange(c),
         registered' = registered, shared' = shared,
         View(c)' # View(c) => View(c)' \in Values,
         cache'[c] = NoValue => cache[c] = NoValue,
         listed'[c] = listed[c] \/ listed'[c] = View(c)',
         details'[c] = details[c] \/ details'[c] = View(c)',
         "list" \notin registered[c] =>
           listed'[c] = listed[c] /\ details'[c] = details[c]
  PROVE  DeviceShows(c)'
  <1> DEFINE e == [value |-> View(c)', to |-> registered[c]]
  <1>0. events[c] \in Seq(Event)
    BY DEF PathTypeOK
  <1>1. CASE View(c)' = View(c) \/ registered[c] = {}
    <2>1. events'[c] = events[c]
      BY <1>1 DEF RaiseChange
    <2>2. "list" \in registered[c] => View(c)' = View(c)
      BY <1>1
    <2>3. cache'[c] = NoValue =>
            events'[c] = <<>> /\ listed'[c] = NoValue /\ details'[c] = NoValue
      <3>1. cache'[c] = NoValue => View(c)' = NoValue
        BY DEF View
      <3> QED BY <2>1, <3>1 DEF DeviceShows
    <2>4. "list" \in registered[c] => ListPromise(events'[c], listed'[c], View(c)')
      BY <2>1, <2>2 DEF DeviceShows, ListPromise
    <2>5. "details" \in registered[c] =>
            DetailsPromise(events'[c], details'[c], View(c)')
      <3>1. "details" \in registered[c] => "list" \in registered[c]
        BY DEF DeviceShows
      <3> QED BY <2>1, <2>2, <3>1 DEF DeviceShows, DetailsPromise, EndsAt
    <2> QED BY <2>1, <2>3, <2>4, <2>5 DEF DeviceShows
  <1>2. CASE View(c)' # View(c) /\ registered[c] # {}
    <2>1. e \in Event /\ e.value = View(c)' /\ e.to = registered[c]
      BY <1>2 DEF Event, PathTypeOK
    <2>2. events'[c] = Append(events[c], e)
      BY <1>2 DEF RaiseChange, PathTypeOK
    <2>3. "list" \in registered[c] /\ cache'[c] # NoValue
      <3>1. cache'[c] = NoValue => View(c)' = NoValue /\ View(c) = NoValue
        BY DEF View
      <3> QED BY <1>2, <3>1 DEF DeviceShows
    <2> HIDE DEF e
    <2>4. ListPromise(events'[c], listed'[c], View(c)')
      BY <1>0, <2>1, <2>2, <2>3, PromiseOfChange
    <2>5. "details" \in registered[c] =>
            DetailsPromise(events'[c], details'[c], View(c)')
      BY <1>0, <2>1, <2>2, PromiseOfChange
    <2> QED BY <2>3, <2>4, <2>5 DEF DeviceShows
  <1> QED BY <1>1, <1>2

LEMMA LoadListShows ==
  ASSUME PathTypeOK, NEW c \in Clients, DeviceShows(c), LoadList(c)
  PROVE  DeviceShows(c)'
  <1> DEFINE queued == [i \in 1..Len(events[c]) |->
                          [events[c][i] EXCEPT !.to = @ \ {"list"}]]
             e == [value |-> View(c), to |-> {"list"}]
  <1>1. /\ registered[c] = {} /\ events[c] = <<>> /\ c \notin shared
        /\ listed[c] = NoValue /\ details[c] = NoValue
    BY DEF LoadList, DeviceShows
  <1>2. /\ registered'[c] = {"list"} /\ View(c)' = View(c)
        /\ cache' = cache /\ UNCHANGED screenVars
        /\ events'[c] = IF View(c) = NoValue THEN queued ELSE Append(queued, e)
    BY <1>1 DEF Serve, LoadList, Register, PathTypeOK, View
  <1>3. queued = <<>>
    <2>1. Len(events[c]) = 0
      BY <1>1, EmptySeq
    <2>2. DOMAIN queued = {} /\ \A i \in 1..0 : queued[i] \in Event
      BY <2>1
    <2>3. queued = [i \in 1..0 |-> [events[c][i] EXCEPT !.to = @ \ {"list"}]]
      BY <2>1
    <2>4. queued \in Seq(Event)
      BY <2>3, IsASeq
    <2> QED BY <2>2, <2>4, LenProperties, EmptySeq
  <1>4. CASE View(c) = NoValue
    <2>1. events'[c] = <<>> /\ Len(<<>>) = 0
      BY <1>2, <1>3, <1>4, EmptySeq
    <2>2. ListPromise(<<>>, NoValue, NoValue)
      BY <2>1 DEF ListPromise, HasLast, QueuedFor
    <2> QED BY <1>1, <1>2, <1>4, <2>1, <2>2 DEF DeviceShows, screenVars
  <1>5. CASE View(c) # NoValue
    <2>1. e \in Event
      BY <1>5, ViewType, PathAssumption DEF Event, Known
    <2>2. ListPromise(Append(<<>>, e), listed[c], View(c))
      BY <2>1, EmptySeq, PromiseOfChange
    <2>3. cache[c] # NoValue
      BY <1>5 DEF View
    <2> QED BY <1>1, <1>2, <1>3, <1>5, <2>2, <2>3 DEF DeviceShows, screenVars
  <1> QED BY <1>4, <1>5

LEMMA OpenDetailsShows ==
  ASSUME PathTypeOK, NEW c \in Clients, DeviceShows(c), OpenDetails(c)
  PROVE  DeviceShows(c)'
  <1> DEFINE stripped == [i \in 1..Len(events[c]) |->
                            [events[c][i] EXCEPT !.to = @ \ {"details"}]]
             queued == IF c \in shared THEN events[c] ELSE stripped
             e == [value |-> View(c), to |-> {"details"}]
  <1>1. "list" \in registered[c] /\ cache[c] # NoValue
    BY DEF OpenDetails, DeviceShows
  <1>2. View(c) \in Values /\ View(c) # NoValue
    BY <1>1, ViewIsValue, NoValueAssumption
  <1>3. e \in Event /\ e.value = View(c) /\ e.to = {"details"}
    BY <1>2, PathAssumption DEF Event
  <1>4. /\ events'[c] = Append(queued, e)
        /\ registered'[c] = registered[c] \cup {"details"}
        /\ View(c)' = View(c) /\ cache' = cache /\ listed' = listed
    BY <1>2 DEF Serve, OpenDetails, Register, PathTypeOK, View
  <1>5. events[c] \in Seq(Event) /\ ListPromise(events[c], listed[c], View(c))
    BY <1>1 DEF PathTypeOK, DeviceShows
  <1>6. stripped \in Seq(Event)
    <2>1. Len(events[c]) \in Nat /\ \A i \in 1..Len(events[c]) : events[c][i] \in Event
      BY <1>5, LenProperties, ElementOfSeq
    <2>2. \A i \in 1..Len(events[c]) :
            [events[c][i] EXCEPT !.to = @ \ {"details"}] \in Event
      BY <2>1 DEF Event
    <2> QED BY <2>1, <2>2, IsASeq
  <1>7. ListPromise(stripped, listed[c], View(c))
    BY <1>5, PromiseOfStripped
  <1>8. queued \in Seq(Event) /\ ListPromise(queued, listed[c], View(c))
    BY <1>5, <1>6, <1>7
  <1> HIDE DEF queued, e
  <1>9. ListPromise(Append(queued, e), listed[c], View(c))
    BY <1>3, <1>8, PromiseOfFirstEvent
  <1>10. DetailsPromise(Append(queued, e), details'[c], View(c))
    BY <1>3, <1>8, PromiseOfChange
  <1> QED BY <1>1, <1>4, <1>9, <1>10 DEF DeviceShows

LEMMA PressShows ==
  ASSUME MembershipInv, NEW c \in Clients, DeviceShows(c), Press(c)
  PROVE  DeviceShows(c)'
  <1>0. PathTypeOK
    BY MembershipInvParts
  <1>1. details[c] # NoValue
    BY DEF TypeOK, Press, MembershipInv
  <1>2. "list" \in registered[c] /\ cache[c] # NoValue
    BY <1>1 DEF DeviceShows
  <1>3. PICK v \in Values : /\ Write(c, v)
                           /\ details' = [details EXCEPT ![c] = v]
                           /\ listed' = IF c \in shared
                                          THEN [listed EXCEPT ![c] = v] ELSE listed
    BY PressWrites
  <1>4. View(c)' = v
    <2>1. pending'[c] = Append(pending[c], v) /\ pending[c] \in Seq(Values)
          /\ cache' = cache
      BY <1>0, <1>3 DEF Write, PathTypeOK
    <2>2. pending'[c] # <<>> /\ pending'[c][Len(pending'[c])] = v
      BY <2>1, AppendProperties
    <2> QED BY <1>2, <2>1, <2>2 DEF View
  <1>5. cache' = cache /\ registered' = registered /\ RaiseChange(c)
    BY <1>3 DEF Write
  <1>6. shared' = shared
    BY DEF Press
  <1>7. listed \in [Clients -> {NoValue} \cup Lists]
        /\ details \in [Clients -> {NoValue} \cup Lists]
    BY DEF MembershipInv, TypeOK
  <1>8. details'[c] = v /\ (listed'[c] = listed[c] \/ listed'[c] = v)
    BY <1>3, <1>7
  <1> QED BY <1>0, <1>2, <1>4, <1>5, <1>6, <1>8, DeviceChanged

LEMMA ReceiveShows ==
  ASSUME PathTypeOK, PathTypeOK', NEW c \in Clients, DeviceShows(c),
         Receive(c), UNCHANGED screenVars
  PROVE  DeviceShows(c)'
  <1>1. RaiseChange(c) /\ registered' = registered
    BY DEF Receive, ReceiveData, ReceiveOk, ReceiveRejected, ReceiveAnswer,
           ReceiveListening, TakeDown
  <1>2. cache'[c] = NoValue => cache[c] = NoValue
    <2>1. CASE ReceiveData(c)
      <3>1. Head(down[c]) \in DownMessage /\ Head(down[c]).kind = "data"
        BY <2>1, TailType DEF ReceiveData, TakeDown, PathTypeOK
      <3>2. cache'[c] \in Values
        BY <2>1, <3>1, MessageTypes DEF ReceiveData, PathTypeOK
      <3> QED BY <3>2, NoValueAssumption
    <2>2. CASE ReceiveOk(c) \/ ReceiveRejected(c) \/ ReceiveListening(c)
      BY <2>2 DEF ReceiveOk, ReceiveRejected, ReceiveAnswer, ReceiveListening
    <2> QED BY <2>1, <2>2 DEF Receive
  <1>3. View(c)' # View(c) => View(c)' \in Values
    <2>1. cache'[c] = NoValue => View(c)' = NoValue /\ View(c) = NoValue
      BY <1>2 DEF View
    <2>2. cache'[c] # NoValue => View(c)' \in Values
      <3>1. pending'[c] \in Seq(Values) /\ cache'[c] \in Known
        BY DEF PathTypeOK
      <3>2. pending'[c] # <<>> => pending'[c][Len(pending'[c])] \in Values
        BY <3>1, LastIsValue
      <3> QED BY <3>1, <3>2 DEF View, Known
    <2> QED BY <2>1, <2>2
  <1>4. listed' = listed /\ details' = details /\ shared' = shared
    BY DEF screenVars
  <1> QED BY <1>1, <1>2, <1>3, <1>4, DeviceChanged

LEMMA HandleEventShows ==
  ASSUME MembershipInv, NEW c \in Clients, DeviceShows(c),
         NEW reading \in BOOLEAN, HandleEvent(c, reading)
  PROVE  DeviceShows(c)'
  <1>1. events[c] # <<>> /\ events[c] \in Seq(Event)
    BY DEF HandleEvent, Deliver, MembershipInv, ListsWellFormed, PathTypeOK
  <1>2. cache[c] # NoValue /\ "list" \in registered[c]
    BY <1>1 DEF DeviceShows
  <1>3. /\ events'[c] = Tail(events[c]) /\ registered' = registered
        /\ cache' = cache /\ pending' = pending
    BY DEF HandleEvent, Deliver, MembershipInv, ListsWellFormed, PathTypeOK
  <1>4. View(c)' = View(c)
    BY <1>3 DEF View
  <1> DEFINE e == Head(events[c])
  <1>5. listed \in [Clients -> {NoValue} \cup Lists]
        /\ details \in [Clients -> {NoValue} \cup Lists]
    BY DEF MembershipInv, TypeOK
  <1>6. /\ "list" \in e.to => listed'[c] = e.value
        /\ listed'[c] = listed[c] \/ listed'[c] = e.value
        /\ "details" \in e.to => details'[c] = e.value
        /\ "details" \notin e.to => details'[c] = details[c]
    BY <1>5 DEF HandleEvent
  <1>7. ListPromise(Tail(events[c]), listed'[c], View(c))
    <2>1. ListPromise(events[c], listed[c], View(c))
      BY <1>2 DEF DeviceShows
    <2> QED BY <1>1, <1>6, <2>1, PromiseOfConsumed
  <1>8. "details" \in registered[c] =>
          DetailsPromise(Tail(events[c]), details'[c], View(c))
    <2>1. "details" \in registered[c] =>
            DetailsPromise(events[c], details[c], View(c))
      BY DEF DeviceShows
    <2> QED BY <1>1, <1>6, <2>1, DetailsPromiseOfConsumed
  <1> QED BY <1>2, <1>3, <1>4, <1>7, <1>8 DEF DeviceShows

\* An event for the list only leaves what a details screen will hold.
LEMMA DetailsPromiseKept ==
  ASSUME NEW q \in Seq(Event), NEW e \in Event, NEW d, NEW v,
         "details" \notin e.to, DetailsPromise(q, d, v)
  PROVE  DetailsPromise(Append(q, e), d, v)
  <1>1. /\ QueuedFor(Append(q, e), "details") = QueuedFor(q, "details")
        /\ QueuedFor(q, "details") \in SUBSET (1..Len(q))
        /\ \A i \in 1..Len(q) : Append(q, e)[i] = q[i]
    BY QueuedForAppended
  <1> QED BY <1>1 DEF DetailsPromise, EndsAt

LEMMA OtherSessionShows ==
  ASSUME PathTypeOK, NEW c \in Clients, DeviceShows(c), OtherSessionChanges(c)
  PROVE  DeviceShows(c)'
  <1> DEFINE e == [value |-> View(c), to |-> {"list"}]
  <1>1. "list" \in registered[c] /\ View(c) # NoValue
    BY DEF OtherSessionChanges, RaiseAgain
  <1>2. cache[c] # NoValue
    BY <1>1 DEF View
  <1>3. View(c) \in Values
    BY <1>2, ViewIsValue
  <1>4. e \in Event /\ e.value = View(c) /\ e.to = {"list"}
    BY <1>3, PathAssumption DEF Event
  <1>5. /\ events'[c] = Append(events[c], e) /\ events[c] \in Seq(Event)
        /\ registered' = registered /\ cache' = cache /\ View(c)' = View(c)
        /\ UNCHANGED screenVars
    BY <1>1 DEF Serve, OtherSessionChanges, RaiseAgain, PathTypeOK, View
  <1> HIDE DEF e
  <1>6. ListPromise(Append(events[c], e), listed[c], View(c))
    BY <1>4, <1>5, PromiseOfChange
  <1>7. "details" \in registered[c] =>
          DetailsPromise(Append(events[c], e), details[c], View(c))
    BY <1>4, <1>5, DetailsPromiseKept DEF DeviceShows
  <1> QED BY <1>1, <1>2, <1>5, <1>6, <1>7 DEF DeviceShows, screenVars

LEMMA KillAppShows ==
  ASSUME MembershipInv, NEW c \in Clients, KillApp(c)
  PROVE  DeviceShows(c)'
  <1>1. registered'[c] = {} /\ events'[c] = <<>> /\ c \notin shared'
        /\ listed'[c] = NoValue /\ details'[c] = NoValue
    BY DEF KillApp, Kill, MembershipInv, ListsWellFormed, PathTypeOK, TypeOK
  <1> QED BY <1>1 DEF DeviceShows

\* If some event is queued for the list, the last such event carries the view.
LEMMA LastMarked ==
  ASSUME NEW q \in Seq(Event), NEW l, NEW v, ListPromise(q, l, v),
         QueuedFor(q, "list") # {}
  PROVE  \E i \in QueuedFor(q, "list") :
           /\ \A j \in QueuedFor(q, "list") : j <= i
           /\ q[i].value = v
  <1>1. PICK i \in QueuedFor(q, "list") : \A j \in QueuedFor(q, "list") : j <= i
    BY DEF ListPromise, HasLast
  <1>2. i \in 1..Len(q)
    BY DEF QueuedFor
  <1> QED BY <1>1, <1>2 DEF ListPromise

LEMMA ShownInvStep ==
  ASSUME MembershipInv, ShownInv, [Next]_vars
  PROVE  ShownInv'
  <1> SUFFICES ASSUME NEW d \in Clients
               PROVE  DeviceShows(d)'
    BY DEF ShownInv
  <1>0. PathTypeOK /\ PathTypeOK' /\ DeviceShows(d) /\ TypeOK
    BY MembershipInvStep DEF MembershipInv, ListsWellFormed, ShownInv
  <1>1. ASSUME UNCHANGED <<cache, pending, registered, events>>, UNCHANGED screenVars
        PROVE  DeviceShows(d)'
    BY <1>0, <1>1, DeviceUntouched DEF screenVars
  <1>2. CASE UNCHANGED vars
    BY <1>1, <1>2 DEF vars, pathVars
  <1>3. ASSUME NEW c \in Clients, LoadList(c)
        PROVE  DeviceShows(d)'
    <2>1. CASE d = c
      BY <1>0, <1>3, <2>1, LoadListShows
    <2>2. CASE d # c
      BY <1>0, <1>3, <2>2, DeviceUntouched
      DEF LoadList, Register, PathTypeOK, screenVars
    <2> QED BY <2>1, <2>2
  <1>4. ASSUME NEW c \in Clients, OpenDetails(c)
        PROVE  DeviceShows(d)'
    <2>1. CASE d = c
      BY <1>0, <1>4, <2>1, OpenDetailsShows
    <2>2. CASE d # c
      BY <1>0, <1>4, <2>2, DeviceUntouched
      DEF OpenDetails, Register, PathTypeOK, TypeOK
    <2> QED BY <2>1, <2>2
  <1>5. ASSUME NEW c \in Clients, GoBack(c)
        PROVE  DeviceShows(d)'
    BY <1>0, <1>5, DeviceUntouched DEF GoBack, pathVars
  <1>6. ASSUME NEW c \in Clients, Press(c)
        PROVE  DeviceShows(d)'
    <2>1. CASE d = c
      BY <1>0, <1>6, <2>1, PressShows
    <2>2. CASE d # c
      <3>1. events'[d] = events[d] /\ registered' = registered /\ cache' = cache
            /\ pending'[d] = pending[d]
        BY <1>0, <1>6, <2>2 DEF Press, Write, RaiseChange, PathTypeOK
      <3>2. listed'[d] = listed[d] /\ details'[d] = details[d] /\ shared' = shared
        BY <1>0, <1>6, <2>2 DEF Press, TypeOK
      <3> QED BY <1>0, <3>1, <3>2, DeviceUntouched
    <2> QED BY <2>1, <2>2
  <1>7. ASSUME NEW c \in Clients, NEW reading \in BOOLEAN,
               HandleEvent(c, reading)
        PROVE  DeviceShows(d)'
    <2>1. CASE d = c
      BY <1>0, <1>7, <2>1, HandleEventShows
    <2>2. CASE d # c
      <3>1. events'[d] = events[d] /\ registered' = registered /\ cache' = cache
            /\ pending' = pending
        BY <1>0, <1>7, <2>2 DEF HandleEvent, Deliver, PathTypeOK
      <3>2. listed'[d] = listed[d] /\ details'[d] = details[d]
            /\ shared' \subseteq shared
        BY <1>0, <1>7, <2>2 DEF HandleEvent, TypeOK
      <3> QED BY <1>0, <3>1, <3>2, DeviceUntouched
    <2> QED BY <2>1, <2>2
  <1>8. ASSUME NEW c \in Clients, KillApp(c)
        PROVE  DeviceShows(d)'
    <2>1. CASE d = c
      BY <1>0, <1>8, <2>1, KillAppShows
    <2>2. CASE d # c
      BY <1>0, <1>8, <2>2, DeviceUntouched DEF KillApp, Kill, PathTypeOK, TypeOK
    <2> QED BY <2>1, <2>2
  <1>9. ASSUME NEW c \in Clients, Background(c)
        PROVE  DeviceShows(d)'
    <2>1. CASE Receive(c)
      <3>1. CASE d = c
        BY <1>0, <1>9, <2>1, <3>1, ReceiveShows DEF Background
      <3>2. CASE d # c
        <4>1. events'[d] = events[d] /\ registered' = registered
              /\ cache'[d] = cache[d] /\ pending'[d] = pending[d]
          <5>1. events \in [Clients -> Seq(Event)]
            BY <1>0 DEF PathTypeOK
          <5>2. events'[d] = events[d]
            <6>1. RaiseChange(c)
              BY <2>1 DEF Receive, ReceiveData, ReceiveOk, ReceiveRejected,
                          ReceiveAnswer, ReceiveListening
            <6> QED BY <3>2, <5>1, <6>1 DEF RaiseChange
          <5>3. registered' = registered
            BY <2>1 DEF Receive, ReceiveData, ReceiveOk, ReceiveRejected,
                        ReceiveAnswer, ReceiveListening, TakeDown
          <5>4. cache'[d] = cache[d]
            BY <1>0, <2>1, <3>2
            DEF Receive, ReceiveData, ReceiveOk, ReceiveRejected,
                ReceiveAnswer, ReceiveListening, PathTypeOK
          <5>5. pending'[d] = pending[d]
            BY <1>0, <2>1, <3>2
            DEF Receive, ReceiveData, ReceiveOk, ReceiveRejected,
                ReceiveAnswer, ReceiveListening, PathTypeOK
          <5> QED BY <5>2, <5>3, <5>4, <5>5
        <4>2. UNCHANGED screenVars
          BY <1>9 DEF Background
        <4> QED BY <1>0, <4>1, <4>2, DeviceUntouched DEF screenVars
      <3> QED BY <3>1, <3>2
    <2>2. CASE \/ ServerStep(c) \/ Read(c) \/ Disconnect(c)
               \/ \E reading \in BOOLEAN : Reconnect(c, reading)
      <3>1. UNCHANGED <<cache, pending, registered, events>>
        BY <2>2 DEF ServerStep, ServerListen, ServerRead, ServerApply, ServerReject,
                    Read, Disconnect, Reconnect
      <3> QED BY <1>1, <1>9, <3>1 DEF Background
    <2> QED BY <1>9, <2>1, <2>2 DEF Background
  <1>10. ASSUME NEW c \in Clients, OtherSessionChanges(c)
         PROVE  DeviceShows(d)'
    <2>1. CASE d = c
      BY <1>0, <1>10, <2>1, OtherSessionShows
    <2>2. CASE d # c
      <3>1. /\ events'[d] = events[d] /\ registered' = registered
            /\ cache' = cache /\ pending' = pending /\ UNCHANGED screenVars
        BY <1>0, <1>10, <2>2 DEF OtherSessionChanges, RaiseAgain, PathTypeOK
      <3> QED BY <1>0, <3>1, DeviceUntouched DEF screenVars
    <2> QED BY <2>1, <2>2
  <1> QED BY <1>2, <1>3, <1>4, <1>5, <1>6, <1>7, <1>8, <1>9, <1>10 DEF Next

LEMMA ShownInvInit == Init => ShownInv
  BY DEF Init, PathInit, ShownInv, DeviceShows

-----------------------------------------------------------------------------
(* The results.                                                            *)

THEOREM MembershipInvariant == Spec => []MembershipInv
  <1>1. MembershipInv /\ [Next]_vars => MembershipInv'
    BY MembershipInvStep
  <1> QED BY MembershipInvInit, <1>1, PTL DEF Spec

\* Type correctness of the screens.
THEOREM TypeCorrect == Spec => []TypeOK
  <1>1. MembershipInv => TypeOK
    BY DEF MembershipInv
  <1> QED BY MembershipInvariant, <1>1, PTL

\* The host is in every participants list anywhere and nobody is in one twice,
\* for any number of devices writing stale lists over each other: the forced
\* cast of fetchUsers never meets an empty node.
THEOREM ListsStayWellFormed == Spec => []ListsWellFormed
  <1>1. MembershipInv => ListsWellFormed
    BY DEF MembershipInv
  <1> QED BY MembershipInvariant, <1>1, PTL

\* The app only ever does to the path what the path allows: the detailed
\* specification implements the path's.
THEOREM AppImplementsPath == Spec => ImplementsPath
  <1>1. Init => PathInit
    BY DEF Init
  <1>2. MembershipInv /\ [Next]_vars => [PathNext]_pathVars
    BY StepOfPath
  <1> QED BY <1>1, <1>2, MembershipInvariant, PTL DEF Spec, PathSpec, ImplementsPath

\* So no device's listener is left behind by the app either.
THEOREM AppListenersAreTold == Spec => []ListenersAreTold
  BY AppImplementsPath, ListenersToldCorrect, PTL DEF ImplementsPath

\* No screen misses a change: what it holds once the queued events are handled
\* is what the device's cache and pending writes say, through any navigation,
\* press, rejection, reconnection or restart.
THEOREM ScreensMissNothing == Spec => []NothingMissed
  <1>1. MembershipInv /\ ShownInv /\ [Next]_vars => ShownInv'
    BY ShownInvStep
  <1>2. MembershipInv /\ ShownInv => NothingMissed
    <2> SUFFICES ASSUME MembershipInv, ShownInv,
                        NEW c \in Clients, NEW r \in registered[c]
                 PROVE  EndsAt(events[c], QueuedFor(events[c], r), Shown(c, r), View(c))
      BY DEF NothingMissed
    <2>1. DeviceShows(c) /\ events[c] \in Seq(Event) /\ r \in {"list", "details"}
      BY PathAssumption DEF ShownInv, MembershipInv, ListsWellFormed, PathTypeOK
    <2>2. CASE r = "details"
      BY <2>1, <2>2 DEF DeviceShows, DetailsPromise, Shown
    <2>3. CASE r = "list"
      <3> DEFINE marked == QueuedFor(events[c], "list")
      <3>1. ListPromise(events[c], listed[c], View(c))
        BY <2>1, <2>3 DEF DeviceShows
      <3>2. marked # {} =>
              \E i \in marked : /\ \A j \in marked : j <= i
                               /\ events[c][i].value = View(c)
        BY <2>1, <3>1, LastMarked
      <3> QED BY <2>3, <3>1, <3>2 DEF EndsAt, ListPromise, Shown
    <2> QED BY <2>1, <2>2, <2>3
  <1> QED BY MembershipInvariant, ShownInvInit, <1>1, <1>2, PTL DEF Spec

\* A device that is connected and has nothing travelling is settled.
THEOREM AppRestsSettled == Spec => []SettledAtRest
  BY AppImplementsPath, RestIsSettled, PTL DEF ImplementsPath

\* Two refinements composed: what the devices do to a session's participants is
\* what a shared value allows, writes taken as a whole and in each device's
\* order, through every screen, press, loss and restart.
THEOREM AppImplementsShared == Spec => ImplementsShared
  BY AppImplementsPath, PathImplementsShared, PTL DEF ImplementsPath

\* When nothing is on its way to or from a device, its screens show what the
\* server has: nothing has to be assumed of its listeners or pending writes.
THEOREM QuietScreensAreRight == Spec => []QuietScreensAgree
  <1>1. NothingMissed /\ SettledAtRest => QuietScreensAgree
    <2> SUFFICES ASSUME NothingMissed, SettledAtRest,
                        NEW c \in Clients, Quiet(c), NEW r \in registered[c]
                 PROVE  Shown(c, r) = db
      BY DEF QuietScreensAgree
    <2>1. View(c) = db
      BY DEF SettledAtRest, AtRest, Quiet
    <2>2. QueuedFor(events[c], r) = {}
      BY EmptySeq DEF Quiet, QueuedFor
    <2>3. Shown(c, r) = View(c)
      BY <2>2 DEF NothingMissed, EndsAt
    <2> QED BY <2>1, <2>3
  <1> QED BY ScreensMissNothing, AppRestsSettled, <1>1, PTL

-----------------------------------------------------------------------------
(* Who never presses, and who alone presses.                               *)

\* The host has no button.
HostsAreSilent == \A d \in Clients : uid[d] = Host => pending[d] = <<>>

LEMMA HostsAreSilentStep ==
  ASSUME MembershipInv, DueInv, HostsAreSilent, [Next]_vars
  PROVE  HostsAreSilent'
<1> SUFFICES ASSUME NEW d \in Clients, uid[d] = Host PROVE pending'[d] = <<>>
  BY DEF HostsAreSilent
<1>q. pending[d] = <<>> /\ PathTypeOK /\ TypeOK
      /\ pending \in [Clients -> Seq(Values)]
  BY DEF HostsAreSilent, MembershipInv, ListsWellFormed, PathTypeOK
<1>1. CASE UNCHANGED pending
  BY <1>1, <1>q
<1>2. ASSUME NEW c \in Clients, Press(c) PROVE pending'[d] = <<>>
  <2>1. c # d
    BY <1>2, <1>q DEF Press, TypeOK
  <2> QED
    BY <1>2, <1>q, <2>1 DEF Press, Write
<1>3. ASSUME NEW c \in Clients, Receive(c) PROVE pending'[d] = <<>>
  <2>1. CASE c # d
    BY <1>3, <1>q, <2>1
    DEF Receive, ReceiveData, ReceiveOk, ReceiveRejected, ReceiveAnswer,
        ReceiveListening
  <2>2. CASE c = d /\ ReceiveData(c)
    BY <1>q, <2>2 DEF ReceiveData
  <2>3. CASE c = d /\ (ReceiveOk(c) \/ ReceiveRejected(c))
    <3>1. Len(pending[d]) = 0 /\ deferred[d] \in Nat
      BY <1>q, EmptySeq DEF PathTypeOK
    <3>2. deferred[d] < Len(pending[d])
      BY <2>3 DEF ReceiveOk, ReceiveRejected, ReceiveAnswer
    <3> QED
      BY <3>1, <3>2
  <2>4. CASE c = d /\ ReceiveListening(c)
    <3>1. pending[d] \in Seq(Values) /\ Len(pending[d]) = 0
      BY <1>q, EmptySeq
    <3>2. deferred[d] = 0
      BY <3>1, DueHere
    <3>3. pending'[d] = Without(pending[d], 1, 0)
      BY <1>q, <2>4, <3>2 DEF ReceiveListening
    <3> QED
      BY <1>q, <3>1, <3>3, WithoutNone
  <2> QED
    BY <1>3, <2>1, <2>2, <2>3, <2>4 DEF Receive
<1>4. ASSUME NEW c \in Clients, KillApp(c) PROVE pending'[d] = <<>>
  BY <1>4, <1>q DEF KillApp, Kill
<1>5. ASSUME NEW c \in Clients,
             \/ LoadList(c) \/ OpenDetails(c) \/ GoBack(c)
             \/ \E reading \in BOOLEAN : HandleEvent(c, reading)
             \/ OtherSessionChanges(c)
             \/ ServerStep(c) \/ Read(c) \/ Disconnect(c)
             \/ \E reading \in BOOLEAN : Reconnect(c, reading)
      PROVE  UNCHANGED pending
  BY <1>5 DEF LoadList, OpenDetails, GoBack, HandleEvent, OtherSessionChanges,
              Register, Deliver, RaiseAgain, ServerStep, ServerListen,
              ServerRead, ServerApply, ServerReject, Read, Disconnect,
              Reconnect, pathVars
<1> QED
  BY <1>1, <1>2, <1>3, <1>4, <1>5 DEF Next, Background, vars, pathVars

\* The lists that have user u in them as often as the first one has.
ListsKeeping(u) == {list \in WellFormedLists : list[u] = InitialList[u]}

\* Wherever a list is kept or travelling, u is as at the start.
PlaceKept(u) ==
  /\ PathOver(ListsKeeping(u))
  /\ \A c \in Clients : /\ listed[c] \in KnownOver(ListsKeeping(u))
                        /\ details[c] \in KnownOver(ListsKeeping(u))

\* A press of one user leaves the others in the list as they are.
LEMMA PressKeepsOthers ==
  ASSUME MembershipInv, NEW u \in Users, PlaceKept(u),
         NEW c \in Clients, uid[c] # u, Press(c)
  PROVE  \E v \in ListsKeeping(u) :
           /\ Write(c, v)
           /\ details' = [details EXCEPT ![c] = v]
           /\ listed' = IF c \in shared THEN [listed EXCEPT ![c] = v] ELSE listed
<1>1. /\ details[c] \in Values /\ details[c] # NoValue
      /\ uid[c] \in Users /\ uid[c] # Host
  BY UsersAssumption, PathAssumption
  DEF TypeOK, Press, MembershipInv, ListsWellFormed
<1>2. details[c][u] = InitialList[u]
  BY <1>1 DEF PlaceKept, KnownOver, ListsKeeping
<1> DEFINE new == IF Contains(details[c], uid[c])
                    THEN RemoveAll(details[c], uid[c])
                    ELSE Append1(details[c], uid[c])
<1>3. new \in WellFormedLists
  BY <1>1, PressedListWellFormed, PathAssumption
<1>4. new[u] = details[c][u]
  <2>1. details[c] \in [Users -> 0..1]
    BY <1>1, ValuesAreLists
  <2> QED
    BY <1>1, <2>1 DEF RemoveAll, Append1
<1>5. /\ Write(c, new) /\ details' = [details EXCEPT ![c] = new]
      /\ listed' = IF c \in shared THEN [listed EXCEPT ![c] = new] ELSE listed
  BY DEF Going, Press
<1> HIDE DEF new
<1>6. new \in ListsKeeping(u)
  BY <1>2, <1>3, <1>4 DEF ListsKeeping
<1> QED
  BY <1>5, <1>6

\* The place of a user stays in every step in which the user does not press.
LEMMA PlaceKeptStep ==
  ASSUME MembershipInv, NEW u \in Users, PlaceKept(u), [Next]_vars,
         \A c \in Clients : uid[c] = u => ~Press(c)
  PROVE  PlaceKept(u)'
<1> DEFINE V == ListsKeeping(u)
<1>q. /\ PathOver(V)
      /\ listed \in [Clients -> {NoValue} \cup Lists]
      /\ details \in [Clients -> {NoValue} \cup Lists]
      /\ \A c \in Clients : listed[c] \in KnownOver(V) /\ details[c] \in KnownOver(V)
  BY DEF PlaceKept, MembershipInv, TypeOK
<1>a. PlaceKept(u)' <=>
        /\ PathOver(V)'
        /\ \A c \in Clients : /\ listed'[c] \in KnownOver(V)
                              /\ details'[c] \in KnownOver(V)
  BY DEF PlaceKept, KnownOver, ListsKeeping, WellFormedLists, InitialList
<1>n. NoValue \in KnownOver(V) /\ V \subseteq KnownOver(V)
  BY DEF KnownOver
<1> HIDE DEF V
<1>1. CASE UNCHANGED vars
  <2>1. PathOver(V)'
    BY <1>1, <1>q DEF PathOver, vars, pathVars
  <2> QED
    BY <1>1, <1>a, <1>q, <2>1 DEF vars, screenVars
<1>2. ASSUME NEW c \in Clients, LoadList(c) \/ OpenDetails(c)
      PROVE  PlaceKept(u)'
  <2>1. \E r \in Regs, carry \in BOOLEAN : Register(c, r, carry)
    <3>1. (c \in shared) \in BOOLEAN
      OBVIOUS
    <3> QED
      BY <1>2, <3>1, PathAssumption DEF LoadList, OpenDetails
  <2>2. PathOver(V)'
    BY <1>q, <2>1, RegisterOver
  <2>3. listed' = listed /\
        (details' = details \/ details' = [details EXCEPT ![c] = listed[c]])
    BY <1>2 DEF LoadList, OpenDetails, screenVars
  <2> QED
    BY <1>a, <1>q, <2>2, <2>3
<1>3. ASSUME NEW c \in Clients, GoBack(c)
      PROVE  PlaceKept(u)'
  <2>1. PathOver(V)'
    BY <1>3, <1>q DEF PathOver, GoBack, pathVars
  <2> QED
    BY <1>3, <1>a, <1>q, <2>1 DEF GoBack
<1>4. ASSUME NEW c \in Clients, Press(c)
      PROVE  PlaceKept(u)'
  <2>1. PICK v \in V :
          /\ Write(c, v)
          /\ details' = [details EXCEPT ![c] = v]
          /\ listed' = IF c \in shared THEN [listed EXCEPT ![c] = v] ELSE listed
    BY <1>4, PressKeepsOthers DEF V
  <2>2. PathOver(V)'
    BY <1>q, <2>1, WriteOver
  <2> QED
    BY <1>a, <1>n, <1>q, <2>1, <2>2
<1>5. ASSUME NEW c \in Clients, NEW reading \in BOOLEAN,
             HandleEvent(c, reading)
      PROVE  PlaceKept(u)'
  <2>1. PathOver(V)'
    BY <1>5, <1>q, DeliverOver DEF HandleEvent
  <2>2. Head(events[c]) \in EventOver(V)
    BY <1>5, <1>q, TailType DEF HandleEvent, Deliver, PathOver
  <2>3. Head(events[c]).value \in KnownOver(V)
    BY <1>n, <2>2 DEF EventOver
  <2>4. /\ \/ details' = details
           \/ details' = [details EXCEPT ![c] = Head(events[c]).value]
        /\ \/ listed' = listed
           \/ listed' = [listed EXCEPT ![c] = Head(events[c]).value]
    BY <1>5 DEF HandleEvent
  <2> QED
    BY <1>a, <1>q, <2>1, <2>3, <2>4
<1>6. ASSUME NEW c \in Clients, KillApp(c)
      PROVE  PlaceKept(u)'
  <2>1. PathOver(V)'
    BY <1>6, <1>q, ConnectionOver DEF KillApp
  <2>2. /\ listed' = [listed EXCEPT ![c] = NoValue]
        /\ details' = [details EXCEPT ![c] = NoValue]
    BY <1>6 DEF KillApp
  <2> QED
    BY <1>a, <1>n, <1>q, <2>1, <2>2
<1>7. ASSUME NEW c \in Clients, Background(c)
      PROVE  PlaceKept(u)'
  <2>1. PathOver(V)'
    BY <1>7, <1>q, ServerStepOver, ReceiveOver, ReadOver, ConnectionOver
    DEF Background
  <2> QED
    BY <1>7, <1>a, <1>q, <2>1 DEF Background, screenVars
<1>8. ASSUME NEW c \in Clients, OtherSessionChanges(c)
      PROVE  PlaceKept(u)'
  <2>1. PathOver(V)'
    BY <1>8, <1>q, RaiseAgainOver, PathAssumption DEF OtherSessionChanges
  <2> QED
    BY <1>8, <1>a, <1>q, <2>1 DEF OtherSessionChanges, screenVars
<1> QED
  BY <1>1, <1>2, <1>3, <1>4, <1>5, <1>6, <1>7, <1>8 DEF Next

LEMMA PlaceKeptInit ==
  ASSUME NEW u \in Users
  PROVE  Init => PlaceKept(u)
<1> SUFFICES ASSUME Init PROVE PlaceKept(u)
  OBVIOUS
<1>1. Initial \in ListsKeeping(u)
  BY InitialAssumption, PathAssumption DEF ListsKeeping
<1>2. PathOver(ListsKeeping(u))
  BY <1>1, BoundsAssumption, EmptySeq
  DEF Init, PathInit, PathOver, KnownOver, Budgets
<1> QED
  BY <1>2 DEF Init, PlaceKept, KnownOver

\* Who never presses keeps the place they have, in or out, in every list kept or
\* travelling anywhere, however many stale lists others write over each other:
\* a press changes the place of nobody but the one who presses, and a list that
\* comes late brings nobody back in or out who did not move
\* (join_onClick, SessionDetailsViewController.swift:130-155).
THEOREM WhoNeverPressesStays ==
  ASSUME NEW u \in Users
  PROVE  Spec /\ [][\A c \in Clients : uid[c] = u => ~Press(c)]_vars
           => []PlaceKept(u)
<1>1. /\ MembershipInv /\ PlaceKept(u) /\ [Next]_vars
      /\ [\A c \in Clients : uid[c] = u => ~Press(c)]_vars
      => PlaceKept(u)'
  <2> SUFFICES ASSUME MembershipInv, PlaceKept(u), [Next]_vars,
                      [\A c \in Clients : uid[c] = u => ~Press(c)]_vars
               PROVE  PlaceKept(u)'
    OBVIOUS
  <2>1. CASE \A c \in Clients : uid[c] = u => ~Press(c)
    BY <2>1, PlaceKeptStep
  <2>2. CASE UNCHANGED vars
    <3>1. \A c \in Clients : ~Press(c)
      <4> SUFFICES ASSUME NEW c \in Clients, Press(c) PROVE FALSE
        OBVIOUS
      <4>1. budget' = budget /\ budget["writes"] \in Nat
            /\ budget \in [Budgets -> Nat] /\ "writes" \in Budgets
        BY <2>2 DEF vars, pathVars, MembershipInv, ListsWellFormed, PathTypeOK,
                    Budgets
      <4>2. budget' = [budget EXCEPT !["writes"] = budget["writes"] - 1]
        BY DEF Press, Write, Spend
      <4> QED
        BY <4>1, <4>2
    <3> QED
      BY <3>1, PlaceKeptStep
  <2> QED
    BY <2>1, <2>2
<1> QED
  BY PlaceKeptInit, MembershipInvariant, <1>1, PTL DEF Spec

\* All devices that may press belong to one user.
OneUserPresses ==
  \A c, d \in Clients : uid[c] # Host /\ uid[d] # Host => uid[c] = uid[d]

\* The users no device of whom may press.
Bystanders == {u \in Users : \A c \in Clients : uid[c] = u => u = Host}
BystandersStay == \A u \in Bystanders : PlaceKept(u)

LEMMA BystandersStayAlways == Spec => []BystandersStay
<1>1. Init => BystandersStay
  BY PlaceKeptInit DEF BystandersStay, Bystanders
<1>2. MembershipInv /\ BystandersStay /\ [Next]_vars => BystandersStay'
  <2> SUFFICES ASSUME MembershipInv, BystandersStay, [Next]_vars,
                      NEW u \in Bystanders
               PROVE  PlaceKept(u)'
    BY DEF BystandersStay, Bystanders
  <2>1. u \in Users /\ PlaceKept(u)
    BY DEF BystandersStay, Bystanders
  <2>2. \A c \in Clients : uid[c] = u => ~Press(c)
    BY DEF Bystanders, Press, MembershipInv, TypeOK
  <2> QED
    BY <2>1, <2>2, PlaceKeptStep
<1> QED
  BY <1>1, <1>2, MembershipInvariant, PTL DEF Spec

\* A join is lost only to another user: where all devices that may press belong
\* to one user, any number of them, with any delays, losses, refusals, repeated
\* puts and restarts, nobody stops being a participant but by a put of one of
\* their own devices.  The hypothesis cannot be dropped: with two users the
\* stale list of one takes the other off (run lost_join).
THEOREM JoinsLastForOneUser ==
  ASSUME OneUserPresses
  PROVE  Spec => OnlyOwnDeviceRemoves
<1> DEFINE Removal ==
             \A u \in Users :
               Contains(db, u) /\ ~Contains(db', u)
                 => \E c \in Clients : uid[c] = u /\ up[c] # up'[c]
<1>1. Init => HostsAreSilent
  BY DEF Init, PathInit, HostsAreSilent
<1>2. /\ MembershipInv /\ PutInv /\ HostsAreSilent /\ [Next]_vars
      => HostsAreSilent'
  BY HostsAreSilentStep DEF PutInv
<1>3. /\ MembershipInv /\ HostsAreSilent /\ PutInv
      /\ BystandersStay /\ BystandersStay' /\ [Next]_vars
      => [Removal]_vars
  <2> SUFFICES ASSUME MembershipInv, HostsAreSilent, PutInv,
                      BystandersStay, BystandersStay', [Next]_vars,
                      NEW u \in Users, Contains(db, u), ~Contains(db', u)
               PROVE  \E c \in Clients : uid[c] = u /\ up[c] # up'[c]
    OBVIOUS
  <2>1. db # db'
    OBVIOUS
  <2>2. PICK c \in Clients : ServerApply(c)
    <3>1. PathNext
      BY <2>1, StepOfPath DEF pathVars
    <3> QED
      BY <2>1, <3>1, OnlyServerApplies
  <2>3. up[c] # up'[c]
    <3>1. up[c] \in Seq(UpMessage) /\ up \in [Clients -> Seq(UpMessage)]
      BY DEF PutInv, DueInv, PathTypeOK
    <3>2. up[c] # <<>> /\ up'[c] = Tail(up[c])
      BY <2>2, <3>1 DEF ServerApply, TakeUp
    <3>3. Len(Tail(up[c])) = Len(up[c]) - 1 /\ Len(up[c]) \in Nat
      BY <3>1, <3>2, HeadTailProperties, LenProperties
    <3>4. Len(Tail(up[c])) # Len(up[c])
      BY <3>3
    <3>5. Tail(up[c]) # up[c]
      BY <3>4
    <3> QED
      BY <3>2, <3>5
  <2>4. uid[c] # Host
    <3>1. TakeUp(c, "put")
      BY <2>2 DEF ServerApply
    <3>2. Dealt(c) \in Nat /\ Dealt(c) < Len(pending[c])
      BY <3>1, ServedIsNext, QueueTypes DEF PutInv, DueInv
    <3>3. pending[c] # <<>>
      BY <3>2, EmptySeq
    <3> QED
      BY <3>3 DEF HostsAreSilent
  <2>5. u \notin Bystanders
    <3> SUFFICES ASSUME u \in Bystanders PROVE FALSE
      OBVIOUS
    <3>1. db[u] = InitialList[u] /\ db'[u] = InitialList[u]
      BY DEF BystandersStay, PlaceKept, PathOver, ListsKeeping, InitialList
    <3> QED
      BY <3>1 DEF Contains
  <2>6. PICK d \in Clients : uid[d] = u /\ u # Host
    BY <2>5 DEF Bystanders
  <2>7. uid[c] = u
    BY <2>4, <2>6 DEF OneUserPresses
  <2> QED
    BY <2>3, <2>7
<1>4. Spec => []PutInv
  BY AppImplementsPath, PutAlways, PTL DEF ImplementsPath
<1> QED
  BY MembershipInvariant, BystandersStayAlways, <1>1, <1>2, <1>3, <1>4, PTL
  DEF Spec, OnlyOwnDeviceRemoves
=============================================================================
