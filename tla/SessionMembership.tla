-------------------------- MODULE SessionMembership --------------------------
(***************************************************************************)
(* Joining and leaving one training session.  The participants of the      *)
(* session are one path of the database (Sessions/<id>/participants; see   *)
(* FirebasePath).  Every device shows them in a list of sessions           *)
(* (FindSessionViewController) and, when the user taps a session, in a     *)
(* details screen with a Join/Leave button (SessionDetailsViewController). *)
(* Both screens keep the participants in an object of class                *)
(* TrainingSession, at first the same one.                                 *)
(*                                                                         *)
(* A participants list is modelled by how often each user occurs in it:    *)
(* its order only decides the order of the pictures on the screen.         *)
(***************************************************************************)
EXTENDS FirebasePath

CONSTANTS
  Users,
  uid,        \* the user signed in on each device
  Host,       \* the user who created the session
  Guests      \* the other users who are participants at the start

VARIABLES
  listed,   \* device |-> participants in the session object of the list
  details,  \* device |-> participants in the object of the last details screen
  shared,   \* the devices on which these are one and the same object
  open,     \* the devices on which the details screen is showing
  button    \* device |-> title of its button

screenVars == <<listed, details, shared, open, button>>
vars       == <<pathVars, screenVars>>

-----------------------------------------------------------------------------
\* How often each user occurs; the lists worth having hold everyone at most
\* once and the host always.
Lists           == [Users -> Nat]
WellFormedLists == {list \in [Users -> 0..1] : list[Host] = 1}

\* The creator of a session is its first participant.
InitialList == [u \in Users |-> IF u = Host \/ u \in Guests THEN 1 ELSE 0]

ASSUME UsersAssumption ==
  /\ uid \in [Clients -> Users]
  /\ Host \in Users
  /\ Guests \subseteq Users

\* The path this module is about: it holds participants lists and has the two
\* screens for listeners.
ASSUME PathAssumption ==
  /\ Values = WellFormedLists
  /\ Initial = InitialList
  /\ Regs = {"list", "details"}

\* Mutants, no part of the model (see FirebasePath): a join appends to the
\* list's and to the details' session, which are one object; a leave takes off
\* the first participant, the host.
AppendToBoth(list, u) == [list EXCEPT ![u] = @ + 2]
RemoveFirst(list, u)  == [list EXCEPT ![Host] = 0]

Contains(list, u)  == list[u] > 0
Append1(list, u)   == [list EXCEPT ![u] = @ + 1]
RemoveAll(list, u) == [list EXCEPT ![u] = 0]

\* Mutants: the host gets a button too; the title of the storyboard is kept.
TitleForAnyone(c, list)  == IF Contains(list, uid[c]) THEN "Leave" ELSE "Join"
TitleOfStoryboard(c, list) == IF uid[c] = Host THEN "hidden" ELSE "Join"

\* The title viewDidLoad gives the button of a session with these participants.
Title(c, list) == IF uid[c] = Host THEN "hidden"
                  ELSE IF Contains(list, uid[c]) THEN "Leave" ELSE "Join"

-----------------------------------------------------------------------------
Init ==
  /\ PathInit
  /\ listed = [c \in Clients |-> NoValue]
  /\ details = [c \in Clients |-> NoValue]
  /\ shared = {}
  /\ open = {}
  /\ button = [c \in Clients |-> "hidden"]

\* FindSessionViewController.viewDidLoad, once in the life of the process.
LoadList(c) ==
  /\ "list" \notin registered[c]
  /\ Register(c, "list", FALSE)
  /\ UNCHANGED screenVars

\* A session is tapped: the details screen gets the list's object and listens
\* too.  What is queued for the previous details screen, whose observer was
\* never removed, changes this one only if that screen's object is still the
\* list's.
OpenDetails(c) ==
  /\ c \notin open
  /\ listed[c] # NoValue
  /\ Register(c, "details", c \in shared)
  /\ details' = [details EXCEPT ![c] = listed[c]]
  /\ shared' = shared \cup {c}
  /\ open' = open \cup {c}
  /\ button' = [button EXCEPT ![c] = Title(c, listed[c])]
  /\ UNCHANGED listed

\* goBack pops the screen; its observer and its object live on.
GoBack(c) ==
  /\ c \in open
  /\ open' = open \ {c}
  /\ UNCHANGED <<pathVars, listed, details, shared, button>>

\* Mutant: the title of the button decides what a press does.
GoingByTitle(c) == button[c] = "Leave"

\* A press leaves if the user is among the participants the screen has.
Going(c) == Contains(details[c], uid[c])

\* join_onClick: leave when the details object has the user, else join; the
\* whole list is written back.
Press(c) ==
  LET new == IF Going(c) THEN RemoveAll(details[c], uid[c])
             ELSE Append1(details[c], uid[c])
  IN  /\ c \in open
      /\ button[c] # "hidden"
      /\ Write(c, new)
      /\ details' = [details EXCEPT ![c] = new]
      /\ listed' = IF c \in shared THEN [listed EXCEPT ![c] = new] ELSE listed
      /\ button' = [button EXCEPT ![c] = IF Going(c) THEN "Join" ELSE "Leave"]
      /\ UNCHANGED <<shared, open>>

\* The main queue runs the observers' blocks: the details observer stores the
\* participants in its object and reads the record of each (unless all are
\* listened to already; RosterFetch is about the answers), the list observer
\* makes new objects.  Neither touches the button.
HandleEvent(c, reading) ==
  LET event     == Head(events[c])
      toList    == "list" \in event.to
      toDetails == "details" \in event.to
  IN  /\ Deliver(c, reading)
      /\ reading => toDetails
      /\ details' = IF toDetails THEN [details EXCEPT ![c] = event.value]
                    ELSE details
      /\ listed' = IF toList \/ (toDetails /\ c \in shared)
                     THEN [listed EXCEPT ![c] = event.value] ELSE listed
      /\ shared' = IF toList THEN shared \ {c} ELSE shared
      /\ UNCHANGED <<open, button>>

\* The process is killed and starts again without screens.
KillApp(c) ==
  /\ Kill(c)
  /\ listed' = [listed EXCEPT ![c] = NoValue]
  /\ details' = [details EXCEPT ![c] = NoValue]
  /\ shared' = shared \ {c}
  /\ open' = open \ {c}
  /\ button' = [button EXCEPT ![c] = "hidden"]

\* The list's observer is on all sessions: a change of another one raises an
\* event for it as well.
OtherSessionChanges(c) ==
  /\ RaiseAgain(c, "list")
  /\ UNCHANGED screenVars

\* Steps of the client library's worker queue, the network and the server, and
\* reads by other screens on the same connection.
Background(c) ==
  /\ \/ ServerStep(c)
     \/ Receive(c)
     \/ Read(c)
     \/ Disconnect(c)
     \/ \E reading \in BOOLEAN : Reconnect(c, reading)
  /\ UNCHANGED screenVars

Next ==
  \E c \in Clients :
    \/ LoadList(c)
    \/ OpenDetails(c)
    \/ GoBack(c)
    \/ Press(c)
    \/ \E reading \in BOOLEAN : HandleEvent(c, reading)
    \/ KillApp(c)
    \/ OtherSessionChanges(c)
    \/ Background(c)

Spec == Init /\ [][Next]_vars

\* The main queue runs what it holds, and the first screen loads.
Fairness ==
  /\ \A c \in Clients :
       /\ WF_vars(LoadList(c))
       /\ WF_vars(\E reading \in BOOLEAN : HandleEvent(c, reading))
       /\ WF_vars(\E reading \in BOOLEAN :
                    Reconnect(c, reading) /\ UNCHANGED screenVars)
       /\ WF_vars(ServerStep(c) /\ UNCHANGED screenVars)
       /\ WF_vars(Receive(c) /\ UNCHANGED screenVars)

FairSpec == Spec /\ Fairness

-----------------------------------------------------------------------------
(* Properties.                                                             *)

\* Type invariant of the screens; a list may hold anyone any number of times,
\* an open details screen has one, and the host has no button to leave with.
TypeOK ==
  /\ listed \in [Clients -> {NoValue} \cup Lists]
  /\ details \in [Clients -> {NoValue} \cup Lists]
  /\ shared \in SUBSET Clients
  /\ open \in SUBSET Clients
  /\ button \in [Clients -> {"Join", "Leave", "hidden"}]
  /\ \A c \in open : details[c] # NoValue
  /\ \A c \in Clients : button[c] # "hidden" => uid[c] # Host

\* Wherever a participants list is kept or travelling, on the server, in a
\* cache, a pending write, a message, a queued event or a screen, the host is
\* in it and nobody is in it twice, whatever stale lists devices write back.
\* So the node never becomes empty and the forced cast to [String] of
\* fetchUsers (SessionDetailsViewController.swift:72) never traps.
ListsWellFormed ==
  /\ PathTypeOK
  /\ \A c \in Clients : /\ listed[c] \in {NoValue} \cup WellFormedLists
                        /\ details[c] \in {NoValue} \cup WellFormedLists

\* A screen misses nothing: the last event queued for it or, when none is,
\* what it holds is the device's current view, own pending writes included.
Shown(c, r) == IF r = "list" THEN listed[c] ELSE details[c]
QueuedFor(queue, r) == {i \in 1..Len(queue) : r \in queue[i].to}
NothingMissed ==
  \A c \in Clients : \A r \in registered[c] :
    EndsAt(events[c], QueuedFor(events[c], r), Shown(c, r), View(c))

\* A device is quiet when it is connected and nothing of this path is on its
\* way, neither between it and the server nor on its main queue.
Quiet(c) ==
  c \in online /\ up[c] = <<>> /\ down[c] = <<>> /\ events[c] = <<>>

\* When nothing is on its way, every screen shows what the server has.
QuietScreensAgree ==
  \A c \in Clients :
    Quiet(c) => \A r \in registered[c] : Shown(c, r) = db

\* The title of the button of a quiet, open details screen tells whether the
\* user is a participant on the server.  It does not once the server's rules
\* refused a write: the press changed the title and nothing changes it back
\* (join_onClick, SessionDetailsViewController.swift:130-155).
ButtonTellsMembership ==
  budget.rejects = MaxRejects =>
    \A c \in open :
      Quiet(c) /\ button[c] # "hidden"
        => (button[c] = "Leave" <=> Contains(db, uid[c]))

\* A user is a participant until one of their own devices takes them off.
OnlyOwnDeviceRemoves ==
  [][\A u \in Users :
       Contains(db, u) /\ ~Contains(db', u)
         => \E c \in Clients : uid[c] = u /\ up[c] # up'[c]]_vars

\* Once the users stop and connections last, all screens show the server's
\* participants for good.
ScreensConverge ==
  <>[](\A c \in Clients : \A r \in registered[c] : Shown(c, r) = db)

\* Every step of the app is a step of the path or leaves it alone.
ImplementsPath == PathSpec
=============================================================================
