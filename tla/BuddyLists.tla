----------------------------- MODULE BuddyLists -----------------------------
(***************************************************************************)
(* The buddies of the signed-in user on one device: the profile screen,    *)
(* which lists them and removes them one by one                            *)
(* (ProfileViewController), and the sheet with a user's details, which     *)
(* follows or unfollows that user (BuddyDetailsViewController).            *)
(*                                                                         *)
(* node is what the device's database client shows of the list, its own    *)
(* writes included.  A read is asked for, served by the client, which      *)
(* takes a snapshot, and handled when the main queue runs its block.  The  *)
(* sheet keeps the user it is about in a static variable; the observer it  *)
(* registers is never removed.                                             *)
(***************************************************************************)
EXTENDS ListNode

CONSTANTS
  Users,       \* ids of users
  Me,          \* the signed-in user
  Empty,       \* the empty string, stored where a list would vanish
  Unreadable,  \* users whose record User(snapshot:) refuses
  AtStart,     \* the list at the start
  MaxSheets,   \* bound: details sheets opened
  MaxPresses,  \* bound: presses of the sheet's button
  MaxRemovals, \* bound: buddies removed on the profile
  MaxAppears   \* bound: appearances of the profile

ASSUME IdsAssumption ==
  Me \in Users /\ Empty \notin Users /\ Unreadable \subseteq Users \ {Me}
ASSUME FiniteAssumption == IsFiniteSet(Users)
ASSUME StartAssumption ==
  /\ AtStart \in Seq(Users \cup {Empty}) /\ AtStart # <<>>
  /\ \A i, j \in DOMAIN AtStart : AtStart[i] = AtStart[j] => i = j
ASSUME BoundsAssumption ==
  /\ MaxSheets \in Nat /\ MaxPresses \in Nat
  /\ MaxRemovals \in Nat /\ MaxAppears \in Nat

VARIABLES
  node,     \* the user's list of buddies
  target,   \* BuddyDetailsViewController.user
  sheet,    \* a details sheet is open
  button,   \* its button: "follow", or "hidden" for good
  watched,  \* an observer of some sheet has had its first event
  told,     \* the last sheet's observer has had its first event
  follows,  \* reads of addBuddy not served, each with the user pressed for
  lists,    \* reads of fetchBuddies not served
  queue,    \* blocks on the main queue, with their snapshots
  rows,     \* ProfileViewController.buddies
  fetches,  \* user |-> reads of a buddy's record not answered
  listed,   \* history: the buddies last read for the profile, less the removed
  running,  \* the app has not trapped
  patient,  \* the user acts only when everything asked for has arrived
  budget    \* what is left of the bounds

sheetVars   == <<target, sheet, button, told>>
profileVars == <<rows, fetches, listed>>
buddyVars   == <<node, watched, follows, lists, queue, running,
                 patient, budget, sheetVars, profileVars>>

-----------------------------------------------------------------------------
\* Operators whose comment begins with "Mutant" are no part of the model: each
\* is what a plausible mistake would make of the definition that follows it.

Ids == Users \cup {Empty}

\* A block for the main queue with the list its snapshot holds; a follow also
\* remembers the user its press was about.
Block(kind, list, who) == [kind |-> kind, list |-> list, pressed |-> who]
Next1(kind) == running /\ queue # <<>> /\ Head(queue).kind = kind

Quiet ==
  /\ queue = <<>> /\ follows = <<>> /\ lists = 0
  /\ \A u \in Users : fetches[u] = 0
  /\ sheet => told

\* A step of the user, counted against bound b.
User(b) ==
  /\ running
  /\ patient => Quiet
  /\ budget[b] > 0
  /\ budget' = [budget EXCEPT ![b] = @ - 1]
  /\ UNCHANGED <<running, patient>>

\* Mutant: the newest sheet does not hear of a change.
SetNodeUnheard(n, blocks) == node' = n /\ queue' = blocks

\* A write shows at once, and the registered observers are told of a change,
\* behind the given blocks.
SetNode(n, blocks) ==
  /\ node' = n
  /\ queue' = IF n # node /\ watched
                THEN Append(blocks,
                            Block(IF told THEN "button" ELSE "old", n, Empty))
                ELSE blocks

-----------------------------------------------------------------------------
Init ==
  /\ node = AsNode(AtStart)
  /\ target = Empty /\ sheet = FALSE /\ button = "hidden" /\ told = FALSE
  /\ watched = FALSE /\ running = TRUE /\ patient \in BOOLEAN
  /\ follows = <<>> /\ lists = 0 /\ queue = <<>>
  /\ rows = <<>> /\ fetches = [u \in Users |-> 0] /\ listed = {}
  /\ budget = [sheets |-> MaxSheets, presses |-> MaxPresses,
               removals |-> MaxRemovals, appears |-> MaxAppears]

-----------------------------------------------------------------------------
(* The details sheet.                                                      *)

\* instantiate and viewDidLoad: the static user is replaced, for the sheets
\* closed before as well, and one more observer is registered.
OpenSheet(u) ==
  /\ ~sheet
  /\ User("sheets")
  /\ target' = u /\ sheet' = TRUE /\ button' = "follow" /\ told' = FALSE
  /\ queue' = [i \in DOMAIN queue |->
                 IF queue[i].kind = "button"
                   THEN [queue[i] EXCEPT !.kind = "old"] ELSE queue[i]]
  /\ UNCHANGED <<node, watched, follows, lists, profileVars>>

CloseSheet ==
  /\ sheet /\ running /\ (patient => Quiet)
  /\ sheet' = FALSE
  /\ UNCHANGED <<node, target, button, told, watched, follows, lists, queue,
                 running, patient, budget, profileVars>>

\* addBuddy: the user's record is read first.
Press ==
  /\ sheet /\ button = "follow"
  /\ User("presses")
  /\ follows' = Append(follows, target)
  /\ UNCHANGED <<node, sheetVars, watched, lists, queue, profileVars>>

ServeObserver ==
  /\ running /\ target # Empty /\ ~told
  /\ told' = TRUE /\ watched' = TRUE
  /\ queue' = Append(queue, Block("button", node, Empty))
  /\ UNCHANGED <<node, target, sheet, button, follows, lists, running, patient,
                 budget,
                 profileVars>>

ServeFollow ==
  /\ running /\ follows # <<>>
  /\ follows' = Tail(follows)
  /\ queue' = Append(queue, Block("follow", node, Head(follows)))
  /\ UNCHANGED <<node, sheetVars, watched, lists, running, patient, budget,
                 profileVars>>

\* The observer hides the button and never shows it again.
ButtonAfter(list) ==
  IF target = Me \/ InSeq(target, list) THEN "hidden" ELSE button

\* Mutants: the list may become empty; the user is appended unseen; the list
\* is replaced.
ToggledBare(list) ==
  IF InSeq(target, list) THEN Without(list, target) ELSE Append(list, target)
Appended(list) == Append(list, target)
Replaced(list) == <<target>>

\* What addBuddy writes back: the user of the static variable is taken off
\* the list or added to it; an empty list would vanish from the database.
Toggled(list) ==
  IF ~InSeq(target, list) THEN Append(list, target)
  ELSE IF Without(list, target) = <<>> THEN <<Empty>>
  ELSE Without(list, target)

\* The sheet's blocks unwrap the user's own record, which may not parse; the
\* profile's asks for the child with each buddy's id, and child("") throws.
Traps(block) ==
  IF block.kind = "list" THEN Empty \in Stored(block.list)
  ELSE ~CastsToStrings(block.list)

\* Either ends the app.
Trap ==
  /\ running /\ queue # <<>> /\ Traps(Head(queue))
  /\ running' = FALSE
  /\ UNCHANGED <<node, sheetVars, watched, follows, lists, queue, patient,
                 budget, profileVars>>

\* The observer's block; that of a sheet which is gone sets a button nobody sees.
HandleObserver ==
  /\ Next1("button") \/ Next1("old")
  /\ ~Traps(Head(queue))
  /\ button' = IF Next1("button") THEN ButtonAfter(Children(Head(queue).list))
               ELSE button
  /\ queue' = Tail(queue)
  /\ UNCHANGED <<node, target, sheet, told, watched, follows, lists, running,
                 patient,
                 budget, profileVars>>

\* addBuddy's block: read, change, write back.
HandleFollow ==
  /\ Next1("follow") /\ ~Traps(Head(queue))
  /\ SetNode(AsNode(Toggled(Children(Head(queue).list))), Tail(queue))
  /\ UNCHANGED <<sheetVars, watched, follows, lists, running, patient, budget,
                 profileVars>>

-----------------------------------------------------------------------------
(* The profile.                                                            *)

\* Mutant: the rows stay.
AppearKeeping ==
  /\ ~sheet
  /\ User("appears")
  /\ lists' = lists + 1
  /\ UNCHANGED <<node, sheetVars, watched, follows, queue, profileVars>>

\* viewWillAppear: the rows are emptied and the list is read.
Appear ==
  /\ ~sheet
  /\ User("appears")
  /\ rows' = <<>>
  /\ lists' = lists + 1
  /\ UNCHANGED <<node, sheetVars, watched, follows, queue, fetches, listed>>

ServeList ==
  /\ running /\ lists > 0
  /\ lists' = lists - 1
  /\ queue' = Append(queue, Block("list", node, Empty))
  /\ UNCHANGED <<node, sheetVars, watched, follows, running, patient, budget,
                 profileVars>>

\* Each buddy's record is read.
HandleList ==
  /\ Next1("list") /\ ~Traps(Head(queue))
  /\ queue' = Tail(queue)
  /\ listed' = Stored(Head(queue).list)
  /\ fetches' = [u \in Users |-> fetches[u] + IF u \in listed' THEN 1 ELSE 0]
  /\ UNCHANGED <<node, sheetVars, watched, follows, lists, rows, running,
                 patient, budget>>

\* Mutant: a read's block runs again.
AnswerAgain(u) ==
  /\ running /\ \E v \in Users : fetches[v] > 0
  /\ fetches' = [fetches EXCEPT ![u] = @ - 1]
  /\ rows' = IF u \in Unreadable THEN rows ELSE Append(rows, u)
  /\ UNCHANGED <<node, sheetVars, watched, follows, lists, queue, listed,
                 running, patient, budget>>

\* addBuddy(buddy:) of the profile, if the record parses.
Answer(u) ==
  /\ running /\ fetches[u] > 0
  /\ fetches' = [fetches EXCEPT ![u] = @ - 1]
  /\ rows' = IF u \in Unreadable THEN rows ELSE Append(rows, u)
  /\ UNCHANGED <<node, sheetVars, watched, follows, lists, queue, listed,
                 running, patient, budget>>

\* Removing the buddy of row i: the first row with that buddy goes, and the
\* child of the database with that row's index, whoever is stored there.
Remove(i) ==
  /\ ~sheet
  /\ User("removals")
  /\ LET index == First(rows, rows[i])
     IN  /\ rows' = Drop(rows, index)
         /\ SetNode(WithoutChild(node, index - 1), queue)
  /\ listed' = listed \ {rows[i]}
  /\ UNCHANGED <<sheetVars, watched, follows, lists, fetches>>

-----------------------------------------------------------------------------
Next ==
  \/ \E u \in Users \ Unreadable : OpenSheet(u)
  \/ CloseSheet
  \/ Press
  \/ ServeObserver
  \/ ServeFollow
  \/ Trap
  \/ HandleObserver
  \/ HandleFollow
  \/ Appear
  \/ ServeList
  \/ HandleList
  \/ \E u \in Users : Answer(u)
  \/ \E i \in DOMAIN rows : Remove(i)

Spec == Init /\ [][Next]_buddyVars

-----------------------------------------------------------------------------
(* Properties.                                                             *)

IsNode(n) ==
  DOMAIN n \subseteq 0..Cardinality(Users) /\ \A k \in DOMAIN n : n[k] \in Ids

\* Type invariant.
TypeOK ==
  /\ IsNode(node)
  /\ target \in Ids /\ (sheet => target \in Users)
  /\ sheet \in BOOLEAN /\ button \in {"follow", "hidden"}
  /\ watched \in BOOLEAN /\ told \in BOOLEAN /\ running \in BOOLEAN
  /\ follows \in Seq(Users) /\ lists \in Nat
  /\ \A i \in DOMAIN queue : IsNode(queue[i].list)
  /\ rows \in Seq(Users \ Unreadable)
  /\ fetches \in [Users -> Nat]
  /\ listed \subseteq Users
  /\ budget \in [{"sheets", "presses", "removals", "appears"} -> Nat]

\* Nobody is followed twice, whatever stale list a press writes back
\* (addBuddy, BuddyDetailsViewController.swift:65-86).
NobodyTwice ==
  \A j, k \in DOMAIN node : node[j] = node[k] => j = k

\* As long as nobody was removed on the profile, the user's record parses for
\* every sheet, which is what addBuddy stores the empty id for, and that id is
\* all that ever ends the app: on the profile, which asks for its child
\* (BuddyDetailsViewController.swift:74-76, ProfileViewController.swift:67).
\* A patient user never gets it, the button being hidden for a buddy.
OnlyEmptyIdTraps ==
  budget.removals = MaxRemovals =>
    /\ CastsToStrings(node)
    /\ running \/ (Head(queue).kind = "list" /\ Empty \in Stored(Head(queue).list))
    /\ patient /\ ~InSeq(Empty, AtStart) => running /\ Empty \notin Stored(node)

\* Once everything has arrived there is no button to follow a buddy, or
\* oneself, a second time; a patient user has it for everybody else, although
\* the observer never shows it again (BuddyDetailsViewController.swift:37-54).
ButtonTellsFollowing ==
  running /\ Quiet /\ sheet =>
    /\ target = Me \/ target \in Stored(node) => button = "hidden"
    /\ patient /\ button = "hidden" => target = Me \/ target \in Stored(node)

\* For a patient user a press follows the user of the sheet it was made on and
\* changes nothing else; the static user of line 82 is still the same then.
PressFollows ==
  [][patient /\ HandleFollow =>
       Stored(node') \ {Empty} =
         (Stored(node) \ {Empty}) \cup {Head(queue).pressed}]_buddyVars

\* Once everything has arrived, and unless the app trapped over the list, each
\* buddy read for the profile that parses and was not removed there is in a row;
\* for a patient user these are all the rows, one for each (fetchBuddies,
\* ProfileViewController.swift:61-86).
BuddiesShown ==
  running /\ Quiet =>
    /\ \A u \in listed \ Unreadable : InSeq(u, rows)
    /\ patient =>
         /\ \A i \in DOMAIN rows : rows[i] \in listed
         /\ \A i, j \in DOMAIN rows : rows[i] = rows[j] => i = j

\* What addBuddy and the observer take for granted, User(snapshot: snapshot)!
\* (BuddyDetailsViewController.swift:68, 35-36): the user's own record parses.
\* A buddy removed on the profile leaves a hole, and the next block traps.
OwnRecordParses == running
=============================================================================
