---------------------------- MODULE RosterFetch ----------------------------
(***************************************************************************)
(* The pictures of the participants on the details screen of a session     *)
(* (SessionDetailsViewController.fetchUsers).  Every event of the session  *)
(* empties the array of users and reads each participant's record; every   *)
(* answer that parses adds a user.  Answers come one by one, in no order   *)
(* the client promises for different paths, and also after a later event   *)
(* has emptied the array again.                                            *)
(*                                                                         *)
(* The session's participants are taken from SessionMembership: a set that *)
(* always has the host in it, every value of it reaching the screen in     *)
(* order unless it is replaced before it is raised.                        *)
(***************************************************************************)
EXTENDS Naturals, Sequences

CONSTANTS
  Users,       \* the users of the app
  Host,        \* the host of the session
  Unreadable,  \* users whose record User(snapshot:) refuses
  MaxChanges,  \* bound: how often somebody joins or leaves
  MaxQueue     \* bound: session events waiting on the main queue

ASSUME HostAssumption == Host \in Users
ASSUME UnreadableAssumption == Unreadable \subseteq Users
ASSUME BoundsAssumption == MaxChanges \in Nat /\ MaxQueue \in Nat

VARIABLES
  node,     \* the participants on the server
  told,     \* the participants of the last event raised; {} before the first
  queue,    \* session events waiting on the main queue
  going,    \* currentSession.participants, after the last event handled
  asked,    \* user |-> reads of the user's record not answered yet
  roster,   \* user |-> how often the user is in the array participants
  cells,    \* the array when the collection view was last reloaded
  overlap,  \* history: asked, when the array was last emptied
  changes   \* joins and leaves left

rosterVars ==
  <<node, told, queue, going, asked, roster, cells, overlap, changes>>

-----------------------------------------------------------------------------
\* Operators whose comment begins with "Mutant" are no part of the model: each
\* is what a plausible mistake would make of the definition that follows it.

Lists    == {s \in SUBSET Users : Host \in s}
Counts   == [Users -> Nat]
Nobody   == [u \in Users |-> 0]
Readable == Users \ Unreadable

One(u, s) == IF u \in s THEN 1 ELSE 0

Init ==
  /\ node \in Lists
  /\ told = {}
  /\ queue = <<>>
  /\ going = {}
  /\ asked = Nobody
  /\ roster = Nobody
  /\ cells = Nobody
  /\ overlap = Nobody
  /\ changes = MaxChanges

\* Mutant: the host leaves, too.
ChangeAnyone ==
  /\ changes > 0
  /\ changes' = changes - 1
  /\ \E u \in Users :
       node' = IF u \in node THEN node \ {u} ELSE node \cup {u}
  /\ UNCHANGED <<told, queue, going, asked, roster, cells, overlap>>

\* Somebody other than the host joins or leaves, on this device or another.
Change ==
  /\ changes > 0
  /\ changes' = changes - 1
  /\ \E u \in Users \ {Host} :
       node' = IF u \in node THEN node \ {u} ELSE node \cup {u}
  /\ UNCHANGED <<told, queue, going, asked, roster, cells, overlap>>

\* The database client raises the session's value on the main queue.
Notify ==
  /\ told # node
  /\ Len(queue) < MaxQueue
  /\ told' = node
  /\ queue' = Append(queue, node)
  /\ UNCHANGED <<node, going, asked, roster, cells, overlap, changes>>

\* Mutants: records read already are not read again; a read that is open serves
\* a second event.
ReadNewcomers(s) ==
  /\ asked' = [u \in Users |-> asked[u] + One(u, s \ going)]
  /\ roster' = Nobody
ReadOnce(s) ==
  /\ asked' = [u \in Users |-> IF u \in s THEN 1 ELSE asked[u]]
  /\ roster' = Nobody

\* The array is emptied, and each participant's record is read once more.
ReadAll(s) ==
  /\ asked' = [u \in Users |-> asked[u] + One(u, s)]
  /\ roster' = Nobody

\* The observer's block; it does not reload the collection view.
HandleSession ==
  /\ queue # <<>>
  /\ queue' = Tail(queue)
  /\ going' = Head(queue)
  /\ ReadAll(Head(queue))
  /\ overlap' = asked
  /\ UNCHANGED <<node, told, cells, changes>>

\* Mutant: the collection view is not reloaded.
AddQuietly(u) ==
  /\ roster' = [roster EXCEPT ![u] = @ + One(u, Readable)]
  /\ UNCHANGED cells

\* A record that parses is appended and shown.
AddParticipant(u) ==
  /\ roster' = [roster EXCEPT ![u] = @ + One(u, Readable)]
  /\ cells' = IF u \in Readable THEN roster' ELSE cells

\* The block of one read runs.
Answer(u) ==
  /\ asked[u] > 0
  /\ asked' = [asked EXCEPT ![u] = @ - 1]
  /\ AddParticipant(u)
  /\ UNCHANGED <<node, told, queue, going, overlap, changes>>

Next ==
  \/ Change
  \/ Notify
  \/ HandleSession
  \/ \E u \in Users : Answer(u)

Spec == Init /\ [][Next]_rosterVars

\* The client raises what changed, the main queue runs what is queued, and
\* reads are answered.
Fairness ==
  /\ WF_rosterVars(Notify)
  /\ WF_rosterVars(HandleSession)
  /\ \A u \in Users : WF_rosterVars(Answer(u))

FairSpec == Spec /\ Fairness

-----------------------------------------------------------------------------
(* Properties.                                                             *)

\* Type invariant.
TypeOK ==
  /\ node \in Lists
  /\ told \in SUBSET Users
  /\ queue \in Seq(Lists)
  /\ going \in SUBSET Users
  /\ asked \in Counts
  /\ roster \in Counts
  /\ cells \in Counts
  /\ overlap \in Counts
  /\ changes \in Nat

\* No read is lost or counted twice: a user who can be read is in the array, or
\* will be once the reads are answered, once for the last event handled and
\* once for every read that was open when it emptied the array
\* (fetchUsers, SessionDetailsViewController.swift:73-81).
Accounted ==
  \A u \in Readable : roster[u] + asked[u] = overlap[u] + One(u, going)

Answered == \A u \in Users : asked[u] = 0

\* Nobody is missing: when all reads are answered each participant who can be
\* read has a picture, however the reads of several events overlapped.
EveryoneShown ==
  Answered => \A u \in going \ Unreadable : roster[u] >= 1

\* Who is not among the participants is shown only by a read that an earlier
\* event left open; when none was open, each participant has exactly one
\* picture and nobody else has any.  Without that condition it fails: what the
\* comment on the observer says, "Update when someone has join or leave" (line
\* 68), is broken when two events overlap.
ExactWithoutOverlap ==
  Answered /\ overlap = Nobody =>
    \A u \in Readable : roster[u] = One(u, going)

\* The cells are those of an older array only until the host's record is read,
\* so a tap looks up a row that exists at the latest from then on
\* (didSelectItemAt, SessionDetailsViewController.swift:150), provided the
\* host's record parses.
CellsCatchUp ==
  Host \in Readable /\ cells # roster => asked[Host] > 0

\* Once nobody joins or leaves any more, all participants who can be read are
\* shown for good.
RosterFills ==
  <>[](\A u \in node \ Unreadable : roster[u] >= 1)
=============================================================================
