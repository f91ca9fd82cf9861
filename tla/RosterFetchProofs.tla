------------------------- MODULE RosterFetchProofs -------------------------
(* The invariants of RosterFetch for any users and bounds.                 *)
EXTENDS RosterFetch, SequenceTheorems, TLAPS

USE DEF One, Readable, Nobody, Counts

\* The initial state is well typed.
LEMMA InitTypes == Init => TypeOK
BY HostAssumption, BoundsAssumption DEF Init, TypeOK, Lists

\* Every step keeps the types.
LEMMA NextTypes == TypeOK /\ [Next]_rosterVars => TypeOK'
<1> SUFFICES ASSUME TypeOK, [Next]_rosterVars PROVE TypeOK'
  OBVIOUS
<1>1. CASE Change
  BY <1>1, HostAssumption DEF Change, TypeOK, Lists
<1>2. CASE Notify
  BY <1>2 DEF Notify, TypeOK, Lists
<1>3. CASE HandleSession
  <2>1. Head(queue) \in Lists /\ Tail(queue) \in Seq(Lists)
    BY <1>3 DEF HandleSession, TypeOK
  <2>2. asked' \in Counts /\ roster' \in Counts
    BY <1>3 DEF HandleSession, ReadAll, TypeOK
  <2> QED
    BY <1>3, <2>1, <2>2 DEF HandleSession, TypeOK, Lists
<1>4. ASSUME NEW u \in Users, Answer(u) PROVE TypeOK'
  <2>1. asked' \in Counts /\ roster' \in Counts
    BY <1>4 DEF Answer, AddParticipant, TypeOK
  <2> QED
    BY <1>4, <2>1 DEF Answer, AddParticipant, TypeOK
<1>5. CASE UNCHANGED rosterVars
  BY <1>5 DEF rosterVars, TypeOK
<1> QED
  BY <1>1, <1>2, <1>3, <1>4, <1>5 DEF Next

\* Type correctness of the details screen's participants.
THEOREM TypeCorrect == Spec => []TypeOK
BY InitTypes, NextTypes, PTL DEF Spec

\* Reads are accounted for: initially, and after every step.
LEMMA NextAccounted ==
  TypeOK /\ Accounted /\ [Next]_rosterVars => Accounted'
<1> SUFFICES ASSUME TypeOK, Accounted, [Next]_rosterVars,
                    NEW v \in Readable
             PROVE  roster'[v] + asked'[v] = overlap'[v] + One(v, going')
  BY DEF Accounted
<1>0. /\ asked[v] \in Nat /\ roster[v] \in Nat /\ overlap[v] \in Nat
      /\ roster[v] + asked[v] = overlap[v] + One(v, going)
  BY DEF TypeOK, Accounted
<1>1. CASE Change
  BY <1>0, <1>1 DEF Change
<1>2. CASE Notify
  BY <1>0, <1>2 DEF Notify
<1>3. CASE HandleSession
  BY <1>0, <1>3 DEF HandleSession, ReadAll
<1>4. ASSUME NEW u \in Users, Answer(u)
      PROVE  roster'[v] + asked'[v] = overlap'[v] + One(v, going')
  <2>1. CASE u = v
    <3>1. asked'[v] = asked[v] - 1 /\ roster'[v] = roster[v] + 1
      BY <1>4, <2>1 DEF Answer, AddParticipant, TypeOK
    <3> QED
      BY <1>0, <1>4, <3>1 DEF Answer
  <2>2. CASE u # v
    BY <1>0, <1>4, <2>2 DEF Answer, AddParticipant, TypeOK
  <2> QED
    BY <2>1, <2>2
<1>5. CASE UNCHANGED rosterVars
  BY <1>0, <1>5 DEF rosterVars
<1> QED
  BY <1>1, <1>2, <1>3, <1>4, <1>5 DEF Next

\* Every read shows up exactly once: as an open read or as a picture.
THEOREM ReadsAccounted == Spec => []Accounted
<1>1. Init => Accounted
  BY DEF Init, Accounted
<1> QED
  BY <1>1, TypeCorrect, NextAccounted, PTL DEF Spec

\* When all is answered, nobody who takes part is missing.
THEOREM NobodyMissing == Spec => []EveryoneShown
<1>1. ASSUME TypeOK, Accounted, Answered, NEW u \in going \ Unreadable
      PROVE  roster[u] >= 1
  <2>1. u \in Readable /\ asked[u] = 0 /\ roster[u] \in Nat /\ overlap[u] \in Nat
    BY <1>1 DEF TypeOK, Answered
  <2> QED
    BY <1>1, <2>1 DEF Accounted
<1>2. TypeOK /\ Accounted => EveryoneShown
  BY <1>1 DEF EveryoneShown
<1> QED
  BY <1>2, TypeCorrect, ReadsAccounted, PTL

\* Without an overlap the pictures are exactly those of the participants.
THEOREM ExactUnlessOverlapping == Spec => []ExactWithoutOverlap
<1>1. ASSUME TypeOK, Accounted, Answered, overlap = Nobody, NEW u \in Readable
      PROVE  roster[u] = One(u, going)
  <2>1. asked[u] = 0 /\ roster[u] \in Nat /\ overlap[u] = 0
    BY <1>1 DEF TypeOK, Answered
  <2> QED
    BY <1>1, <2>1 DEF Accounted
<1>2. TypeOK /\ Accounted => ExactWithoutOverlap
  BY <1>1 DEF ExactWithoutOverlap
<1> QED
  BY <1>2, TypeCorrect, ReadsAccounted, PTL

\* Stale cells are gone once the host's record is read.
LEMMA NextCells ==
  TypeOK /\ CellsCatchUp /\ [Next]_rosterVars => CellsCatchUp'
<1> SUFFICES ASSUME TypeOK, CellsCatchUp, [Next]_rosterVars,
                    Host \in Readable, cells' # roster'
             PROVE  asked'[Host] > 0
  BY DEF CellsCatchUp
<1>1. CASE Change
  BY <1>1 DEF Change, CellsCatchUp
<1>2. CASE Notify
  BY <1>2 DEF Notify, CellsCatchUp
<1>3. CASE HandleSession
  <2>1. Host \in Head(queue)
    BY <1>3 DEF HandleSession, TypeOK, Lists
  <2> QED
    BY <1>3, <2>1, HostAssumption DEF HandleSession, ReadAll, TypeOK
<1>4. ASSUME NEW u \in Users, Answer(u) PROVE asked'[Host] > 0
  <2>1. u \notin Readable
    BY <1>4 DEF Answer, AddParticipant
  <2>2. roster' = roster /\ cells' = cells
    BY <1>4, <2>1 DEF Answer, AddParticipant, TypeOK
  <2> QED
    BY <1>4, <2>1, <2>2 DEF Answer, CellsCatchUp, TypeOK
<1>5. CASE UNCHANGED rosterVars
  BY <1>5 DEF rosterVars, CellsCatchUp
<1> QED
  BY <1>1, <1>2, <1>3, <1>4, <1>5 DEF Next

\* A tap can miss its row only between an event and the host's record.
THEOREM CellsCatchUpAlways == Spec => []CellsCatchUp
<1>1. Init => CellsCatchUp
  BY DEF Init, CellsCatchUp
<1> QED
  BY <1>1, TypeCorrect, NextCells, PTL DEF Spec

\* The screen has the last event raised once the queue is worked off.
NewestKnown ==
  IF queue = <<>> THEN going = told ELSE queue[Len(queue)] = told

LEMMA NextNewest ==
  TypeOK /\ NewestKnown /\ [Next]_rosterVars => NewestKnown'
<1> SUFFICES ASSUME TypeOK, NewestKnown, [Next]_rosterVars
             PROVE  NewestKnown'
  OBVIOUS
<1>1. CASE UNCHANGED <<queue, going, told>>
  BY <1>1 DEF NewestKnown
<1>2. CASE Notify
  BY <1>2 DEF Notify, NewestKnown, TypeOK
<1>3. CASE HandleSession
  <2>1. queue # <<>> /\ queue' = Tail(queue) /\ going' = Head(queue)
        /\ told' = told /\ queue[Len(queue)] = told /\ queue \in Seq(Lists)
    BY <1>3 DEF HandleSession, NewestKnown, TypeOK
  <2>2. CASE Len(queue) = 1
    BY <2>1, <2>2 DEF NewestKnown
  <2>3. CASE Len(queue) # 1
    <3>1. /\ Tail(queue) \in Seq(Lists) /\ Len(Tail(queue)) = Len(queue) - 1
          /\ \A i \in 1..Len(Tail(queue)) : Tail(queue)[i] = queue[i+1]
      BY <2>1, HeadTailProperties
    <3>2. Len(queue) \in Nat \ {0, 1}
      BY <2>1, <2>3, LenProperties, EmptySeq
    <3>3. Len(queue) - 1 \in 1..Len(Tail(queue)) /\ (Len(queue) - 1) + 1 = Len(queue)
      BY <3>1, <3>2
    <3>4. Tail(queue)[Len(Tail(queue))] = queue[Len(queue)]
      BY <3>1, <3>3
    <3>5. Tail(queue) # <<>>
      <4>1. Len(Tail(queue)) # 0
        BY <3>1, <3>2
      <4> QED
        BY <3>1, <4>1, EmptySeq
    <3> QED
      BY <2>1, <3>4, <3>5 DEF NewestKnown
  <2> QED
    BY <2>2, <2>3
<1> QED
  BY <1>1, <1>2, <1>3 DEF Next, Change, Answer, rosterVars

\* What the screen comes to rest with: when the client has raised what the
\* server has, the queue is worked off and the reads are answered, every
\* participant on the server who can be read has a picture, in the array and in
\* the collection view.
FullAtRest ==
  told = node /\ queue = <<>> /\ Answered
    => \A u \in node \ Unreadable :
         roster[u] >= 1 /\ (Host \in Readable => cells[u] >= 1)

\* The state without a fair step left is the one RosterFills asks for, whatever
\* events and answers overlapped on the way to it.
THEOREM RosterFullAtRest == Spec => []FullAtRest
<1>1. Init => NewestKnown
  BY DEF Init, NewestKnown
<1>2. TypeOK /\ NewestKnown /\ EveryoneShown /\ CellsCatchUp => FullAtRest
  <2> SUFFICES ASSUME TypeOK, NewestKnown, EveryoneShown, CellsCatchUp,
                      told = node, queue = <<>>, Answered,
                      NEW u \in node \ Unreadable
               PROVE  roster[u] >= 1 /\ (Host \in Readable => cells[u] >= 1)
    BY DEF FullAtRest
  <2>1. roster[u] >= 1
    BY DEF NewestKnown, EveryoneShown
  <2>2. asked[Host] = 0
    BY HostAssumption DEF Answered
  <2>3. Host \in Readable => cells = roster
    BY <2>2 DEF CellsCatchUp
  <2> QED
    BY <2>1, <2>3
<1> QED
  BY <1>1, <1>2, NextNewest, TypeCorrect, NobodyMissing, CellsCatchUpAlways, PTL
  DEF Spec
=============================================================================
