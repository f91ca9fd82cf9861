------------------------- MODULE SearchWizardProofs -------------------------
(* The invariants of SearchWizard for any sports and bounds.               *)
EXTENDS SearchWizard, TLAPS

Bounds == [{"opens", "events", "starts"} -> Nat]

\* An object nobody has filled in is one of the preferences.
LEMMA NothingIsPrefs == Nothing \in Prefs /\ 0 \in Pages
BY DEF Nothing, Prefs, Pages

\* Spending keeps the bounds natural.
LEMMA SpendTypes ==
  ASSUME NEW b \in {"opens", "events", "starts"}, budget \in Bounds, Spend(b)
  PROVE  budget' \in Bounds
BY DEF Spend, Bounds

\* A user is of one kind for good.
LEMMA SameUser == [Next]_vars => hasty' = hasty
<1> SUFFICES ASSUME [Next]_vars PROVE hasty' = hasty
  OBVIOUS
<1>1. ASSUME NEW prefs, Fill(prefs) PROVE hasty' = hasty
  BY <1>1 DEF Fill, Trap
<1>2. CASE (\E s \in Sports : PickSport(s)) \/ Asap \/ Confirm
  BY <1>1, <1>2 DEF PickSport, Asap, Confirm
<1>3. CASE HandleSessions \/ PickSkill
  BY <1>3 DEF HandleSessions, PickSkill, Posted, Trap
<1>4. CASE ClearFilters \/ ShowPopup \/ \E end \in {"start", "end"} : SetDate(end)
  BY <1>4 DEF ClearFilters, ShowPopup, SetDate, Trap
<1>5. CASE ClosePopup \/ Settle \/ Reset \/ Restart \/ UNCHANGED vars
  BY <1>5 DEF ClosePopup, Settle, Reset, Restart, vars
<1> QED
  BY <1>2, <1>3, <1>4, <1>5 DEF Next

\* The initial state is well typed.
LEMMA InitTypes == Init => TypeOK
<1> SUFFICES ASSUME Init PROVE TypeOK
  OBVIOUS
<1>1. budget \in Bounds
  BY BoundsAssumption DEF Init, Bounds
<1>2. draft \in Prefs /\ page \in Pages /\ resets \in Nat
  BY NothingIsPrefs DEF Init
<1>3. /\ popup \in BOOLEAN /\ clear \in BOOLEAN /\ loaded \in BOOLEAN
      /\ turning \in Pages \cup {None} /\ dates \subseteq {"start", "end"}
      /\ life \in {"fresh", "stored", "deleted"}
      /\ filter \in {None, "stored", "deleted"}
      /\ trap \in {None, "managed", "page", "sport", "date"} /\ hasty \in BOOLEAN
      /\ stored \in Prefs \cup {None}
      /\ categories \subseteq Sports /\ shown \subseteq Sports
  BY DEF Init
<1> QED
  BY <1>1, <1>2, <1>3 DEF TypeOK, Bounds

\* A page that writes the preferences keeps the types.
LEMMA FillTypes ==
  ASSUME TypeOK, hasty' = hasty, NEW prefs \in Prefs, Fill(prefs)
  PROVE  TypeOK'
<1>1. CASE life # "fresh"
  BY <1>1 DEF Fill, Trap, TypeOK, wizardVars, listVars
<1>2. CASE life = "fresh" /\ page + 1 \notin Pages
  BY <1>2 DEF Fill, Trap, TypeOK, wizardVars, listVars
<1>3. CASE life = "fresh" /\ page + 1 \in Pages
  BY <1>3 DEF Fill, GoForward, TypeOK, listVars
<1> QED
  BY <1>1, <1>2, <1>3

\* So does a choice on the last page.
LEMMA PickSkillTypes ==
  ASSUME TypeOK, hasty' = hasty, PickSkill PROVE TypeOK'
<1>1. CASE Trap("managed")
  BY <1>1 DEF Trap, TypeOK, wizardVars, listVars
<1>2. CASE ~Trap("managed")
  <2>1. /\ stored' = draft /\ life' = "stored" /\ Posted
        /\ UNCHANGED <<page, dates, draft, categories, loaded, budget>>
    BY <1>2 DEF PickSkill
  <2>2. /\ shown' \subseteq Sports /\ filter' \in {None, "stored", "deleted"}
    BY <2>1 DEF Posted, Filter, Matching, TypeOK
  <2>3. page' \in Pages /\ turning' \in Pages \cup {None}
    BY <2>1, Zenon DEF Posted, TypeOK
  <2>4. stored' \in Prefs \cup {None} /\ popup' \in BOOLEAN /\ clear' \in BOOLEAN
    BY <2>1, Zenon DEF Posted, Filter, TypeOK
  <2>5. resets' \in Nat
    BY <2>1 DEF Posted, TypeOK
  <2>6. life' \in {"fresh", "stored", "deleted"}
    BY <2>1
  <2>7. trap' \in {None, "managed", "page", "sport", "date"}
    BY <2>1, Zenon DEF Posted, TypeOK
  <2> QED
    BY <2>1, <2>2, <2>3, <2>4, <2>5, <2>6, <2>7 DEF TypeOK
<1> QED
  BY <1>1, <1>2

\* Every step keeps the types.
LEMMA NextTypes == TypeOK /\ [Next]_vars => TypeOK'
<1> SUFFICES ASSUME TypeOK, [Next]_vars PROVE TypeOK'
  OBVIOUS
<1>0. hasty' = hasty /\ hasty' \in BOOLEAN
  BY SameUser DEF TypeOK
<1> USE <1>0
<1>1. CASE HandleSessions
  <2>1. CASE Trap("sport")
    BY <2>1 DEF Trap, TypeOK, wizardVars, listVars
  <2>2. CASE ~Trap("sport")
    <3>1. /\ Spend("events") /\ loaded' /\ categories' \subseteq Sports
          /\ ListStored(categories')
          /\ UNCHANGED <<popup, wizardVars, stored, trap>>
      BY <1>1, <2>2 DEF HandleSessions
    <3>2. loaded' \in BOOLEAN
      BY <1>1, <2>2 DEF HandleSessions
    <3>3. /\ shown' \subseteq Sports /\ clear' \in BOOLEAN
          /\ filter' \in {None, "stored", "deleted"}
      BY <3>1 DEF ListStored, Filter, Matching, TypeOK
    <3> QED
      BY <3>1, <3>2, <3>3, SpendTypes DEF TypeOK, wizardVars, Bounds
  <2> QED
    BY <2>1, <2>2
<1>2. CASE ClearFilters
  BY <1>2 DEF ClearFilters, TypeOK
<1>3. CASE ShowPopup
  BY <1>3, SpendTypes DEF ShowPopup, TypeOK, wizardVars, listVars, Bounds
<1>4. ASSUME NEW s \in Sports, PickSport(s) PROVE TypeOK'
  <2>1. [draft EXCEPT !.sport = s] \in Prefs
    BY DEF TypeOK, Prefs
  <2> QED
    BY <1>4, <2>1, FillTypes DEF PickSport
<1>5. ASSUME NEW end \in {"start", "end"}, SetDate(end) PROVE TypeOK'
  <2>1. CASE Trap("date")
    BY <2>1 DEF Trap, TypeOK, wizardVars, listVars
  <2>2. CASE ~Trap("date")
    BY <1>5, <2>2 DEF SetDate, TypeOK, listVars
  <2> QED
    BY <2>1, <2>2
<1>6. CASE Asap
  <2>1. [draft EXCEPT !.time = "ASAP"] \in Prefs
    BY DEF TypeOK, Prefs
  <2> QED
    BY <1>6, <2>1, FillTypes DEF Asap
<1>7. CASE Confirm
  <2>1. [draft EXCEPT !.time = "Interval", !.dated = TRUE] \in Prefs
    BY DEF TypeOK, Prefs
  <2> QED
    BY <1>7, <2>1, FillTypes DEF Confirm
<1>8. CASE PickSkill
  BY <1>8, PickSkillTypes
<1>9. CASE ClosePopup
  <2>1. turning' \in Pages \cup {None}
    BY <1>9, Zenon DEF ClosePopup, TypeOK
  <2>2. resets' \in Nat
    BY <1>9 DEF ClosePopup, TypeOK
  <2> QED
    BY <1>9, <2>1, <2>2, Zenon DEF ClosePopup, TypeOK, listVars
<1>10. CASE Settle
  BY <1>10 DEF Settle, TypeOK, listVars
<1>11. CASE Reset
  BY <1>11, NothingIsPrefs DEF Reset, TypeOK, listVars
<1>12. CASE Restart
  <2>1. budget' \in Bounds
    BY <1>12, SpendTypes DEF Restart, TypeOK, Bounds
  <2>2. draft' \in Prefs /\ page' \in Pages /\ resets' \in Nat
    BY <1>12, NothingIsPrefs DEF Restart
  <2>3. /\ popup' \in BOOLEAN /\ clear' \in BOOLEAN /\ loaded' \in BOOLEAN
        /\ turning' \in Pages \cup {None} /\ dates' \subseteq {"start", "end"}
        /\ life' \in {"fresh", "stored", "deleted"}
        /\ filter' \in {None, "stored", "deleted"}
        /\ trap' \in {None, "managed", "page", "sport", "date"}
        /\ stored' \in Prefs \cup {None}
        /\ categories' \subseteq Sports /\ shown' \subseteq Sports
    BY <1>12 DEF Restart, TypeOK
  <2> QED
    BY <2>1, <2>2, <2>3 DEF TypeOK, Bounds
<1>13. CASE UNCHANGED vars
  BY <1>13 DEF vars, wizardVars, listVars, TypeOK
<1> QED
  BY <1>1, <1>2, <1>3, <1>4, <1>5, <1>6, <1>7, <1>8, <1>9, <1>10, <1>11, <1>12,
     <1>13 DEF Next

\* Type correctness of the wizard and the list.
THEOREM TypeCorrect == Spec => []TypeOK
BY InitTypes, NextTypes, PTL DEF Spec

\* Stored preferences are complete because those being filled in are, on every
\* page that still takes a touch.
CompleteInv ==
  /\ StoredIsComplete
  /\ draft.time = "Interval" => draft.dated
  /\ page > 0 \/ turning \in {1, 2} => draft.sport # None

\* A page but the first is filled in after the first one was.
LEMMA TouchHasSport ==
  ASSUME CompleteInv, NEW p \in {1, 2}, Touch(p) PROVE draft.sport # None
BY DEF CompleteInv, Touch

\* Pages keep what they fill in complete, and only that is stored.
LEMMA NextComplete == TypeOK /\ CompleteInv /\ [Next]_vars => CompleteInv'
<1> SUFFICES ASSUME TypeOK, CompleteInv, [Next]_vars PROVE CompleteInv'
  OBVIOUS
<1> USE DEF CompleteInv, StoredIsComplete
<1>0. page \in 0..2 /\ turning \in (0..2) \cup {None} /\ draft \in Prefs
  BY DEF TypeOK, Pages
<1>1. ASSUME NEW prefs \in Prefs, Fill(prefs), prefs.sport # None,
             prefs.time = "Interval" => prefs.dated
      PROVE  CompleteInv'
  BY <1>1 DEF Fill, GoForward, Trap, wizardVars, listVars
<1>2. CASE \E s \in Sports : PickSport(s)
  <2> PICK s \in Sports : PickSport(s)
    BY <1>2
  <2> DEFINE prefs == [draft EXCEPT !.sport = s]
  <2>1. /\ prefs \in Prefs /\ prefs.sport # None
        /\ prefs.time = draft.time /\ prefs.dated = draft.dated
    BY SportsAssumption DEF TypeOK, Prefs
  <2> QED
    BY <1>1, <2>1 DEF PickSport
<1>3. CASE Asap
  <2> DEFINE prefs == [draft EXCEPT !.time = "ASAP"]
  <2>1. prefs \in Prefs /\ prefs.time = "ASAP" /\ prefs.sport = draft.sport
    BY DEF TypeOK, Prefs
  <2>2. draft.sport # None
    BY <1>3, TouchHasSport DEF Asap
  <2> QED
    BY <1>1, <1>3, <2>1, <2>2 DEF Asap
<1>4. CASE Confirm
  <2> DEFINE prefs == [draft EXCEPT !.time = "Interval", !.dated = TRUE]
  <2>1. prefs \in Prefs /\ prefs.dated /\ prefs.sport = draft.sport
    BY DEF TypeOK, Prefs
  <2>2. draft.sport # None
    BY <1>4, TouchHasSport DEF Confirm
  <2> QED
    BY <1>1, <1>4, <2>1, <2>2 DEF Confirm
<1>5. CASE PickSkill
  <2>1. draft.sport # None
    BY <1>5, TouchHasSport DEF PickSkill
  <2>2. CASE Trap("managed")
    BY <2>2 DEF Trap, wizardVars
  <2>3. CASE ~Trap("managed")
    BY <1>5, <2>1, <2>3 DEF PickSkill, Posted
  <2> QED
    BY <2>2, <2>3
<1>6. CASE Reset \/ Restart
  BY <1>6, NoneIsNoTime, NoneIsNoPage DEF Reset, Restart, Nothing, Pages
<1>7. CASE HandleSessions \/ ShowPopup
  BY <1>7 DEF HandleSessions, Trap, ShowPopup, wizardVars
<1>8. CASE ClosePopup
  BY <1>0, <1>8 DEF ClosePopup
<1>9. CASE Settle
  BY <1>9, NoneIsNoPage DEF Settle, Pages
<1>10. CASE \/ ClearFilters \/ \E end \in {"start", "end"} : SetDate(end)
            \/ UNCHANGED vars
  BY <1>10 DEF ClearFilters, SetDate, Trap, vars, wizardVars
<1> QED
  BY <1>2, <1>3, <1>4, <1>5, <1>6, <1>7, <1>8, <1>9, <1>10 DEF Next

\* What is filled in stays complete.
LEMMA CompleteInvariant == Spec => []CompleteInv
<1>1. Init => CompleteInv
  BY NoneIsNoTime, NoneIsNoPage
     DEF Init, CompleteInv, StoredIsComplete, Nothing, Pages
<1> QED
  BY <1>1, TypeCorrect, NextComplete, PTL DEF Spec

\* Stored preferences have a sport and both ends of their interval.
THEOREM StoredStaysComplete == Spec => []StoredIsComplete
<1>1. CompleteInv => StoredIsComplete
  BY DEF CompleteInv
<1> QED
  BY <1>1, CompleteInvariant, PTL

\* What the filter depends on: nothing is filtered by what is not stored.
FilterInv ==
  /\ FilterIsStored
  /\ CellsUseStored
  /\ stored = None => filter = None

\* The list is filtered by what is stored, after every step.
LEMMA NextFilter == TypeOK /\ CompleteInv /\ FilterInv /\ [Next]_vars => FilterInv'
<1> SUFFICES ASSUME TypeOK, CompleteInv, FilterInv, [Next]_vars PROVE FilterInv'
  OBVIOUS
<1> USE DEF FilterInv, FilterIsStored, CellsUseStored
<1>0. UNCHANGED <<stored, listVars>> => FilterInv'
  BY DEF listVars, Matching
<1>1. CASE HandleSessions
  <2>0. CASE Trap("sport")
    BY <1>0, <2>0 DEF Trap
  <2>1. ~Trap("sport") =>
          stored' = stored /\ loaded' /\ ListStored(categories')
    BY <1>1 DEF HandleSessions
  <2>2. CASE ~Trap("sport") /\ stored = None
    <3>1. shown' = categories' /\ filter' = None /\ clear' = clear
      BY <2>1, <2>2 DEF ListStored
    <3>2. clear = FALSE
      BY <2>2 DEF TypeOK
    <3> QED
      BY <2>1, <2>2, <3>1, <3>2
  <2>3. CASE ~Trap("sport") /\ stored # None
    <3>1. Filter(categories', stored, "stored")
      BY <2>1, <2>3 DEF ListStored
    <3>2. shown' # {} => categories' # {}
      BY <3>1 DEF Filter, Matching
    <3> QED
      BY <2>1, <2>3, <3>1, <3>2 DEF Filter, Matching
  <2> QED
    BY <2>0, <2>2, <2>3
<1>2. CASE ClearFilters
  BY <1>2 DEF ClearFilters
<1>3. CASE ShowPopup
  BY <1>0, <1>3 DEF ShowPopup
<1>4. ASSUME NEW prefs \in Prefs, Fill(prefs) PROVE FilterInv'
  BY <1>0, <1>4 DEF Fill, Trap
<1>5. CASE \E s \in Sports : PickSport(s)
  <2> PICK s \in Sports : PickSport(s)
    BY <1>5
  <2>1. [draft EXCEPT !.sport = s] \in Prefs
    BY DEF TypeOK, Prefs
  <2> QED
    BY <2>1, <1>4 DEF PickSport
<1>6. CASE \E end \in {"start", "end"} : SetDate(end)
  BY <1>0, <1>6 DEF SetDate, Trap
<1>7. CASE Asap
  <2>1. [draft EXCEPT !.time = "ASAP"] \in Prefs
    BY DEF TypeOK, Prefs
  <2> QED
    BY <1>4, <1>7, <2>1 DEF Asap
<1>8. CASE Confirm
  <2>1. [draft EXCEPT !.time = "Interval", !.dated = TRUE] \in Prefs
    BY DEF TypeOK, Prefs
  <2> QED
    BY <1>4, <1>8, <2>1 DEF Confirm
<1>9. CASE PickSkill
  <2>1. CASE Trap("managed")
    BY <1>0, <2>1 DEF Trap
  <2>2. CASE ~Trap("managed")
    <3>0. draft.sport # None
      BY <1>9, TouchHasSport DEF PickSkill
    <3>1. /\ stored' = draft /\ categories' = categories
          /\ Filter(categories, draft, IF filter = None THEN None ELSE "deleted")
      BY <1>9, <2>2, <3>0 DEF PickSkill, Posted
    <3>2. stored' # None
      BY <3>1, NoneAssumption DEF TypeOK
    <3>3. shown' # {} => categories # {}
      BY <3>1 DEF Filter, Matching
    <3> QED
      BY <3>1, <3>2, <3>3 DEF Filter, Matching
  <2> QED
    BY <2>1, <2>2
<1>10. CASE ClosePopup \/ Settle \/ Reset
  BY <1>0, <1>10 DEF ClosePopup, Settle, Reset
<1>11. CASE Restart
  BY <1>11 DEF Restart
<1>12. CASE UNCHANGED vars
  BY <1>0, <1>12 DEF vars, listVars
<1> QED
  BY <1>1, <1>2, <1>3, <1>5, <1>6, <1>7, <1>8, <1>9, <1>10, <1>11, <1>12 DEF Next

\* The buttons and the categories shown always tell what is stored.
THEOREM FilterTellsStored == Spec => []FilterIsStored
<1>1. Init => FilterInv
  BY DEF Init, FilterInv, FilterIsStored, CellsUseStored
<1>2. FilterInv => FilterIsStored
  BY DEF FilterInv
<1> QED
  BY <1>1, <1>2, TypeCorrect, CompleteInvariant, NextFilter, PTL DEF Spec

\* No cell is filtered by an object Realm has deleted.
THEOREM CellsNeverUseDeleted == Spec => []CellsUseStored
<1>1. Init => FilterInv
  BY DEF Init, FilterInv, FilterIsStored, CellsUseStored
<1>2. FilterInv => CellsUseStored
  BY DEF FilterInv
<1> QED
  BY <1>1, <1>2, TypeCorrect, CompleteInvariant, NextFilter, PTL DEF Spec

-----------------------------------------------------------------------------
(* A user whose touches arrive in time and who does not outrun the reset.  *)

\* An open popup has an object of its own, and a closed one is fresh but for
\* resets to come.
InTime ==
  /\ trap \in {None, "date"}
  /\ popup => resets = 0
  /\ resets = 0 => life = "fresh"
  /\ popup /\ page > 0 => draft.sport # None
  /\ ~popup /\ resets = 0 => page = 0 /\ draft = Nothing /\ dates = {}

\* Every step of such a user keeps that.
LEMMA NextInTime ==
  ASSUME ~hasty, TypeOK, StoredIsComplete, InTime, [Next]_vars
  PROVE  InTime'
<1> USE DEF InTime
<1>1. ASSUME NEW prefs \in Prefs, Fill(prefs), popup, page < 2,
             prefs.sport # None
      PROVE  InTime'
  <2>1. life = "fresh" /\ page + 1 \in Pages
    BY <1>1 DEF TypeOK, Pages
  <2> QED
    BY <1>1, <2>1 DEF Fill, GoForward, listVars
<1>2. CASE \E s \in Sports : PickSport(s)
  <2> PICK s \in Sports : PickSport(s)
    BY <1>2
  <2> DEFINE prefs == [draft EXCEPT !.sport = s]
  <2>1. prefs \in Prefs /\ prefs.sport # None
    BY SportsAssumption DEF TypeOK, Prefs
  <2>2. popup /\ page < 2 /\ Fill(prefs)
    BY DEF PickSport, Touch
  <2> HIDE DEF prefs
  <2> QED
    BY <1>1, <2>1, <2>2
<1>3. CASE Asap
  <2> DEFINE prefs == [draft EXCEPT !.time = "ASAP"]
  <2>1. prefs \in Prefs /\ prefs.sport = draft.sport
    BY DEF TypeOK, Prefs
  <2>2. popup /\ page = 1 /\ Fill(prefs)
    BY <1>3 DEF Asap, Touch
  <2>3. prefs.sport # None
    BY <2>1, <2>2
  <2> HIDE DEF prefs
  <2> QED
    BY <1>1, <2>1, <2>2, <2>3
<1>4. CASE Confirm
  <2> DEFINE prefs == [draft EXCEPT !.time = "Interval", !.dated = TRUE]
  <2>1. prefs \in Prefs /\ prefs.sport = draft.sport
    BY DEF TypeOK, Prefs
  <2>2. popup /\ page = 1 /\ Fill(prefs)
    BY <1>4 DEF Confirm, Touch
  <2>3. prefs.sport # None
    BY <2>1, <2>2
  <2> HIDE DEF prefs
  <2> QED
    BY <1>1, <2>1, <2>2, <2>3
<1>5. CASE PickSkill
  <2>1. popup /\ page = 2 /\ life = "fresh" /\ draft.sport # None /\ resets = 0
    BY <1>5 DEF PickSkill, Touch
  <2> QED
    BY <1>5, <2>1 DEF PickSkill, Posted
<1>6. CASE HandleSessions
  BY <1>6 DEF HandleSessions, StoredIsComplete, wizardVars
<1>7. CASE ClearFilters
  BY <1>7 DEF ClearFilters, TypeOK
<1>8. CASE ShowPopup
  BY <1>8 DEF ShowPopup, wizardVars
<1>9. CASE \E end \in {"start", "end"} : SetDate(end)
  BY <1>9 DEF SetDate, Trap, wizardVars, listVars
<1>10. CASE ClosePopup
  BY <1>10 DEF ClosePopup, listVars, TypeOK
<1>11. CASE Settle
  BY <1>11 DEF Settle, listVars
<1>12. CASE Reset
  BY <1>12 DEF Reset, listVars, TypeOK
<1>13. CASE Restart
  BY <1>13 DEF Restart
<1>14. CASE UNCHANGED vars
  BY <1>14 DEF vars, wizardVars
<1> QED
  BY <1>2, <1>3, <1>4, <1>5, <1>6, <1>7, <1>8, <1>9, <1>10, <1>11, <1>12, <1>13,
     <1>14 DEF Next

\* For such a user the app never traps in the wizard or in the filter.
THEOREM InTimeNeverTraps == Spec => []WizardNeverTraps
<1>1. Init => hasty \/ InTime
  BY DEF Init, InTime
<1>2. TypeOK /\ StoredIsComplete /\ (hasty \/ InTime) /\ [Next]_vars
        => (hasty \/ InTime)'
  BY NextInTime, SameUser
<1>3. hasty \/ InTime => WizardNeverTraps
  BY DEF InTime, WizardNeverTraps, Running
<1> QED
  BY <1>1, <1>2, <1>3, TypeCorrect, StoredStaysComplete, PTL DEF Spec

\* For such a user every popup opens on the first page, with nothing filled in.
THEOREM InTimeOpensFresh == Spec => OpensFresh
<1>1. Init => hasty \/ InTime
  BY DEF Init, InTime
<1>2. TypeOK /\ StoredIsComplete /\ (hasty \/ InTime) /\ [Next]_vars
        => (hasty \/ InTime)'
  BY NextInTime, SameUser
<1>3. hasty \/ InTime
        => (~hasty /\ ShowPopup => page = 0 /\ draft = Nothing /\ dates = {})
  BY DEF InTime, ShowPopup
<1> QED
  BY <1>1, <1>2, <1>3, TypeCorrect, StoredStaysComplete, PTL
     DEF Spec, OpensFresh
=============================================================================
