---------------------------- MODULE SearchWizard ----------------------------
(***************************************************************************)
(* The search for sessions: the wizard of three pages in a popup           *)
(* (SearchPageViewController and the Pick...ViewControllers), the          *)
(* preferences object its pages fill in, the copy of it kept in Realm      *)
(* (Storage), and the list of sessions filtered by it                      *)
(* (FindSessionViewController).                                            *)
(*                                                                         *)
(* Adding the object to Realm turns it into a managed one: writing it      *)
(* outside a transaction traps, and so does reading it once Realm deleted  *)
(* it.  The wizard replaces its object 0.4 seconds after it closes.        *)
(***************************************************************************)
EXTENDS Naturals

CONSTANTS
  Sports,     \* sports of sessions, in lower case; the wizard offers them all
  None,       \* nil
  MaxOpens,   \* bound: times the popup opens
  MaxEvents,  \* bound: session events
  MaxStarts   \* bound: restarts of the app

ASSUME SportsAssumption == None \notin Sports
ASSUME BoundsAssumption ==
  MaxOpens \in Nat /\ MaxEvents \in Nat /\ MaxStarts \in Nat

VARIABLES
  popup,      \* the popup is shown
  page,       \* currentPageIndex
  turning,    \* the page that was left last and still takes late touches
  dates,      \* the time page: which ends of the interval are set
  draft,      \* SearchPageViewController.prefs
  life,       \* where that object is: "fresh", "stored" or "deleted"
  stored,     \* the preferences in Realm
  resets,     \* delayed resets of the wizard
  categories, \* the sports of the sessions listed
  shown,      \* displayCategories
  filter,     \* FindSessionViewController.prefs: None, "stored" or "deleted"
  clear,      \* the clear button is shown, not the search button
  loaded,     \* the session list has had its first event
  trap,       \* why the app has trapped, or None
  hasty,      \* pages also take a touch while they turn away or close, and the
              \* popup may open before the delayed reset of the last one
  budget      \* what is left of the bounds

wizardVars == <<page, turning, dates, draft, life, resets>>
listVars   == <<categories, shown, filter, clear, loaded>>
vars == <<popup, wizardVars, stored, listVars, trap, hasty, budget>>

-----------------------------------------------------------------------------
\* Operators whose comment begins with "Mutant" are no part of the model: each
\* is what a plausible mistake would make of the definition that follows it.

Pages   == 0..2
Nothing == [sport |-> None, time |-> None, dated |-> FALSE]
Prefs   == [sport : Sports \cup {None}, time : {None, "ASAP", "Interval"},
            dated : BOOLEAN]

Spend(b) == budget[b] > 0 /\ budget' = [budget EXCEPT ![b] = @ - 1]

ASSUME NoneAssumption == None \notin Prefs
ASSUME NoneIsNoTime == None # "Interval"
ASSUME NoneIsNoPage == None \notin Pages

Matching(cats, prefs) == {c \in cats : c = prefs.sport}

\* Nothing is stored at first; what is stored later survives a restart.
Init ==
  /\ popup = FALSE
  /\ page = 0 /\ turning = None /\ dates = {}
  /\ draft = Nothing /\ life = "fresh" /\ resets = 0
  /\ stored = None
  /\ categories = {} /\ shown = {} /\ filter = None
  /\ clear = FALSE /\ loaded = FALSE
  /\ trap = None /\ hasty \in BOOLEAN
  /\ budget = [opens |-> MaxOpens, events |-> MaxEvents, starts |-> MaxStarts]

Running == trap = None

Trap(why) ==
  /\ trap' = why
  /\ UNCHANGED <<popup, wizardVars, stored, listVars, hasty, budget>>

-----------------------------------------------------------------------------
(* The session list.                                                       *)

\* Mutant: the list keeps the preferences it has.
FilterHeld(cats, prefs, held) ==
  /\ shown' = Matching(cats, prefs)
  /\ filter' = held
  /\ clear' = TRUE

\* filterResults: the preferences are kept inside the closure that filters the
\* categories, so only when there is one; otherwise those held before stay.
Filter(cats, prefs, held) ==
  /\ shown' = Matching(cats, prefs)
  /\ filter' = IF cats = {} THEN held ELSE "stored"
  /\ clear' = TRUE

\* Mutant: a new event shows all categories, filtered or not.
ListAll(cats) ==
  /\ shown' = cats
  /\ UNCHANGED <<filter, clear>>

\* What the observer shows of the categories.
ListStored(cats) ==
  IF stored = None THEN shown' = cats /\ UNCHANGED <<filter, clear>>
  ELSE Filter(cats, stored, "stored")

\* The observer of the sessions: new categories, filtered by what is stored,
\* whose sport is unwrapped for each of them.
HandleSessions ==
  /\ Running
  /\ \E cats \in SUBSET Sports :
       IF stored # None /\ stored.sport = None /\ cats # {} THEN Trap("sport")
       ELSE /\ Spend("events")
            /\ loaded' = TRUE
            /\ categories' = cats
            /\ ListStored(cats)
            /\ UNCHANGED <<popup, wizardVars, stored, trap, hasty>>

\* clearFilters: the stored preferences are deleted.
ClearFilters ==
  /\ Running /\ clear /\ ~popup
  /\ stored' = None
  /\ life' = IF life = "stored" THEN "deleted" ELSE life
  /\ shown' = categories /\ filter' = None /\ clear' = FALSE
  /\ UNCHANGED <<popup, page, turning, dates, draft, resets, categories, loaded,
                 trap, hasty, budget>>

\* search, of this list while it is not filtered or of the user's own sessions:
\* the popup is shown as the last one left it.
ShowPopup ==
  /\ Running /\ ~popup
  /\ hasty \/ resets = 0
  /\ Spend("opens")
  /\ popup' = TRUE
  /\ UNCHANGED <<wizardVars, stored, listVars, trap, hasty>>

-----------------------------------------------------------------------------
(* The wizard.                                                             *)

\* Page p takes a touch.
Touch(p) ==
  /\ Running
  /\ \/ popup /\ page = p
     \/ hasty /\ turning = p

\* goForward, when there is a page to go to.
GoForward == page' = page + 1 /\ turning' = page

\* Mutant: the index is not checked against the array.
FillPast(prefs) ==
  IF life # "fresh" THEN Trap("managed")
  ELSE /\ draft' = prefs
       /\ GoForward
       /\ UNCHANGED <<popup, dates, life, resets, stored, listVars, trap,
                      hasty, budget>>

\* A page writes the preferences and goes forward.  Writing a managed object
\* traps, and so does a page past the last one, which the guard admits.
Fill(prefs) ==
  IF life # "fresh" THEN Trap("managed")
  ELSE IF page + 1 \notin Pages THEN Trap("page")
  ELSE /\ draft' = prefs
       /\ GoForward
       /\ UNCHANGED <<popup, dates, life, resets, stored, listVars, trap,
                      hasty, budget>>

PickSport(s) == Touch(0) /\ Fill([draft EXCEPT !.sport = s])

\* One end of the interval is picked; with both, the confirm button appears.  The
\* time is written as a string and read back, which traps where the device's
\* settings have another clock (toDate()!).
SetDate(end) ==
  /\ Running /\ popup /\ page = 1
  /\ \/ Trap("date")
     \/ /\ dates' = dates \cup {end}
        /\ UNCHANGED <<popup, page, turning, draft, life, resets, stored,
                       listVars, trap, hasty, budget>>

Asap == Touch(1) /\ Fill([draft EXCEPT !.time = "ASAP"])

\* Mutant: one end is enough.
ConfirmEarly ==
  /\ Touch(1) /\ dates # {}
  /\ Fill([draft EXCEPT !.time = "Interval", !.dated = dates = {"start", "end"}])

Confirm ==
  /\ Touch(1) /\ dates = {"start", "end"}
  /\ Fill([draft EXCEPT !.time = "Interval", !.dated = TRUE])

\* The notification: the list unwraps the sport for each category it compares;
\* then the popup goes and a reset is scheduled.
Posted ==
  IF draft.sport = None /\ categories # {}
    THEN trap' = "sport" /\ UNCHANGED <<popup, resets, turning, shown, filter, clear>>
    ELSE /\ Filter(categories, draft, IF filter = None THEN None ELSE "deleted")
         /\ popup' = FALSE /\ resets' = resets + 1 /\ turning' = page
         /\ UNCHANGED trap

\* A skill level closes the wizard: the object replaces the stored one, and only
\* then the list is told.
PickSkill ==
  /\ Touch(2)
  /\ IF life # "fresh" THEN Trap("managed")
     ELSE /\ stored' = draft /\ life' = "stored"
          /\ Posted
          /\ UNCHANGED <<page, dates, draft, categories, loaded, hasty, budget>>

\* The close button of the popup.
ClosePopup ==
  /\ Running /\ popup
  /\ popup' = FALSE /\ resets' = resets + 1 /\ turning' = page
  /\ UNCHANGED <<page, dates, draft, life, stored, listVars, trap, hasty,
                 budget>>

\* The page has turned, the popup is gone.
Settle ==
  /\ Running /\ turning # None
  /\ turning' = None
  /\ UNCHANGED <<popup, page, dates, draft, life, resets, stored, listVars,
                 trap, hasty, budget>>

\* Mutant: the pages start again with the object of the last search.
ResetPages ==
  /\ Running /\ resets > 0
  /\ resets' = resets - 1
  /\ page' = 0 /\ turning' = None /\ dates' = {}
  /\ UNCHANGED <<popup, draft, life, stored, listVars, trap, hasty, budget>>

\* The delayed reset: new pages and a new object, whether the popup is open or
\* not.
Reset ==
  /\ Running /\ resets > 0
  /\ resets' = resets - 1
  /\ page' = 0 /\ turning' = None /\ dates' = {}
  /\ draft' = Nothing /\ life' = "fresh"
  /\ UNCHANGED <<popup, stored, listVars, trap, hasty, budget>>

\* The app is started again: only Realm has kept anything.
Restart ==
  /\ Spend("starts")
  /\ popup' = FALSE
  /\ page' = 0 /\ turning' = None /\ dates' = {}
  /\ draft' = Nothing /\ life' = "fresh" /\ resets' = 0
  /\ categories' = {} /\ shown' = {} /\ filter' = None
  /\ clear' = FALSE /\ loaded' = FALSE
  /\ trap' = None
  /\ UNCHANGED <<stored, hasty>>

Next ==
  \/ HandleSessions
  \/ ClearFilters
  \/ ShowPopup
  \/ \E s \in Sports : PickSport(s)
  \/ \E end \in {"start", "end"} : SetDate(end)
  \/ Asap
  \/ Confirm
  \/ PickSkill
  \/ ClosePopup
  \/ Settle
  \/ Reset
  \/ Restart

Spec == Init /\ [][Next]_vars

-----------------------------------------------------------------------------
(* Properties.                                                             *)

\* Type invariant.
TypeOK ==
  /\ popup \in BOOLEAN
  /\ page \in Pages
  /\ turning \in Pages \cup {None}
  /\ dates \subseteq {"start", "end"}
  /\ draft \in Prefs
  /\ life \in {"fresh", "stored", "deleted"}
  /\ stored \in Prefs \cup {None}
  /\ resets \in Nat
  /\ categories \subseteq Sports /\ shown \subseteq Sports
  /\ filter \in {None, "stored", "deleted"}
  /\ clear \in BOOLEAN /\ loaded \in BOOLEAN
  /\ trap \in {None, "managed", "page", "sport", "date"}
  /\ hasty \in BOOLEAN
  /\ budget \in [{"opens", "events", "starts"} -> Nat]

\* The screen tells what is stored, through restarts, session events and late
\* touches: the clear button is shown just when there are preferences, and the
\* categories are those they match (FindSessionViewController.swift:61-70,
\* 99-123).
FilterIsStored ==
  loaded \/ clear =>
    /\ clear = (stored # None)
    /\ shown = IF stored = None THEN categories ELSE Matching(categories, stored)

\* Where a category is shown, the filter of its cell is what is stored: never
\* an object Realm has deleted (cellForRowAt, lines 161-200).
CellsUseStored ==
  shown # {} => filter = IF stored = None THEN None ELSE "stored"

\* What the list unwraps of stored preferences is there, however the wizard was
\* touched when they were picked and restarts included: the sport (line 115) and,
\* with an interval, both its ends (lines 166-168).
StoredIsComplete ==
  stored # None =>
    /\ stored.sport # None
    /\ stored.time = "Interval" => stored.dated

\* A user whose touches arrive in time and who does not outrun the reset never
\* writes a managed object, unwraps a missing sport or leaves the last page.  A
\* hasty one may do the first and the last: the guard of goForward compares the
\* index with count (SearchPageViewController.swift:70-75).  What is left is a
\* picked time that cannot be read back (PickTimeViewController.swift:73).
WizardNeverTraps == hasty \/ Running \/ trap = "date"

\* For such a user a popup opens on the first page with nothing filled in; in
\* between the reset of PopupContainerViewController.swift:31 has happened.
OpensFresh ==
  [][~hasty /\ ShowPopup => page = 0 /\ draft = Nothing /\ dates = {}]_vars
=============================================================================
