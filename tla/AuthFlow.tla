------------------------------ MODULE AuthFlow ------------------------------
(***************************************************************************)
(* From the start of the app to the home screen and back:                  *)
(* InitialViewController, the menu, the two forms (LoginViewController,    *)
(* SignUpViewController) and the sign-out button of the profile.           *)
(*                                                                         *)
(* Signing up takes three requests: the account, its display name, the     *)
(* record in the database.  Firebase Auth settles a request on a queue of  *)
(* its own, changes the current user there and hands the callback to the   *)
(* main queue.  A callback acts on the form that made the request, which   *)
(* may have been left, covered by the home screen, or be showing a toast.  *)
(***************************************************************************)
EXTENDS Naturals, Sequences

CONSTANTS
  Emails,     \* valid addresses
  Bad,        \* text that is no address
  None,       \* nil, or an empty field
  MaxSubmits, \* bound: requests made
  MaxStarts   \* bound: restarts of the app

ASSUME EmailsAssumption == Bad \notin Emails /\ None \notin Emails
ASSUME BoundsAssumption == MaxSubmits \in Nat /\ MaxStarts \in Nat

VARIABLES
  accounts,   \* the addresses Firebase Auth has an account for
  names,      \* the display name of each account: whose form it came from
  records,    \* the user records: <<path, address>>
  user,       \* Auth.auth().currentUser
  screen,     \* the screen in front
  owner,      \* the user the home screen was opened for
  form,       \* the text fields of the form in front
  enabled,    \* its button is enabled
  toast,      \* it shows an alert
  requests,   \* the requests under way, by number
  due,        \* the callbacks in the main queue
  patient,    \* nobody edits, returns or leaves while a form waits
  submits,    \* requests made
  starts      \* restarts left

serverVars == <<accounts, names, records>>
formVars   == <<form, enabled, toast>>
queueVars  == <<requests, due, submits>>
vars == <<serverVars, user, screen, owner, formVars, queueVars, patient,
          starts>>

-----------------------------------------------------------------------------
\* Operators whose comment begins with "Mutant" are no part of the model: each
\* is what a plausible mistake would make of the definition that follows it.

Ids     == 1..MaxSubmits
FormScreens == {"login", "signup"}
Blank   == [name |-> FALSE, email |-> None, password |-> 0]

\* What can be typed; of the password, whether it is empty (0), too short for
\* signing up (1) or long enough (2).
Texts   == [name : BOOLEAN, email : Emails \cup {Bad, None}, password : 0..2]

\* A request; "renames" is the account the display name goes to.
Request == [kind : FormScreens, email : Emails, live : BOOLEAN,
            renames : Emails \cup {None},
            phase : {"sent", "ok", "failed", "renaming", "renamed", "unnamed"}]

ASSUME RequestAssumption == None \notin Request

Filled ==
  /\ form.email # None /\ form.password # 0
  /\ screen = "signup" => form.name

\* The requests of the form in front.
Waiting == {i \in Ids : requests[i] # None /\ requests[i].live}

\* The form was left or covered: what it asked for is still answered.
Orphaned(rs) ==
  [i \in Ids |-> IF rs[i] = None THEN None ELSE [rs[i] EXCEPT !.live = FALSE]]

\* Nobody touches a form behind an alert.
Touchable == screen \in FormScreens /\ ~toast
Calm == patient => Waiting = {}

\* Mutant: the home screen is opened as it was left.
ShowFirstRestored ==
  IF user # None THEN screen' = "home" /\ UNCHANGED owner
  ELSE screen' = "menu" /\ owner' = None

\* InitialViewController.viewDidAppear.
ShowFirst ==
  IF user # None THEN screen' = "home" /\ owner' = user
  ELSE screen' = "menu" /\ owner' = None

\* Nobody is signed in; there are accounts, complete ones.
Init ==
  /\ accounts \in SUBSET Emails
  /\ names = [e \in Emails |-> IF e \in accounts THEN e ELSE None]
  /\ records = {"users", "Users"} \X accounts
  /\ user = None /\ screen = "menu" /\ owner = None
  /\ form = Blank /\ enabled = FALSE /\ toast = FALSE
  /\ requests = [i \in Ids |-> None] /\ due = <<>> /\ submits = 0
  /\ patient \in BOOLEAN /\ starts = MaxStarts

-----------------------------------------------------------------------------
(* The screens.                                                            *)

\* The menu presents a new form.
OpenForm(s) ==
  /\ screen = "menu"
  /\ screen' = s
  /\ form' = Blank /\ enabled' = FALSE /\ toast' = FALSE
  /\ UNCHANGED <<serverVars, user, owner, queueVars, patient, starts>>

\* handleDismissButton: back to the menu.
Dismiss ==
  /\ Touchable /\ Calm
  /\ screen' = "menu"
  /\ requests' = Orphaned(requests)
  /\ UNCHANGED <<serverVars, user, owner, formVars, due, submits, patient,
                 starts>>

\* Mutant: the button shows the menu and signs nobody out.
SignOutLater ==
  /\ screen = "home"
  /\ screen' = "menu" /\ owner' = None
  /\ UNCHANGED <<serverVars, user, formVars, queueVars, patient, starts>>

\* signOutu, and the segue of the same button to a new menu.
SignOut ==
  /\ screen = "home"
  /\ user' = None
  /\ screen' = "menu" /\ owner' = None
  /\ UNCHANGED <<serverVars, formVars, queueVars, patient, starts>>

\* The app is killed and started; Auth keeps the current user.
Restart ==
  /\ starts > 0 /\ starts' = starts - 1
  /\ ShowFirst
  /\ form' = Blank /\ enabled' = FALSE /\ toast' = FALSE
  /\ requests' = [i \in Ids |-> None] /\ due' = <<>>
  /\ UNCHANGED <<serverVars, user, submits, patient>>

-----------------------------------------------------------------------------
(* The form.                                                               *)

\* textFieldChanged.
Edit ==
  /\ Touchable /\ Calm
  /\ form' \in Texts
  /\ UNCHANGED <<serverVars, user, screen, owner, toast, queueVars, patient,
                 starts>>
  /\ enabled' = Filled'

Acceptable ==
  /\ form.email \in Emails
  /\ screen = "signup" => form.password = 2

\* The end of checkInput: the button is disabled and the request is made.
Send ==
  /\ Acceptable
  /\ submits < MaxSubmits /\ submits' = submits + 1
  /\ requests' = [requests EXCEPT ![submits'] =
       [kind |-> screen, email |-> form.email, live |-> TRUE,
        renames |-> None, phase |-> "sent"]]
  /\ enabled' = FALSE
  /\ UNCHANGED toast

\* Mutant: the button is not enabled again.
RefuseForGood ==
  /\ ~Acceptable
  /\ toast' = TRUE /\ enabled' = FALSE
  /\ UNCHANGED <<requests, submits>>

\* The guards of checkInput: a toast, and the button is enabled.
Refuse ==
  /\ ~Acceptable
  /\ toast' = TRUE /\ enabled' = TRUE
  /\ UNCHANGED <<requests, submits>>

\* checkInput, from the button or from the return key in the password field.
CheckInput ==
  /\ Touchable
  /\ enabled \/ Calm
  /\ Send \/ Refuse
  /\ UNCHANGED <<serverVars, user, screen, owner, form, due, patient, starts>>

\* The alert of showToast goes after a second and a half.
HideToast ==
  /\ toast
  /\ toast' = FALSE
  /\ UNCHANGED <<serverVars, user, screen, owner, form, enabled, queueVars,
                 patient, starts>>

-----------------------------------------------------------------------------
(* Firebase Auth: the server, and the current user on this device.         *)

\* A failed request may have been served, its answer lost.
Settled(i, phase) ==
  /\ requests' = [requests EXCEPT ![i].phase = phase]
  /\ due' = Append(due, i)
  /\ UNCHANGED <<records, screen, owner, formVars, submits, patient, starts>>

Underway(i, phase) == requests[i] # None /\ requests[i].phase = phase

SettleLogin(i) ==
  /\ Underway(i, "sent") /\ requests[i].kind = "login"
  /\ \/ /\ requests[i].email \in accounts
        /\ user' = requests[i].email
        /\ Settled(i, "ok")
     \/ Settled(i, "failed") /\ UNCHANGED user
  /\ UNCHANGED <<accounts, names>>

SettleCreate(i) ==
  /\ Underway(i, "sent") /\ requests[i].kind = "signup"
  /\ \/ /\ requests[i].email \notin accounts
        /\ accounts' = accounts \cup {requests[i].email}
        /\ user' = requests[i].email
        /\ Settled(i, "ok")
     \/ /\ accounts' \in {accounts, accounts \cup {requests[i].email}}
        /\ Settled(i, "failed") /\ UNCHANGED user
  /\ UNCHANGED names

SettleRename(i) ==
  /\ Underway(i, "renaming")
  /\ LET named == [names EXCEPT ![requests[i].renames] = requests[i].email]
     IN  \/ names' = named /\ Settled(i, "renamed")
         \/ names' \in {names, named} /\ Settled(i, "unnamed")
  /\ UNCHANGED <<accounts, user>>

-----------------------------------------------------------------------------
(* The callbacks.                                                          *)

Done(i) == requests' = [requests EXCEPT ![i] = None]

\* Mutant: a callback opens the home screen whatever shows.
GoHomeAnyway(i) ==
  /\ screen' = "home" /\ owner' = user
  /\ requests' = Orphaned([requests EXCEPT ![i] = None])
  /\ UNCHANGED formVars

\* performSegue: nothing happens unless the form is in front, with no alert.
GoHome(i) ==
  IF requests[i].live /\ ~toast
  THEN /\ screen' = "home" /\ owner' = user
       /\ requests' = Orphaned([requests EXCEPT ![i] = None])
       /\ UNCHANGED formVars
  ELSE Done(i) /\ UNCHANGED <<screen, owner, formVars>>

\* Mutant: a failure shows its toast and leaves the button as it is.
FallBackSilently(i, alert) ==
  /\ Done(i)
  /\ toast' = (toast \/ (alert /\ requests[i].live))
  /\ UNCHANGED <<screen, owner, form, enabled>>

\* A failure enables the button; a toast is shown by a form in front only.
FallBack(i, alert) ==
  /\ Done(i)
  /\ enabled' = (enabled \/ requests[i].live)
  /\ toast' = (toast \/ (alert /\ requests[i].live))
  /\ UNCHANGED <<screen, owner, form>>

\* Mutant: the current user is not checked.
RenameUnchecked(i) ==
  /\ requests' = [requests EXCEPT ![i].phase = "renaming",
                                 ![i].renames = user]
  /\ UNCHANGED <<screen, owner, formVars>>

\* The display name is given to the current user, if there is one.
Rename(i) ==
  /\ IF user = None THEN Done(i)
     ELSE requests' = [requests EXCEPT ![i].phase = "renaming",
                                       ![i].renames = user]
  /\ UNCHANGED <<screen, owner, formVars>>

\* Mutant: the record is written whether the display name was saved or not.
RecordAnyway(i) ==
  IF requests[i].phase \in {"renamed", "unnamed"}
  THEN records' = records \cup {<<"users", requests[i].email>>}
  ELSE UNCHANGED records

\* The record of a new user, written once the display name is saved.
Record(i) ==
  IF requests[i].phase = "renamed"
  THEN records' = records \cup {<<"users", requests[i].email>>}
  ELSE UNCHANGED records

Callback(i) ==
  /\ due # <<>> /\ i = Head(due) /\ due' = Tail(due)
  /\ requests[i] # None
  /\ \/ Underway(i, "ok") /\ requests[i].kind = "login" /\ GoHome(i)
     \/ Underway(i, "ok") /\ requests[i].kind = "signup" /\ Rename(i)
     \/ Underway(i, "renamed") /\ GoHome(i)
     \/ Underway(i, "failed") /\ FallBack(i, requests[i].kind = "login")
     \/ Underway(i, "unnamed") /\ FallBack(i, TRUE)
  /\ Record(i)
  /\ UNCHANGED <<accounts, names, user, submits, patient, starts>>

Settle(i) == SettleLogin(i) \/ SettleCreate(i) \/ SettleRename(i)

Next ==
  \/ \E s \in FormScreens : OpenForm(s)
  \/ Dismiss \/ SignOut \/ Restart \/ Edit \/ CheckInput \/ HideToast
  \/ \E i \in Ids : Settle(i) \/ Callback(i)

Spec == Init /\ [][Next]_vars

\* Auth answers every request, a timeout being an answer; the main queue runs.
FairSpec ==
  /\ Spec
  /\ \A i \in Ids : WF_vars(Settle(i)) /\ WF_vars(Callback(i))
  /\ WF_vars(HideToast)

-----------------------------------------------------------------------------
(* Properties.                                                             *)

\* Types of the variables; a request that renames has an account to rename.
TypeOK ==
  /\ accounts \subseteq Emails
  /\ names \in [Emails -> Emails \cup {None}]
  /\ records \subseteq {"users", "Users"} \X Emails
  /\ user \in Emails \cup {None} /\ owner \in Emails \cup {None}
  /\ screen \in FormScreens \cup {"menu", "home"}
  /\ form \in Texts /\ enabled \in BOOLEAN /\ toast \in BOOLEAN
  /\ requests \in [Ids -> Request \cup {None}]
  /\ \A i \in Ids : Underway(i, "renaming") => requests[i].renames # None
  /\ due \in Seq(Ids) /\ patient \in BOOLEAN
  /\ submits \in 0..MaxSubmits /\ starts \in 0..MaxStarts

\* The home screen is in front only while somebody is signed in, whatever is
\* answered late: its screens read Auth.auth().currentUser! without a check.
HomeHasUser == screen = "home" => user # None

\* A form that is filled in and waits for nothing has its button enabled:
\* every path from checkInput that does not leave the form gives it back.
IdleIsReady ==
  screen \in FormScreens /\ Filled /\ Waiting = {} => enabled

\* A form whose button is off gets it back, is left, or is edited.
FormComesBack ==
  (screen \in FormScreens /\ Filled /\ ~enabled)
    ~> (screen \notin FormScreens \/ enabled \/ ~Filled)

\* With patient users, the home screen shows the data of the user who is
\* signed in: no answer changes the current user behind it.
HomeIsOwn == patient /\ screen = "home" => owner = user

\* With patient users, somebody who is signed in is found at the menu only
\* with a sign-up that failed half-way: whoever has a record got home with it.
MenuMeansHalfMade ==
  patient /\ screen = "menu" /\ user # None => <<"users", user>> \notin records

\* With patient users, a record is written after the account has got the
\* display name of the same form.
RecordsAreNamed ==
  patient =>
    \A e \in Emails :
      <<"users", e>> \in records => e \in accounts /\ names[e] = e

\* BuddyDetailsViewController reads Users/<id> of the user at home and unwraps
\* it: `user!.buddies`.
HomeUserReadable == screen = "home" => <<"Users", user>> \in records
=============================================================================
