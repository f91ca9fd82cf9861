--------------------------- MODULE AuthFlowProofs ---------------------------
(* The invariants of AuthFlow for any addresses and bounds.                *)
EXTENDS AuthFlow, TLAPS

Requests == [Ids -> Request \cup {None}]

-----------------------------------------------------------------------------
(* The operators of the model.                                             *)

\* What is orphaned is the same, but not live.
LEMMA OrphanedFacts ==
  ASSUME NEW rs \in Requests
  PROVE  /\ Orphaned(rs) \in Requests
         /\ \A i \in Ids :
              /\ Orphaned(rs)[i] = None <=> rs[i] = None
              /\ rs[i] # None =>
                   /\ ~Orphaned(rs)[i].live
                   /\ Orphaned(rs)[i].kind = rs[i].kind
                   /\ Orphaned(rs)[i].email = rs[i].email
                   /\ Orphaned(rs)[i].phase = rs[i].phase
                   /\ Orphaned(rs)[i].renames = rs[i].renames
<1>1. ASSUME NEW i \in Ids, rs[i] # None
      PROVE  /\ [rs[i] EXCEPT !.live = FALSE] \in Request
             /\ [rs[i] EXCEPT !.live = FALSE] # None
  BY <1>1, RequestAssumption DEF Requests, Request
<1> QED
  BY <1>1 DEF Orphaned, Requests, Request

\* A request of the form in front is a request.
LEMMA NewRequest ==
  ASSUME TypeOK, screen \in FormScreens, Send
  PROVE  /\ submits' \in Ids /\ requests' \in Requests
         /\ requests'[submits'] # None /\ requests'[submits'].live
         /\ requests'[submits'].phase = "sent"
         /\ \A i \in Ids : i # submits' => requests'[i] = requests[i]
<1> DEFINE new == [kind |-> screen, email |-> form.email, live |-> TRUE,
                   renames |-> None, phase |-> "sent"]
<1>1. new \in Request /\ new # None
  <2>1. form.email \in Emails
    BY DEF Send, Acceptable
  <2>2. new \in Request
    BY <2>1 DEF Request
  <2> QED
    BY <2>2, RequestAssumption
<1>2. submits' \in Ids
  BY BoundsAssumption DEF Send, TypeOK, Ids
<1>3. requests' = [requests EXCEPT ![submits'] = new]
  BY DEF Send
<1> QED
  BY <1>1, <1>2, <1>3 DEF TypeOK, Requests

\* A settled request keeps everything but its phase.
LEMMA SettledFacts ==
  ASSUME TypeOK, NEW i \in Ids, requests[i] # None,
         NEW phase \in {"ok", "failed", "renamed", "unnamed"},
         Settled(i, phase)
  PROVE  /\ requests' \in Requests /\ due' \in Seq(Ids)
         /\ requests'[i] # None /\ requests'[i].phase = phase
         /\ requests'[i].live = requests[i].live
         /\ requests'[i].kind = requests[i].kind
         /\ requests'[i].email = requests[i].email
         /\ requests'[i].renames = requests[i].renames
         /\ \A j \in Ids : j # i => requests'[j] = requests[j]
<1>1. [requests[i] EXCEPT !.phase = phase] \in Request
  BY DEF TypeOK, Request
<1>2. requests' = [requests EXCEPT ![i] = [requests[i] EXCEPT !.phase = phase]]
  BY DEF Settled
<1>3. due' \in Seq(Ids)
  BY DEF Settled, TypeOK
<1> QED
  BY <1>1, <1>2, <1>3, RequestAssumption DEF TypeOK, Requests, Request

\* A request that is done is gone.
LEMMA DoneFacts ==
  ASSUME TypeOK, NEW i \in Ids
  PROVE  /\ [requests EXCEPT ![i] = None] \in Requests
         /\ [requests EXCEPT ![i] = None][i] = None
         /\ \A j \in Ids :
              j # i => [requests EXCEPT ![i] = None][j] = requests[j]
BY DEF TypeOK, Requests

\* A request that renames has the current user to rename.
LEMMA RenameFacts ==
  ASSUME TypeOK, NEW i \in Ids, requests[i] # None, Rename(i), user # None
  PROVE  /\ requests' \in Requests /\ requests'[i] # None
         /\ requests'[i].phase = "renaming" /\ requests'[i].renames = user
         /\ requests'[i].live = requests[i].live
         /\ requests'[i].kind = requests[i].kind
         /\ requests'[i].email = requests[i].email
         /\ \A j \in Ids : j # i => requests'[j] = requests[j]
<1> DEFINE new == [requests[i] EXCEPT !.phase = "renaming", !.renames = user]
<1>1. new \in Request
  BY DEF TypeOK, Request
<1>2. requests' = [requests EXCEPT ![i] = new]
  BY DEF Rename
<1> QED
  BY <1>1, <1>2, RequestAssumption DEF TypeOK, Requests, Request

\* The users are of one kind for good.
LEMMA SameUsers == [Next]_vars => patient' = patient
<1> SUFFICES ASSUME [Next]_vars PROVE patient' = patient
  OBVIOUS
<1>1. CASE (\E s \in FormScreens : OpenForm(s)) \/ Dismiss \/ SignOut \/ Restart
  BY <1>1 DEF OpenForm, Dismiss, SignOut, Restart
<1>2. CASE Edit \/ CheckInput \/ HideToast \/ UNCHANGED vars
  BY <1>2 DEF Edit, CheckInput, HideToast, vars
<1>3. CASE \E i \in Ids : Settle(i)
  BY <1>3 DEF Settle, SettleLogin, SettleCreate, SettleRename, Settled
<1>4. CASE \E i \in Ids : Callback(i)
  BY <1>4 DEF Callback
<1> QED
  BY <1>1, <1>2, <1>3, <1>4 DEF Next

-----------------------------------------------------------------------------
(* Types.                                                                  *)

\* The request that renames has somebody to rename.
Renames(rs) ==
  \A i \in Ids : rs[i] # None /\ rs[i].phase = "renaming" => rs[i].renames # None

\* The types of requests, in one word.
LEMMA QueueTypes ==
  TypeOK => requests \in Requests /\ Renames(requests)
BY DEF TypeOK, Requests, Renames, Underway

\* The initial state is well typed.
LEMMA InitTypes == Init => TypeOK
<1> SUFFICES ASSUME Init PROVE TypeOK
  OBVIOUS
<1>1. names \in [Emails -> Emails \cup {None}]
  BY DEF Init
<1>2. records \subseteq {"users", "Users"} \X Emails
  BY DEF Init
<1>3. requests \in [Ids -> Request \cup {None}] /\ due \in Seq(Ids)
  BY DEF Init
<1>4. \A i \in Ids : Underway(i, "renaming") => requests[i].renames # None
  BY DEF Init, Underway
<1>5. form \in Texts
  BY DEF Init, Blank, Texts
<1>6. submits \in 0..MaxSubmits /\ starts \in 0..MaxStarts
  BY BoundsAssumption DEF Init
<1> QED
  BY <1>1, <1>2, <1>3, <1>4, <1>5, <1>6 DEF TypeOK, Init

\* A callback keeps the types.
LEMMA CallbackTypes ==
  ASSUME TypeOK, patient' = patient, NEW i \in Ids, Callback(i) PROVE TypeOK'
<1>1. requests[i] # None /\ requests[i] \in Request
  BY DEF Callback, TypeOK
<1>2. due' \in Seq(Ids)
  BY DEF Callback, TypeOK
<1>3. records' \subseteq {"users", "Users"} \X Emails
  BY <1>1 DEF Callback, Record, TypeOK, Request
<1> DEFINE Typed ==
      /\ requests' \in Requests /\ Renames(requests')
      /\ screen' \in FormScreens \cup {"menu", "home"}
      /\ owner' \in Emails \cup {None}
      /\ form' \in Texts /\ enabled' \in BOOLEAN /\ toast' \in BOOLEAN
<1>4. Typed
  <2> DEFINE rest == [requests EXCEPT ![i] = None]
  <2>1. rest \in Requests /\ Renames(rest)
    BY QueueTypes, DoneFacts DEF Renames
  <2>2. Orphaned(rest) \in Requests /\ Renames(Orphaned(rest))
    <3> HIDE DEF rest
    <3> QED
      BY <2>1, OrphanedFacts DEF Renames
  <2>3. CASE GoHome(i)
    <3>1. requests' \in Requests /\ Renames(requests')
      BY <2>1, <2>2, <2>3 DEF GoHome, Done
    <3> QED
      BY <2>3, <3>1 DEF GoHome, Done, TypeOK, formVars, Renames
  <2>4. CASE Rename(i)
    <3>1. requests' \in Requests /\ Renames(requests')
      <4>1. CASE user = None
        BY <2>1, <2>4, <4>1 DEF Rename, Done
      <4>2. CASE user # None
        BY <2>4, <4>2, <1>1, RenameFacts, QueueTypes DEF Renames
      <4> QED
        BY <4>1, <4>2
    <3> QED
      BY <2>4, <3>1 DEF Rename, TypeOK, formVars, Renames
  <2>5. ASSUME NEW alert \in BOOLEAN, FallBack(i, alert)
        PROVE  Typed
    <3>1. requests' \in Requests /\ Renames(requests')
      BY <2>1, <2>5 DEF FallBack, Done
    <3>2. requests[i].live \in BOOLEAN
      BY <1>1 DEF Request
    <3> QED
      BY <2>5, <3>1, <3>2 DEF FallBack, TypeOK, Renames
  <2> QED
    BY <2>3, <2>4, <2>5 DEF Callback
<1> QED
  BY <1>2, <1>3, <1>4 DEF Callback, TypeOK, Requests, Renames, Underway

\* Every step keeps the types.
LEMMA NextTypes == TypeOK /\ [Next]_vars => TypeOK'
<1> SUFFICES ASSUME TypeOK, [Next]_vars PROVE TypeOK'
  OBVIOUS
<1>0. patient' = patient
  BY SameUsers
<1> USE <1>0
<1>1. ASSUME NEW s \in FormScreens, OpenForm(s) PROVE TypeOK'
  <2>1. form' \in Texts
    BY <1>1 DEF OpenForm, Blank, Texts
  <2> QED
    BY <1>1, <2>1 DEF OpenForm, TypeOK, serverVars, queueVars, Underway
<1>2. CASE Dismiss
  <2>1. requests' \in Requests /\ Renames(requests')
    BY <1>2, QueueTypes, OrphanedFacts DEF Dismiss, Renames
  <2> QED
    BY <1>2, <2>1
    DEF Dismiss, TypeOK, serverVars, formVars, Requests, Renames, Underway
<1>3. CASE SignOut
  BY <1>3 DEF SignOut, TypeOK, serverVars, formVars, queueVars, Underway
<1>4. CASE Restart
  <2>1. /\ requests' \in Requests /\ Renames(requests') /\ due' \in Seq(Ids)
        /\ form' \in Texts /\ starts' \in 0..MaxStarts
    BY <1>4, BoundsAssumption
    DEF Restart, Requests, Renames, Blank, Texts, TypeOK
  <2> QED
    BY <1>4, <2>1
    DEF Restart, ShowFirst, TypeOK, serverVars, Requests, Renames, Underway
<1>5. CASE Edit
  <2>1. enabled' \in BOOLEAN
    BY <1>5 DEF Edit, Filled
  <2> QED
    BY <1>5, <2>1 DEF Edit, TypeOK, serverVars, queueVars, Underway
<1>6. CASE CheckInput
  <2>1. CASE Send
    <3>1. requests' \in Requests /\ Renames(requests') /\ submits' \in Ids
      BY <1>6, <2>1, NewRequest, QueueTypes
      DEF CheckInput, Touchable, Renames
    <3>2. submits' \in 0..MaxSubmits
      BY <3>1, BoundsAssumption DEF Ids
    <3> QED
      BY <1>6, <2>1, <3>1, <3>2
      DEF CheckInput, Send, TypeOK, serverVars, Requests, Renames, Underway
  <2>2. CASE Refuse
    BY <1>6, <2>2 DEF CheckInput, Refuse, TypeOK, serverVars, Underway
  <2> QED
    BY <1>6, <2>1, <2>2 DEF CheckInput
<1>7. CASE HideToast
  BY <1>7 DEF HideToast, TypeOK, serverVars, queueVars, Underway
<1>8. ASSUME NEW i \in Ids, Settle(i) PROVE TypeOK'
  <2> USE DEF Underway
  <2>1. requests[i] # None /\ requests[i] \in Request
    BY <1>8 DEF Settle, SettleLogin, SettleCreate, SettleRename, TypeOK
  <2>2. PICK phase \in {"ok", "failed", "renamed", "unnamed"} :
          Settled(i, phase)
    BY <1>8 DEF Settle, SettleLogin, SettleCreate, SettleRename
  <2>3. requests' \in Requests /\ Renames(requests') /\ due' \in Seq(Ids)
    BY <2>1, <2>2, SettledFacts, QueueTypes DEF Renames
  <2>4. /\ accounts' \subseteq Emails
        /\ names' \in [Emails -> Emails \cup {None}]
        /\ user' \in Emails \cup {None}
    BY <1>8, <2>1
    DEF Settle, SettleLogin, SettleCreate, SettleRename, TypeOK, Request
  <2> QED
    BY <2>2, <2>3, <2>4
    DEF Settled, TypeOK, formVars, Requests, Renames
<1>9. ASSUME NEW i \in Ids, Callback(i) PROVE TypeOK'
  BY <1>9, CallbackTypes
<1>10. CASE UNCHANGED vars
  BY <1>10
  DEF vars, serverVars, formVars, queueVars, TypeOK, Underway
<1> QED
  BY <1>1, <1>2, <1>3, <1>4, <1>5, <1>6, <1>7, <1>8, <1>9, <1>10 DEF Next

\* The variables have their types, for any addresses and bounds.
THEOREM TypeCorrect == Spec => []TypeOK
<1> QED
  BY InitTypes, NextTypes, PTL DEF Spec

-----------------------------------------------------------------------------
(* What holds whatever the users do.                                       *)

\* A request that is live was made by the form in front, and once it has
\* succeeded somebody is signed in.
LiveInFront ==
  \A i \in Ids : requests[i] # None /\ requests[i].live =>
    /\ screen \in FormScreens
    /\ requests[i].phase \notin {"sent", "failed"} => user # None

\* Behind an alert the button is enabled.
ToastEnables == screen \in FormScreens /\ toast => enabled

Inv == TypeOK /\ LiveInFront /\ ToastEnables /\ HomeHasUser /\ IdleIsReady


\* It holds at the start.
LEMMA InitInv == Init => Inv
<1> SUFFICES ASSUME Init PROVE Inv
  OBVIOUS
<1>1. LiveInFront
  BY DEF Init, LiveInFront
<1>2. ToastEnables /\ HomeHasUser /\ IdleIsReady
  BY DEF Init, ToastEnables, HomeHasUser, IdleIsReady, FormScreens
<1> QED
  BY <1>1, <1>2, InitTypes DEF Inv

\* A callback keeps it: the form in front is given back, or left for home with
\* somebody signed in.
LEMMA CallbackInv ==
  ASSUME Inv, TypeOK', NEW i \in Ids, Callback(i) PROVE Inv'
<1> DEFINE rest == [requests EXCEPT ![i] = None]
<1>1. TypeOK /\ requests[i] # None
  BY DEF Inv, Callback
<1>2. /\ rest \in Requests /\ rest[i] = None
      /\ \A j \in Ids : j # i => rest[j] = requests[j]
  BY <1>1, DoneFacts
<1> HIDE DEF rest
<1>3. UNCHANGED user
  BY DEF Callback
<1>4. CASE GoHome(i) /\ requests[i].phase \notin {"sent", "failed"}
  <2>1. CASE requests[i].live /\ ~toast
    <3>1. screen' = "home" /\ user # None
      BY <1>1, <1>4, <2>1 DEF GoHome, Inv, LiveInFront
    <3>2. \A j \in Ids : requests'[j] # None => ~requests'[j].live
      BY <1>2, <1>4, <2>1, OrphanedFacts DEF GoHome, rest
    <3>3. LiveInFront'
      BY <3>2 DEF LiveInFront
    <3>4. ToastEnables' /\ HomeHasUser' /\ IdleIsReady'
      BY <3>1, <1>3 DEF ToastEnables, HomeHasUser, IdleIsReady, FormScreens
    <3> QED
      BY <3>3, <3>4 DEF Inv
  <2>2. CASE ~(requests[i].live /\ ~toast)
    <3>1. requests' = rest /\ UNCHANGED <<screen, form, enabled, toast>>
      BY <1>4, <2>2 DEF GoHome, Done, formVars, rest
    <3>2. LiveInFront'
      BY <1>2, <1>3, <3>1 DEF Inv, LiveInFront
    <3>3. ToastEnables' /\ HomeHasUser'
      BY <1>3, <3>1 DEF Inv, ToastEnables, HomeHasUser
    <3>4. IdleIsReady'
      BY <1>2, <2>2, <3>1
      DEF Inv, IdleIsReady, ToastEnables, Waiting, Filled
    <3> QED
      BY <3>2, <3>3, <3>4 DEF Inv
  <2> QED
    BY <2>1, <2>2
<1>5. CASE Rename(i) /\ requests[i].phase = "ok"
  <2>1. UNCHANGED <<screen, form, enabled, toast>>
    BY <1>5 DEF Rename, formVars
  <2>2. CASE user = None
    <3>1. requests' = rest
      BY <1>5, <2>2 DEF Rename, Done, rest
    <3>2. ~requests[i].live
      BY <1>1, <1>5, <2>2 DEF Inv, LiveInFront
    <3>3. LiveInFront'
      BY <1>2, <1>3, <2>1, <3>1 DEF Inv, LiveInFront
    <3>4. ToastEnables' /\ HomeHasUser'
      BY <1>3, <2>1 DEF Inv, ToastEnables, HomeHasUser
    <3>5. IdleIsReady'
      BY <1>2, <2>1, <3>1, <3>2 DEF Inv, IdleIsReady, Waiting, Filled
    <3> QED
      BY <3>3, <3>4, <3>5 DEF Inv
  <2>3. CASE user # None
    <3>1. /\ requests'[i] # None /\ requests'[i].live = requests[i].live
          /\ \A j \in Ids : j # i => requests'[j] = requests[j]
      BY <1>1, <1>5, <2>3, RenameFacts
    <3>2. LiveInFront'
      BY <1>1, <1>3, <2>1, <2>3, <3>1 DEF Inv, LiveInFront
    <3>3. ToastEnables' /\ HomeHasUser'
      BY <1>3, <2>1 DEF Inv, ToastEnables, HomeHasUser
    <3>4. IdleIsReady'
      BY <1>1, <2>1, <3>1 DEF Inv, IdleIsReady, Waiting, Filled
    <3> QED
      BY <3>2, <3>3, <3>4 DEF Inv
  <2> QED
    BY <2>2, <2>3
<1>6. ASSUME NEW alert \in BOOLEAN, FallBack(i, alert) PROVE Inv'
  <2>1. /\ requests' = rest /\ UNCHANGED <<screen, form>>
        /\ enabled' = (enabled \/ requests[i].live)
        /\ toast' = (toast \/ (alert /\ requests[i].live))
    BY <1>6 DEF FallBack, Done, rest
  <2>2. LiveInFront'
    BY <1>2, <1>3, <2>1 DEF Inv, LiveInFront
  <2>3. ToastEnables' /\ HomeHasUser'
    BY <1>3, <2>1 DEF Inv, ToastEnables, HomeHasUser
  <2>4. IdleIsReady'
    BY <1>2, <2>1 DEF Inv, IdleIsReady, Waiting, Filled
  <2> QED
    BY <2>2, <2>3, <2>4 DEF Inv
<1>7. (requests[i].kind = "login") \in BOOLEAN
  OBVIOUS
<1> QED
  BY <1>4, <1>5, <1>6, <1>7 DEF Callback, Underway

\* Every step keeps it.
LEMMA NextInv == Inv /\ [Next]_vars => Inv'
<1> SUFFICES ASSUME Inv, [Next]_vars PROVE Inv'
  OBVIOUS
<1>0. TypeOK /\ TypeOK'
  BY NextTypes DEF Inv
<1> USE DEF Inv
<1>1. ASSUME NEW s \in FormScreens, OpenForm(s) PROVE Inv'
  <2>1. /\ screen = "menu" /\ screen' = s
        /\ form'.email = None /\ toast' = FALSE
        /\ UNCHANGED <<user, requests>>
    BY <1>1 DEF OpenForm, queueVars, Blank
  <2>2. LiveInFront'
    BY <2>1 DEF LiveInFront, FormScreens
  <2>3. ToastEnables' /\ HomeHasUser' /\ IdleIsReady'
    BY <2>1
    DEF ToastEnables, HomeHasUser, IdleIsReady, Filled, FormScreens
  <2> QED
    BY <1>0, <2>2, <2>3
<1>2. CASE Dismiss
  <2>1. \A j \in Ids : requests'[j] # None => ~requests'[j].live
    BY <1>0, <1>2, QueueTypes, OrphanedFacts DEF Dismiss
  <2>2. LiveInFront'
    BY <2>1 DEF LiveInFront
  <2>3. ToastEnables' /\ HomeHasUser' /\ IdleIsReady'
    BY <1>2
    DEF Dismiss, ToastEnables, HomeHasUser, IdleIsReady, FormScreens
  <2> QED
    BY <1>0, <2>2, <2>3
<1>3. CASE SignOut
  <2>1. screen = "home" /\ screen' = "menu" /\ UNCHANGED requests
    BY <1>3 DEF SignOut, queueVars
  <2>2. LiveInFront'
    BY <2>1 DEF LiveInFront, FormScreens
  <2>3. ToastEnables' /\ HomeHasUser' /\ IdleIsReady'
    BY <2>1 DEF ToastEnables, HomeHasUser, IdleIsReady, FormScreens
  <2> QED
    BY <1>0, <2>2, <2>3
<1>4. CASE Restart
  <2>1. /\ screen' = "menu" \/ (screen' = "home" /\ user' # None)
        /\ \A j \in Ids : requests'[j] = None
    BY <1>4 DEF Restart, ShowFirst
  <2>2. LiveInFront'
    BY <2>1 DEF LiveInFront
  <2>3. ToastEnables' /\ HomeHasUser' /\ IdleIsReady'
    BY <2>1 DEF ToastEnables, HomeHasUser, IdleIsReady, FormScreens
  <2> QED
    BY <1>0, <2>2, <2>3
<1>5. CASE Edit
  <2>1. /\ ~toast /\ enabled' = Filled'
        /\ UNCHANGED <<user, screen, toast, requests>>
    BY <1>5 DEF Edit, Touchable, queueVars
  <2>2. LiveInFront'
    BY <2>1 DEF LiveInFront
  <2>3. ToastEnables' /\ HomeHasUser' /\ IdleIsReady'
    BY <2>1 DEF ToastEnables, HomeHasUser, IdleIsReady
  <2> QED
    BY <1>0, <2>2, <2>3
<1>6. CASE CheckInput
  <2>1. ~toast /\ screen \in FormScreens /\ UNCHANGED <<user, screen, form>>
    BY <1>6 DEF CheckInput, Touchable
  <2>2. CASE Send
    <3>1. /\ submits' \in Ids /\ UNCHANGED toast
          /\ requests'[submits'] # None /\ requests'[submits'].live
          /\ requests'[submits'].phase = "sent"
          /\ \A j \in Ids : j # submits' => requests'[j] = requests[j]
      BY <1>0, <2>1, <2>2, NewRequest DEF Send
    <3>2. LiveInFront'
      BY <2>1, <3>1 DEF LiveInFront
    <3>3. ToastEnables' /\ HomeHasUser'
      BY <2>1, <3>1 DEF ToastEnables, HomeHasUser
    <3>4. submits' \in Waiting'
      BY <3>1 DEF Waiting
    <3> QED
      BY <1>0, <3>2, <3>3, <3>4 DEF IdleIsReady
  <2>3. CASE Refuse
    <3>1. enabled' = TRUE /\ UNCHANGED requests
      BY <2>3 DEF Refuse
    <3>2. LiveInFront'
      BY <2>1, <3>1 DEF LiveInFront
    <3> QED
      BY <1>0, <2>1, <3>1, <3>2 DEF ToastEnables, HomeHasUser, IdleIsReady
  <2> QED
    BY <1>6, <2>2, <2>3 DEF CheckInput
<1>7. CASE HideToast
  <2>1. toast' = FALSE /\ UNCHANGED <<user, screen, form, enabled, requests>>
    BY <1>7 DEF HideToast, queueVars
  <2>2. LiveInFront'
    BY <2>1 DEF LiveInFront
  <2>3. IdleIsReady'
    BY <2>1 DEF IdleIsReady, Waiting, Filled
  <2> QED
    BY <1>0, <2>1, <2>2, <2>3 DEF ToastEnables, HomeHasUser
<1>8. ASSUME NEW i \in Ids, Settle(i) PROVE Inv'
  <2>1. requests[i] # None
    BY <1>8 DEF Settle, SettleLogin, SettleCreate, SettleRename, Underway
  <2>2. PICK phase \in {"ok", "failed", "renamed", "unnamed"} :
          /\ Settled(i, phase)
          /\ \/ phase = "ok" /\ user' # None
             \/ phase = "failed" /\ UNCHANGED user
             \/ requests[i].phase = "renaming" /\ UNCHANGED user
    <3>1. requests[i].email # None
      BY <1>0, <2>1, EmailsAssumption DEF TypeOK, Request
    <3> QED
      BY <1>8, <3>1
      DEF Settle, SettleLogin, SettleCreate, SettleRename, Underway
  <2>3. /\ requests'[i] # None /\ requests'[i].phase = phase
        /\ requests'[i].live = requests[i].live
        /\ \A j \in Ids : j # i => requests'[j] = requests[j]
        /\ UNCHANGED <<screen, form, enabled, toast>>
    BY <1>0, <2>1, <2>2, SettledFacts DEF Settled, formVars
  <2>4. user # None => user' # None
    BY <2>2
  <2>5. LiveInFront'
    BY <2>1, <2>2, <2>3, <2>4 DEF LiveInFront
  <2>6. ToastEnables' /\ HomeHasUser'
    BY <2>3, <2>4 DEF ToastEnables, HomeHasUser
  <2>7. IdleIsReady'
    BY <2>1, <2>3 DEF IdleIsReady, Waiting, Filled
  <2> QED
    BY <1>0, <2>5, <2>6, <2>7
<1>9. ASSUME NEW i \in Ids, Callback(i) PROVE Inv'
  BY <1>0, <1>9, CallbackInv
<1>10. CASE UNCHANGED vars
  <2>1. UNCHANGED <<user, screen, form, enabled, toast, requests>>
    BY <1>10 DEF vars, formVars, queueVars
  <2>2. LiveInFront' /\ ToastEnables' /\ HomeHasUser'
    BY <2>1 DEF LiveInFront, ToastEnables, HomeHasUser
  <2>3. IdleIsReady'
    BY <2>1 DEF IdleIsReady, Waiting, Filled
  <2> QED
    BY <1>0, <2>2, <2>3
<1> QED
  BY <1>1, <1>2, <1>3, <1>4, <1>5, <1>6, <1>7, <1>8, <1>9, <1>10 DEF Next

LEMMA InvAlways == Spec => []Inv
<1> QED
  BY InitInv, NextInv, PTL DEF Spec

\* The home screen is in front only while somebody is signed in.
THEOREM NobodyAtHomeUnsigned == Spec => []HomeHasUser
<1>1. Inv => HomeHasUser
  BY DEF Inv
<1> QED
  BY <1>1, InvAlways, PTL

\* A filled form that waits for nothing can be submitted.
THEOREM FormsComeBack == Spec => []IdleIsReady
<1>1. Inv => IdleIsReady
  BY DEF Inv
<1> QED
  BY <1>1, InvAlways, PTL

-----------------------------------------------------------------------------
(* What holds while the users are patient.                                 *)

\* With patient users there is one request, of a form whose button is off.
OneRequest ==
  \A i \in Ids : requests[i] # None =>
    /\ requests[i].live /\ ~enabled
    /\ \A j \in Ids : requests[j] # None => j = i

\* A new account is the current one until its form has an answer.
NewIsCurrent ==
  \A i \in Ids :
    requests[i] # None /\ requests[i].phase \notin {"sent", "failed"} =>
      /\ user = requests[i].email /\ user \in accounts
      /\ requests[i].phase \in {"renaming", "renamed", "unnamed"} =>
           requests[i].kind = "signup" /\ requests[i].renames = user
      /\ requests[i].kind = "signup" => <<"users", user>> \notin records
      /\ requests[i].phase = "renamed" => names[user] = user

\* Whoever is signed in with a record, away from home, is on the way there.
OnTheWay ==
  screen # "home" /\ user # None /\ <<"users", user>> \in records =>
    \E i \in Ids : Underway(i, "ok") /\ requests[i].kind = "login"

PatientInv ==
  /\ patient
  /\ Inv /\ OneRequest /\ NewIsCurrent /\ OnTheWay /\ HomeIsOwn /\ RecordsAreNamed

Empty == \A i \in Ids : requests[i] = None

\* Who may touch a form has no request under way; nor is there any behind the
\* home screen or the menu.
LEMMA CalmIsEmpty ==
  ASSUME PatientInv, enabled \/ Calm \/ screen \notin FormScreens
  PROVE  Empty
BY DEF PatientInv, Inv, OneRequest, LiveInFront, Calm, Waiting, Empty

\* With no request before and after a step that signs nobody in and writes no
\* record, the invariant is kept.
LEMMA EmptyStep ==
  ASSUME PatientInv, Inv', patient' = patient, Empty, Empty',
         UNCHANGED <<accounts, names, records>>,
         screen' = "home" => owner' = user',
         user' # None => user' = user /\ (screen' # "home" => screen # "home")
  PROVE  PatientInv'
<1>1. OneRequest' /\ NewIsCurrent'
  BY DEF OneRequest, NewIsCurrent, Empty
<1>2. OnTheWay'
  BY DEF PatientInv, OnTheWay, Empty, Underway
<1>3. HomeIsOwn' /\ RecordsAreNamed'
  BY DEF PatientInv, HomeIsOwn, RecordsAreNamed
<1> QED
  BY <1>1, <1>2, <1>3 DEF PatientInv

\* An answer of Auth keeps it.
LEMMA SettlePatient ==
  ASSUME PatientInv, Inv', patient' = patient, NEW i \in Ids, Settle(i)
  PROVE  PatientInv'
<1>1. /\ requests[i] # None /\ requests[i].live /\ ~enabled
      /\ requests[i] \in Request /\ TypeOK
      /\ \A j \in Ids : requests[j] # None => j = i
  BY DEF Settle, SettleLogin, SettleCreate, SettleRename, Underway,
         PatientInv, OneRequest, Inv, TypeOK
<1>2. screen \in FormScreens
  BY <1>1 DEF PatientInv, Inv, LiveInFront
<1>3. PICK phase \in {"ok", "failed", "renamed", "unnamed"} :
        /\ Settled(i, phase)
        /\ \/ /\ phase = "ok" /\ requests[i].kind = "login"
              /\ user' = requests[i].email /\ user' \in accounts
              /\ UNCHANGED <<accounts, names>>
           \/ /\ phase = "ok" /\ requests[i].kind = "signup"
              /\ user' = requests[i].email /\ user' \notin accounts
              /\ accounts' = accounts \cup {user'} /\ UNCHANGED names
           \/ /\ phase = "failed" /\ requests[i].phase = "sent"
              /\ accounts \subseteq accounts' /\ UNCHANGED <<user, names>>
           \/ /\ phase \in {"renamed", "unnamed"}
              /\ requests[i].phase = "renaming"
              /\ \/ UNCHANGED names /\ phase = "unnamed"
                 \/ names' = [names EXCEPT ![requests[i].renames] =
                                             requests[i].email]
              /\ UNCHANGED <<accounts, user>>
  BY DEF Settle, SettleLogin, SettleCreate, SettleRename, Underway
<1>4. /\ requests'[i] # None /\ requests'[i].phase = phase
      /\ requests'[i].live = requests[i].live
      /\ requests'[i].kind = requests[i].kind
      /\ requests'[i].email = requests[i].email
      /\ requests'[i].renames = requests[i].renames
      /\ \A j \in Ids : j # i => requests'[j] = requests[j]
      /\ UNCHANGED <<records, screen, enabled>>
  BY <1>1, <1>3, SettledFacts DEF Settled, formVars
<1>5. requests[i].email \in Emails /\ names \in [Emails -> Emails \cup {None}]
  BY <1>1 DEF Request, TypeOK
<1>6. OneRequest'
  BY <1>1, <1>4 DEF OneRequest
<1>7. HomeIsOwn'
  BY <1>2, <1>4 DEF HomeIsOwn, FormScreens
<1>8. \A e \in Emails : <<"users", e>> \in records => e \in accounts /\ names[e] = e
  BY DEF PatientInv, RecordsAreNamed
<1>9. requests[i].phase = "renaming" =>
        /\ user = requests[i].email /\ user \in accounts
        /\ requests[i].kind = "signup" /\ requests[i].renames = user
        /\ <<"users", user>> \notin records
  BY <1>1 DEF PatientInv, NewIsCurrent
<1>10. RecordsAreNamed'
  BY <1>3, <1>4, <1>5, <1>8, <1>9 DEF RecordsAreNamed
<1>11. NewIsCurrent'
  <2> SUFFICES /\ phase # "failed" =>
                    /\ user' = requests'[i].email /\ user' \in accounts'
                    /\ phase \in {"renamed", "unnamed"} =>
                         /\ requests'[i].kind = "signup"
                         /\ requests'[i].renames = user'
                    /\ requests'[i].kind = "signup" =>
                         <<"users", user'>> \notin records'
                    /\ phase = "renamed" => names'[user'] = user'
    BY <1>1, <1>4 DEF NewIsCurrent
  <2> QED
    BY <1>3, <1>4, <1>5, <1>8, <1>9
<1>12. OnTheWay'
  <2> SUFFICES ASSUME user' # None, <<"users", user'>> \in records'
               PROVE  phase = "ok" /\ requests'[i].kind = "login"
    BY <1>4 DEF OnTheWay, Underway
  <2>1. ~(requests[i].phase = "sent" /\ UNCHANGED user)
    BY <1>1, <1>2, <1>4 DEF PatientInv, OnTheWay, Underway, FormScreens
  <2> QED
    BY <1>3, <1>4, <1>5, <1>8, <1>9, <2>1
<1> QED
  BY <1>6, <1>7, <1>10, <1>11, <1>12 DEF PatientInv

\* A callback keeps it.
LEMMA CallbackPatient ==
  ASSUME PatientInv, Inv', patient' = patient, NEW i \in Ids, Callback(i)
  PROVE  PatientInv'
<1> DEFINE rest == [requests EXCEPT ![i] = None]
<1>1. /\ requests[i] # None /\ requests[i].live /\ ~enabled
      /\ requests[i] \in Request /\ TypeOK
      /\ \A j \in Ids : requests[j] # None => j = i
  BY DEF Callback, PatientInv, OneRequest, Inv, TypeOK
<1>2. screen \in FormScreens /\ ~toast
  BY <1>1 DEF PatientInv, Inv, LiveInFront, ToastEnables
<1>3. UNCHANGED <<accounts, names, user>>
  BY DEF Callback
<1>4. rest \in Requests /\ \A j \in Ids : rest[j] = None
  BY <1>1, DoneFacts
<1> HIDE DEF rest
<1>5. CASE GoHome(i) /\ requests[i].phase \in {"ok", "renamed"} /\ Record(i)
  <2>1. screen' = "home" /\ owner' = user
    BY <1>1, <1>2, <1>5 DEF GoHome
  <2>2. \A j \in Ids : requests'[j] = None
    <3>1. requests' = Orphaned(rest)
      BY <1>1, <1>2, <1>5 DEF GoHome, rest
    <3> QED
      BY <1>4, <3>1, OrphanedFacts
  <2>3. OneRequest' /\ NewIsCurrent'
    BY <2>2 DEF OneRequest, NewIsCurrent
  <2>4. OnTheWay' /\ HomeIsOwn'
    BY <1>3, <2>1 DEF OnTheWay, HomeIsOwn
  <2>5. RecordsAreNamed'
    <3>1. requests[i].phase = "renamed" =>
            requests[i].email \in accounts
            /\ names[requests[i].email] = requests[i].email
      BY <1>1 DEF PatientInv, NewIsCurrent
    <3> QED
      BY <1>3, <1>5, <3>1 DEF PatientInv, RecordsAreNamed, Record
  <2> QED
    BY <2>3, <2>4, <2>5 DEF PatientInv
<1>6. CASE /\ Rename(i) /\ Record(i)
           /\ requests[i].phase = "ok" /\ requests[i].kind = "signup"
  <2>1. user # None /\ user = requests[i].email /\ user \in accounts
        /\ <<"users", user>> \notin records
    BY <1>1, <1>6, EmailsAssumption
    DEF PatientInv, NewIsCurrent, Request
  <2>2. /\ requests'[i] # None /\ requests'[i].phase = "renaming"
        /\ requests'[i].renames = user /\ requests'[i].live
        /\ requests'[i].kind = "signup"
        /\ requests'[i].email = requests[i].email
        /\ \A j \in Ids : j # i => requests'[j] = requests[j]
    BY <1>1, <1>6, <2>1, RenameFacts
  <2>3. UNCHANGED <<records, screen, owner, enabled>>
    BY <1>6 DEF Rename, Record, formVars
  <2>4. OneRequest'
    BY <1>1, <2>2, <2>3 DEF OneRequest
  <2>5. NewIsCurrent'
    BY <1>1, <1>3, <2>1, <2>2, <2>3 DEF NewIsCurrent
  <2>6. OnTheWay' /\ HomeIsOwn' /\ RecordsAreNamed'
    BY <1>3, <2>1, <2>3
    DEF PatientInv, OnTheWay, HomeIsOwn, RecordsAreNamed
  <2> QED
    BY <2>4, <2>5, <2>6 DEF PatientInv
<1>7. ASSUME NEW alert, FallBack(i, alert), Record(i),
             requests[i].phase \in {"failed", "unnamed"}
      PROVE  PatientInv'
  <2>1. requests' = rest /\ UNCHANGED <<records, screen, owner>>
    BY <1>7 DEF FallBack, Done, Record, rest
  <2>2. OneRequest' /\ NewIsCurrent'
    BY <1>4, <2>1 DEF OneRequest, NewIsCurrent
  <2>3. ~(user # None /\ <<"users", user>> \in records)
    <3>1. CASE requests[i].phase = "failed"
      BY <1>1, <1>2, <3>1 DEF PatientInv, OnTheWay, Underway, FormScreens
    <3>2. CASE requests[i].phase = "unnamed"
      BY <1>1, <3>2 DEF PatientInv, NewIsCurrent
    <3> QED
      BY <1>7, <3>1, <3>2
  <2>4. OnTheWay' /\ HomeIsOwn' /\ RecordsAreNamed'
    BY <1>3, <2>1, <2>3
    DEF PatientInv, OnTheWay, HomeIsOwn, RecordsAreNamed
  <2> QED
    BY <2>2, <2>4 DEF PatientInv
<1> QED
  BY <1>5, <1>6, <1>7 DEF Callback, Underway

\* It holds at the start.
LEMMA InitPatient == Init /\ patient => PatientInv
<1> SUFFICES ASSUME Init, patient PROVE PatientInv
  OBVIOUS
<1>1. OneRequest /\ NewIsCurrent /\ OnTheWay /\ HomeIsOwn
  BY DEF Init, OneRequest, NewIsCurrent, OnTheWay, HomeIsOwn
<1>2. RecordsAreNamed
  BY DEF Init, RecordsAreNamed
<1> QED
  BY <1>1, <1>2, InitInv DEF PatientInv

\* Every step of patient users keeps it.
LEMMA NextPatient == PatientInv /\ [Next]_vars => PatientInv'
<1> SUFFICES ASSUME PatientInv, [Next]_vars PROVE PatientInv'
  OBVIOUS
<1>0. Inv /\ Inv' /\ TypeOK /\ patient' = patient
  BY NextInv, SameUsers DEF PatientInv, Inv
<1>1. ASSUME NEW s \in FormScreens, OpenForm(s) PROVE PatientInv'
  <2>1. Empty
    BY <1>1, CalmIsEmpty DEF OpenForm, FormScreens
  <2> QED
    BY <1>0, <1>1, <2>1, EmptyStep
    DEF OpenForm, serverVars, queueVars, Empty, FormScreens
<1>2. CASE Dismiss
  <2>1. Empty
    BY <1>2, CalmIsEmpty DEF Dismiss
  <2>2. Empty'
    BY <1>0, <1>2, <2>1, QueueTypes, OrphanedFacts DEF Dismiss, Empty
  <2> QED
    BY <1>0, <1>2, <2>1, <2>2, EmptyStep
    DEF Dismiss, Touchable, serverVars, FormScreens
<1>3. CASE SignOut
  <2>1. Empty
    BY <1>3, CalmIsEmpty DEF SignOut, FormScreens
  <2> QED
    BY <1>0, <1>3, <2>1, EmptyStep DEF SignOut, serverVars, queueVars, Empty
<1>4. CASE Restart
  <2>1. OneRequest' /\ NewIsCurrent'
    BY <1>4 DEF Restart, OneRequest, NewIsCurrent
  <2>2. OnTheWay' /\ HomeIsOwn'
    BY <1>4 DEF Restart, ShowFirst, OnTheWay, HomeIsOwn
  <2>3. RecordsAreNamed'
    BY <1>4 DEF Restart, serverVars, PatientInv, RecordsAreNamed
  <2> QED
    BY <1>0, <2>1, <2>2, <2>3 DEF PatientInv
<1>5. CASE Edit
  <2>1. Empty
    BY <1>5, CalmIsEmpty DEF Edit
  <2> QED
    BY <1>0, <1>5, <2>1, EmptyStep
    DEF Edit, Touchable, serverVars, queueVars, Empty, FormScreens
<1>6. CASE CheckInput
  <2>1. Empty /\ screen \in FormScreens
    BY <1>6, CalmIsEmpty DEF CheckInput, Touchable
  <2>2. UNCHANGED <<accounts, names, records, user, screen, owner>>
    BY <1>6 DEF CheckInput, serverVars
  <2>3. CASE Refuse
    BY <1>0, <2>1, <2>2, <2>3, EmptyStep DEF Refuse, Empty, FormScreens
  <2>4. CASE Send
    <3>1. /\ submits' \in Ids /\ enabled' = FALSE
          /\ requests'[submits'].live /\ requests'[submits'].phase = "sent"
          /\ \A j \in Ids : j # submits' => requests'[j] = None
      BY <1>0, <2>1, <2>4, NewRequest DEF Send, Empty
    <3>2. OneRequest'
      BY <3>1 DEF OneRequest
    <3>3. NewIsCurrent'
      BY <3>1 DEF NewIsCurrent
    <3>4. OnTheWay'
      BY <2>1, <2>2 DEF PatientInv, OnTheWay, Empty, Underway
    <3>5. HomeIsOwn' /\ RecordsAreNamed'
      BY <2>2 DEF PatientInv, HomeIsOwn, RecordsAreNamed
    <3> QED
      BY <1>0, <3>2, <3>3, <3>4, <3>5 DEF PatientInv
  <2> QED
    BY <1>6, <2>3, <2>4 DEF CheckInput
<1>7. CASE HideToast \/ UNCHANGED vars
  <2>1. UNCHANGED <<accounts, names, records, user, screen, owner, enabled,
                    requests>>
    BY <1>7 DEF HideToast, vars, serverVars, formVars, queueVars
  <2>2. OneRequest' /\ HomeIsOwn' /\ RecordsAreNamed'
    BY <2>1 DEF PatientInv, OneRequest, HomeIsOwn, RecordsAreNamed
  <2>3. NewIsCurrent'
    BY <2>1 DEF PatientInv, NewIsCurrent
  <2>4. OnTheWay'
    BY <2>1 DEF PatientInv, OnTheWay, Underway
  <2> QED
    BY <1>0, <2>2, <2>3, <2>4 DEF PatientInv
<1>8. ASSUME NEW i \in Ids, Settle(i) PROVE PatientInv'
  BY <1>0, <1>8, SettlePatient
<1>9. ASSUME NEW i \in Ids, Callback(i) PROVE PatientInv'
  BY <1>0, <1>9, CallbackPatient
<1> QED
  BY <1>1, <1>2, <1>3, <1>4, <1>5, <1>6, <1>7, <1>8, <1>9 DEF Next

LEMMA PatientAlways == Spec => [](patient => PatientInv)
<1>1. Init => (patient => PatientInv)
  BY InitPatient
<1>2. (patient => PatientInv) /\ [Next]_vars => (patient => PatientInv)'
  BY NextPatient, SameUsers
<1> QED
  BY <1>1, <1>2, PTL DEF Spec

\* With patient users the home screen is that of the user who is signed in.
THEOREM HomeStaysOwn == Spec => []HomeIsOwn
<1>1. (patient => PatientInv) => HomeIsOwn
  BY DEF PatientInv, HomeIsOwn
<1> QED
  BY <1>1, PatientAlways, PTL

\* With patient users only a half-made account is signed in at the menu.
THEOREM MenuAfterHalf == Spec => []MenuMeansHalfMade
<1>1. (patient => PatientInv) => MenuMeansHalfMade
  <2> SUFFICES ASSUME PatientInv, screen = "menu", user # None
               PROVE  <<"users", user>> \notin records
    BY DEF MenuMeansHalfMade
  <2>1. \A i \in Ids : requests[i] = None
    BY DEF PatientInv, OneRequest, Inv, LiveInFront, FormScreens
  <2> QED
    BY <2>1 DEF PatientInv, OnTheWay, Underway
<1> QED
  BY <1>1, PatientAlways, PTL

\* With patient users a record is written after the display name is saved.
THEOREM RecordsFollowNames == Spec => []RecordsAreNamed
<1>1. (patient => PatientInv) => RecordsAreNamed
  BY DEF PatientInv, RecordsAreNamed
<1> QED
  BY <1>1, PatientAlways, PTL
=============================================================================
