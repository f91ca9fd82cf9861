-------------------------- MODULE ProfileInterests --------------------------
(***************************************************************************)
(* The interests of the signed-in user on the profile screen               *)
(* (ProfileViewController): read once when the screen is loaded, then      *)
(* added and removed on the screen and, child by child under the index     *)
(* they have on the screen, in the database.                               *)
(*                                                                         *)
(* Nothing waits for these writes: the client shows them at once, the      *)
(* server executes them in their order and answers, after a lost           *)
(* connection the client sends those without an answer again, and they die *)
(* with the app.  The user edits the interests on one device.              *)
(***************************************************************************)
EXTENDS ListNode

CONSTANTS
  Interests,  \* what a user may type
  Gone,       \* nil, the value that removes a child
  AtStart,    \* the interests stored at the start
  MaxEdits,   \* bound: interests added or removed
  MaxLoads,   \* bound: times the screen is made anew
  MaxLosses   \* bound: lost connections and refused writes

ASSUME StartAssumption == AtStart \in Seq(Interests)
ASSUME GoneAssumption == Gone \notin Interests

VARIABLES
  server,   \* the list in the database
  writes,   \* the client's writes without an answer, each [key, value]
  executed, \* how many of them the server executed over this connection
  reached,  \* how many of them it executed over this or an earlier one
  node,     \* the list as the client shows it
  rows,     \* ProfileViewController.interests
  reading,  \* the screen's read: "open", "served" or "done"
  read,     \* the snapshot it was served with
  slip,     \* history: something that may part the rows from the list
  budget    \* what is left of the bounds

clientVars == <<server, writes, executed, reached>>
screenVars == <<rows, reading, read>>
vars       == <<clientVars, node, screenVars, slip, budget>>

-----------------------------------------------------------------------------
\* Operators whose comment begins with "Mutant" are no part of the model: each
\* is what a plausible mistake would make of the definition that follows it.

Spend(b) == budget[b] > 0 /\ budget' = [budget EXCEPT ![b] = @ - 1]

Write(k, x) == [key |-> k, value |-> x]

\* The node after a write, and after all the given ones.
Put(n, w) ==
  IF w.value = Gone THEN WithoutChild(n, w.key) ELSE WithChild(n, w.key, w.value)
Applied(n, ws) ==
  LET f[i \in 0..Len(ws)] == IF i = 0 THEN n ELSE Put(f[i - 1], ws[i])
  IN  f[Len(ws)]

\* setValue: the write shows at once and waits for its answer.
SetValue(w) ==
  /\ node' = Put(node, w)
  /\ writes' = Append(writes, w)
  /\ UNCHANGED <<server, executed, reached>>

Init ==
  /\ server = AsNode(AtStart) /\ node = server
  /\ writes = <<>> /\ executed = 0 /\ reached = 0
  /\ rows = <<>> /\ reading = "open" /\ read = <<>>
  /\ slip = FALSE
  /\ budget = [edits |-> MaxEdits, loads |-> MaxLoads, losses |-> MaxLosses]

-----------------------------------------------------------------------------
(* The screen.                                                             *)

\* The client serves the read of fetchInterests with what it shows.
Serve ==
  /\ reading = "open"
  /\ reading' = "served" /\ read' = node
  /\ UNCHANGED <<clientVars, node, rows, slip, budget>>

\* Its block appends the children in their order to whatever is shown.
Load ==
  /\ reading = "served"
  /\ reading' = "done"
  /\ rows' = rows \o Children(read)
  /\ UNCHANGED <<clientVars, node, read, slip, budget>>

\* Mutant: the index of an interest is counted from one.
AddFromOne(x) ==
  /\ Spend("edits")
  /\ rows' = Append(rows, x)
  /\ SetValue(Write(Len(rows'), x))
  /\ slip' = (slip \/ reading # "done")
  /\ UNCHANGED <<reading, read>>

\* addInterest: the child written has the index of the new row.
Add(x) ==
  /\ Spend("edits")
  /\ rows' = Append(rows, x)
  /\ SetValue(Write(Len(rows') - 1, x))
  /\ slip' = (slip \/ reading # "done")
  /\ UNCHANGED <<reading, read>>

\* removeInterest: the first row with that interest and the child of its index.
Remove(i) ==
  /\ Spend("edits")
  /\ LET index == First(rows, rows[i])
     IN  /\ rows' = Drop(rows, index)
         /\ SetValue(Write(index - 1, Gone))
         /\ slip' = (slip \/ reading # "done" \/ index # Len(rows))
  /\ UNCHANGED <<reading, read>>

\* The screen is made anew, by logging in again.
Reopen ==
  /\ Spend("loads")
  /\ rows' = <<>> /\ reading' = "open" /\ read' = <<>>
  /\ UNCHANGED <<clientVars, node, slip>>

\* The app is started again: the writes without an answer are lost, those the
\* server was about to repeat as well.
Restart ==
  /\ Spend("loads")
  /\ node' = server
  /\ writes' = <<>> /\ executed' = 0 /\ reached' = 0
  /\ rows' = <<>> /\ reading' = "open" /\ read' = <<>>
  /\ slip' = (slip \/ executed < reached)
  /\ UNCHANGED server

-----------------------------------------------------------------------------
(* The client and the server.                                              *)

Execute ==
  /\ executed < Len(writes)
  /\ server' = Put(server, writes[executed + 1])
  /\ executed' = executed + 1
  /\ reached' = IF executed < reached THEN reached ELSE executed + 1
  /\ UNCHANGED <<writes, node, screenVars, slip, budget>>

Answer ==
  /\ executed > 0
  /\ writes' = Tail(writes) /\ executed' = executed - 1 /\ reached' = reached - 1
  /\ UNCHANGED <<server, node, screenVars, slip, budget>>

\* The server refuses a write: the client takes it back, setValue has no block
\* that would tell the screen (ProfileViewController.swift:99, 114).
Refuse ==
  /\ executed = 0 /\ writes # <<>>
  /\ Spend("losses")
  /\ writes' = Tail(writes) /\ reached' = IF reached = 0 THEN 0 ELSE reached - 1
  /\ node' = Applied(server, writes')
  /\ slip' = TRUE
  /\ UNCHANGED <<server, executed, screenVars>>

\* The connection is lost and made again: the writes without an answer are sent
\* once more, but not the oldest ones whose answer was held back (held), which
\* the client goes on showing (FirebasePath).
Lose ==
  /\ Spend("losses")
  /\ \E held \in 0..executed : executed' = held
  /\ UNCHANGED <<server, writes, reached, node, screenVars, slip>>

-----------------------------------------------------------------------------
Next ==
  \/ Serve
  \/ Load
  \/ \E x \in Interests : Add(x)
  \/ \E i \in DOMAIN rows : Remove(i)
  \/ Reopen
  \/ Restart
  \/ Execute
  \/ Answer
  \/ Refuse
  \/ Lose

Spec == Init /\ [][Next]_vars

-----------------------------------------------------------------------------
(* Properties.                                                             *)

\* The rows are the list the client shows, in its order, over any edits, lost
\* connections, logins and restarts, and what the server would give a restarted
\* app is a list without a hole.  Only four things part them: an edit before the
\* list is loaded, the removal of a row that is not the last, a refused write,
\* and a restart while the server repeats writes
\* (ProfileViewController.swift:88-116).
RowsAreTheList ==
  ~slip =>
    /\ reading = "done" => node = AsNode(rows)
    /\ executed = reached => ~HasHole(server)
=============================================================================
