---------------------------- MODULE ClientScreens ----------------------------
(***************************************************************************)
(* A page of the web client that shows a query and offers a dialog, with   *)
(* the cache entry of the query between them (hooks/ and pages/ of         *)
(* src/frontend/src, @tanstack/react-query 5).                             *)
(*                                                                         *)
(* A behaviour follows one entry and one dialog of one page, of which it   *)
(* knows the shape (ClientPages).  The records behind the query are a      *)
(* version number that each write through the dialog raises by one.        *)
(* Requests are answered late, fail or lose their answer; the person turns *)
(* the page or the filters, leaves and comes back, closes the dialog under *)
(* a running request (Escape and the backdrop are never disabled) and      *)
(* submits again.  The retries of a query are part of its one request.     *)
(***************************************************************************)
EXTENDS Integers

CONSTANTS
  Shapes,     \* the shapes of page, query, dialog and mutation
  Calls,      \* mutations under way at once
  MaxWrites   \* bound: writes through the dialog

Shape ==
  [hides : SUBSET {"loading", "error"}, turns : BOOLEAN,
   clears : BOOLEAN, missed : BOOLEAN,
   lives : {"page", "kept", "open"}, guard : {"request", "local", "none"},
   after : {"callback", "await", "nothing"},
   closes : {"success", "settled", "later", "never"}, leaves : BOOLEAN]

ASSUME ScreenAssumption ==
  /\ MaxWrites \in Nat
  /\ Shapes \subseteq Shape

VARIABLES
  shape,   \* what is followed
  view,    \* "here": the entry is on screen; "turned": the page shows another
           \* one (other filters, another step); "away": another page
  opened,  \* the dialog is open (a state of the page)
  locked,  \* the dialog's own "processing" state
  calls,   \* calls[c]: a mutation
  db,      \* version of the records
  told,    \* highest version written by a mutation whose success the entry
           \* was told of
  entry,   \* the cache entry
  fetch    \* its request

screenVars == <<shape, view, opened, locked, calls, db, told, entry, fetch>>

NoData == -1
Empty == [seen |-> NoData, marked |-> FALSE, failed |-> FALSE]
NoFetch == [state |-> "none", snap |-> 0]
Asking == [state |-> "asked", snap |-> 0]

\* A mutation: "sent", then "applied" by the server as version; mine tells
\* that the component that sent it is still mounted and has sent none since.
NoCall == [state |-> "idle", version |-> 0, mine |-> FALSE]

ScrTypeOK ==
  /\ shape \in Shapes
  /\ view \in {"here", "turned", "away"}
  /\ opened \in BOOLEAN
  /\ locked \in BOOLEAN
  /\ calls \in [Calls -> [state : {"idle", "sent", "applied"},
                          version : 0..db, mine : BOOLEAN]]
  /\ db \in 0..MaxWrites
  /\ told \in 0..db
  /\ entry \in [seen : NoData..db, marked : BOOLEAN, failed : BOOLEAN]
  /\ fetch \in [state : {"none", "asked", "read"}, snap : 0..db]
  /\ view = "away" => ~opened

ScrInit ==
  /\ shape \in Shapes
  /\ view = "here"
  /\ opened = FALSE
  /\ locked = FALSE
  /\ calls = [c \in Calls |-> NoCall]
  /\ db = 0
  /\ told = 0
  /\ entry = Empty
  /\ fetch = Asking

-----------------------------------------------------------------------------
(* Components. *)

\* An early return replaces the page.
Hidden(v, e) ==
  /\ v = "here"
  /\ \/ "loading" \in shape.hides /\ e.seen = NoData /\ ~e.failed
     \/ "error" \in shape.hides /\ e.failed

\* The component that holds the mutation is mounted.
Mounted(v, e, o) ==
  /\ v # "away"
  /\ shape.lives = "kept" => ~Hidden(v, e)
  /\ shape.lives = "open" => o /\ ~Hidden(v, e)

Orphaned(cs) == [c \in Calls |-> [cs[c] EXCEPT !.mine = FALSE]]

\* The step leaves the mutations cs; those of a component it unmounts go on
\* without it.
Remount(cs, lock) ==
  /\ calls' = IF Mounted(view', entry', opened') THEN cs ELSE Orphaned(cs)
  /\ locked' = (lock /\ Mounted(view', entry', opened'))

\* A dialog is shown if it is open, a button always.
Shown == (opened \/ shape.closes = "never") /\ view # "away" /\ ~Hidden(view, entry)

Pending == \E c \in Calls : calls[c].mine
Disabled ==
  \/ shape.guard = "request" /\ Pending
  \/ shape.guard = "local" /\ locked

-----------------------------------------------------------------------------
(* The cache entry. *)

Started(e) == [e EXCEPT !.failed = e.failed /\ e.seen # NoData]

\* A request starts unless one is under way.
Ask ==
  IF fetch.state = "none"
    THEN fetch' = Asking /\ entry' = Started(entry)
    ELSE UNCHANGED <<fetch, entry>>

\* The component of the query is mounted again: without data, or marked, the
\* entry is asked for; otherwise only if it is stale by its age.
Arrive ==
  /\ view # "here"
  /\ view' = "here"
  /\ \/ Ask
     \/ entry.seen # NoData /\ ~entry.marked /\ UNCHANGED <<fetch, entry>>
  /\ UNCHANGED <<shape, opened, db, told>>
  /\ Remount(calls, locked)

\* Other filters, another page of the list, another step of the dialog; the
\* page may be replaced while that loads.
Turn ==
  /\ view = "here"
  /\ shape.turns
  /\ view' = "turned"
  /\ \/ calls' = calls /\ locked' = locked
     \/ /\ shape.hides # {} /\ shape.lives # "page"
        /\ calls' = Orphaned(calls) /\ locked' = FALSE
  /\ UNCHANGED <<shape, opened, db, told, entry, fetch>>

\* Faulty: the dialog stays open when its page is left.
Leave_Open ==
  /\ view # "away"
  /\ view' = "away"
  /\ UNCHANGED <<shape, opened, db, told, entry, fetch>>
  /\ Remount(calls, locked)

Leave ==
  /\ view # "away"
  /\ view' = "away"
  /\ opened' = FALSE
  /\ UNCHANGED <<shape, db, told, entry, fetch>>
  /\ Remount(calls, locked)

\* An unused entry is collected.
Collect ==
  /\ view # "here"
  /\ fetch.state = "none"
  /\ entry # Empty
  /\ entry' = Empty
  /\ UNCHANGED <<shape, view, opened, locked, calls, db, told, fetch>>

\* The Retry button, the network coming back, an interval.
Refetch ==
  /\ view = "here"
  /\ fetch.state = "none"
  /\ Ask
  /\ UNCHANGED <<shape, view, opened, db, told>>
  /\ Remount(calls, locked)

ServerReads ==
  /\ fetch.state = "asked"
  /\ fetch' = [state |-> "read", snap |-> db]
  /\ UNCHANGED <<shape, view, opened, locked, calls, db, told, entry>>

FetchSucceeds ==
  /\ fetch.state = "read"
  /\ fetch' = NoFetch
  /\ entry' = [seen |-> fetch.snap, marked |-> FALSE, failed |-> FALSE]
  /\ UNCHANGED <<shape, view, opened, db, told>>
  /\ Remount(calls, locked)

FetchFails ==
  /\ fetch.state # "none"
  /\ fetch' = NoFetch
  /\ entry' = [entry EXCEPT !.failed = TRUE]
  /\ UNCHANGED <<shape, view, opened, db, told>>
  /\ Remount(calls, locked)

\* Faulty: the request under way is waited for.
Invalidate_Joins ==
  IF ~shape.clears THEN UNCHANGED <<entry, fetch>>
  ELSE IF view = "here" /\ fetch.state = "none"
         THEN entry' = Started([entry EXCEPT !.marked = TRUE]) /\ fetch' = Asking
         ELSE entry' = [entry EXCEPT !.marked = TRUE] /\ UNCHANGED fetch

\* invalidateQueries: the entry is marked; on screen it is asked for again,
\* a request under way being dropped if there are data to show meanwhile.
Invalidate ==
  IF ~shape.clears THEN UNCHANGED <<entry, fetch>>
  ELSE LET marked == [entry EXCEPT !.marked = TRUE]
           again == \/ view = "here" /\ entry.seen # NoData
                    \/ view = "here" /\ fetch.state = "none"
       IN IF again THEN entry' = Started(marked) /\ fetch' = Asking
                   ELSE entry' = marked /\ UNCHANGED fetch

-----------------------------------------------------------------------------
(* The dialog. *)

Open ==
  /\ view # "away"
  /\ ~Hidden(view, entry)
  /\ ~opened
  /\ shape.closes # "never"
  /\ opened' = TRUE
  /\ UNCHANGED <<shape, view, db, told, entry, fetch>>
  /\ Remount(calls, FALSE)

\* Escape, the backdrop or Cancel.
Close ==
  /\ opened
  /\ Shown
  /\ opened' = FALSE
  /\ UNCHANGED <<shape, view, db, told, entry, fetch>>
  /\ Remount(calls, FALSE)

Submit(c) ==
  /\ Shown
  /\ ~Disabled
  /\ calls[c].state = "idle"
  /\ calls' = [Orphaned(calls) EXCEPT ![c] = [state |-> "sent", version |-> 0, mine |-> TRUE]]
  /\ locked' = (shape.guard = "local")
  /\ UNCHANGED <<shape, view, opened, db, told, entry, fetch>>

ServerApplies(c) ==
  /\ calls[c].state = "sent"
  /\ db < MaxWrites
  /\ db' = db + 1
  /\ calls' = [calls EXCEPT ![c].state = "applied", ![c].version = db + 1]
  /\ UNCHANGED <<shape, view, opened, locked, told, entry, fetch>>

\* The code after a success, or a failure, is reached.
GoesOn(c) == shape.after = "await" \/ (shape.after = "callback" /\ calls[c].mine)

\* The success reaches the hook, whose onSuccess invalidates, mounted or not;
\* then the dialog.
Success(c) ==
  /\ calls[c].state = "applied"
  /\ Invalidate
  /\ told' = IF calls[c].version > told
                  /\ (fetch.state = "none" \/ (view = "here" /\ entry.seen # NoData))
               THEN calls[c].version ELSE told
  /\ LET leaves == shape.leaves /\ GoesOn(c)
         closes == shape.closes \in {"success", "settled"} /\ GoesOn(c)
     IN /\ view' = IF leaves THEN "away" ELSE view
        /\ opened' = (opened /\ ~closes /\ ~leaves)
        /\ UNCHANGED <<shape, db>>
  /\ Remount([calls EXCEPT ![c] = NoCall], locked /\ ~calls[c].mine)

\* The server refuses, or the connection fails before or after it has
\* written: nothing is invalidated.
Failure(c) ==
  /\ calls[c].state # "idle"
  /\ opened' = (opened /\ ~(shape.closes = "settled" /\ GoesOn(c)))
  /\ UNCHANGED <<shape, view, db, told, entry, fetch>>
  /\ Remount([calls EXCEPT ![c] = NoCall], locked /\ ~calls[c].mine)

-----------------------------------------------------------------------------
Deliver == FetchSucceeds \/ FetchFails

ScrNext ==
  \/ Arrive \/ Turn \/ Leave \/ Collect \/ Refetch
  \/ ServerReads \/ Deliver
  \/ Open \/ Close
  \/ \E c \in Calls : Submit(c) \/ ServerApplies(c) \/ Success(c) \/ Failure(c)

-----------------------------------------------------------------------------
(* Properties. *)

\* An entry that is not marked for another request shows every write whose
\* success it was told of, however its requests were overtaken: a request
\* that read before the write cannot take the mark away.
FreshHasOwnWrites ==
  shape.clears /\ entry.seen # NoData /\ ~entry.marked => entry.seen >= told
=============================================================================
