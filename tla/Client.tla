------------------------------- MODULE Client -------------------------------
(***************************************************************************)
(* The screens of the web client: its pages with their dialogs             *)
(* (ClientScreens over the shapes of ClientPages) and its forms of several *)
(* steps (ClientForms).  One page is mounted at a time and shares no state *)
(* of its components with another, so a behaviour follows one of them.     *)
(***************************************************************************)
EXTENDS ClientPages, ClientScreens, ClientForms

VARIABLE follows   \* the page, the wizard or the bulk operation

clientVars == <<screenVars, formVars, follows>>

Init ==
  /\ ScrInit
  /\ FormInit
  /\ follows \in {"page", "wizard", "bulk"}
  /\ follows # "page" => shape = CHOOSE s \in Shapes : TRUE   \* of no matter

Next ==
  /\ UNCHANGED follows
  /\ \/ follows = "page" /\ ScrNext /\ UNCHANGED formVars
     \/ follows = "wizard" /\ WizardNext /\ UNCHANGED screenVars
     \/ follows = "bulk" /\ BulkNext /\ UNCHANGED screenVars

\* The server answers the queries and the answers arrive, or their time runs
\* out; nothing is assumed of the person.
Spec ==
  /\ Init /\ [][Next]_clientVars
  /\ WF_clientVars(follows = "page" /\ ServerReads /\ UNCHANGED <<formVars, follows>>)
  /\ WF_clientVars(follows = "page" /\ Deliver /\ UNCHANGED <<formVars, follows>>)

ClientTypeOK == ScrTypeOK /\ FormTypeOK

\* A page does not stay with a spinner, or without a write its query was told
\* of: in the end it shows what was written or an error, or it is left.  Not
\* so the pairs of Missed.
PagesSettle ==
  (follows = "page" /\ view = "here" /\ ~shape.missed
     /\ (entry.seen = NoData \/ entry.seen < told))
    ~> (view # "here" \/ entry.failed \/ (entry.seen # NoData /\ entry.seen >= told))
=============================================================================
