--------------------------- MODULE ScopedRefresh ---------------------------
(***************************************************************************)
(* What runScopedRefresh (web/static/app.js) promises of one list of the   *)
(* web interface: the list is fetched for the server that is selected, one *)
(* request at a time, and once nothing is under way the rows on the screen *)
(* are those of the selected server.                                       *)
(***************************************************************************)
CONSTANTS Servers, None

VARIABLES
    selected,    \* the server that is selected, or None
    shown,       \* the list is on the screen
    request,     \* the server of the request under way, or None
    from         \* the server the rows came from, or None without rows

vars == <<selected, shown, request, from>>

Scopes == Servers \cup {None}

Init == selected \in Scopes /\ shown = FALSE /\ request = None /\ from = None

(* A refresh is asked for: dropped when one is under way; without a server  *)
(* the list is emptied.                                                     *)
Ask ==
    /\ request' = IF request = None THEN selected' ELSE request
    /\ selected' = None /\ request = None => from' = None

(* Another server is selected, or none; the rows may go at once. *)
Select ==
    /\ selected' # selected /\ selected' \in Scopes
    /\ from' \in {from, None}
    /\ IF shown THEN Ask ELSE UNCHANGED request
    /\ UNCHANGED shown

(* The list comes to the screen. *)
Show ==
    /\ ~shown /\ shown' = TRUE /\ Ask
    /\ from' \in {from, None} /\ UNCHANGED selected

(* It leaves the screen; the request may be aborted with it, which starts   *)
(* another one when it was for another server.                              *)
Hide ==
    /\ shown /\ shown' = FALSE
    /\ request' \in {request, None, selected}
    /\ from' \in {from, None} /\ UNCHANGED selected

(* A refresh by an interval, a button or an action. *)
Refresh ==
    /\ request = None /\ selected' = selected /\ Ask
    /\ from' \in {from, None} /\ UNCHANGED shown

(* The answer for the selected server is shown; an error or an empty list   *)
(* leaves no rows.                                                          *)
Answer ==
    /\ request # None /\ request = selected /\ request' = None
    /\ from' \in {selected, None}
    /\ UNCHANGED <<selected, shown>>

(* The answer for another server is dropped, and another request follows.   *)
Outdated ==
    /\ request # None /\ request # selected /\ request' = selected
    /\ from' = IF selected = None THEN None ELSE from
    /\ UNCHANGED <<selected, shown>>

(* Off the screen the request may be aborted at any time, which ends it as  *)
(* an answer does.                                                          *)
Abort ==
    /\ ~shown /\ request # None /\ request' \in {None, selected}
    /\ from' \in {from, None}
    /\ UNCHANGED <<selected, shown>>

Next == Select \/ Show \/ Hide \/ Refresh \/ Answer \/ Outdated \/ Abort

Spec == Init /\ [][Next]_vars

-----------------------------------------------------------------------------
TypeOK == selected \in Scopes /\ shown \in BOOLEAN /\ request \in Scopes /\ from \in Scopes

(* As soon as nothing is under way, the rows on the screen are those of the *)
(* selected server.                                                         *)
Settled == shown /\ request = None /\ from # None => from = selected

=============================================================================
