----------------------------- MODULE UsersPage -----------------------------
(***************************************************************************)
(* The page of the administrators (pages/admin/users-page.tsx) with its    *)
(* filters, its pagination and its dialogs (features/users/components),    *)
(* the cached lists it shows and the changes it sends.                     *)
(*                                                                         *)
(* The page runs its callbacks one at a time. A list or a change that was  *)
(* sent is answered at any later time or fails, whether the page is still  *)
(* there or not. A list is known by how many pages it has; "filter" stands *)
(* for the role, the status and the page size, which behave alike.         *)
(***************************************************************************)
EXTENDS Naturals

CONSTANTS
    Searches,     \* contents of the search box
    NoSearch,     \* the empty box
    Filters,      \* choices of role, status and page size
    NoFilter,     \* the choices the page starts with
    MaxPages,     \* bound: pages of a list
    Slots,        \* changes that can be on their way at once
    MaxInputs,    \* bound: clicks and texts of the user
    None

ASSUME PageAssumption ==
    /\ NoSearch \in Searches
    /\ NoFilter \in Filters
    /\ {MaxPages, MaxInputs} \subseteq Nat \ {0}
    /\ None \notin Nat

VARIABLES
    ui,           \* the state of UsersPage
    dialog,       \* the open dialog and its form
    last,         \* the last key the page had data for
    cache,        \* the lists in the query cache
    sent,         \* the changes on their way
    inputs        \* inputs so far

vars == <<ui, dialog, last, cache, sent, inputs>>
-----------------------------------------------------------------------------
(***************************************************************************)
(* The lists. 0 pages stands for an empty list, which the server also      *)
(* gives for a page it has not, if nobody matches at all.                  *)
(***************************************************************************)
Lists == 0..MaxPages

Query == INSTANCE QueryCache WITH Answers <- Lists

\* The parameters of useUsersList, the query key.
Keys == [search : Searches, filter : Filters, page : 1..MaxPages]

\* "input" is the box, "search" what the debounced value has got to.
Ui == [mounted : BOOLEAN, input : Searches, search : Searches,
       filter : Filters, page : 1..MaxPages]

Start == [mounted |-> TRUE, input |-> NoSearch, search |-> NoSearch,
          filter |-> NoFilter, page |-> 1]

Key(u) == [search |-> u.search, filter |-> u.filter, page |-> u.page]

\* The list on the screen: that of the current parameters, or the last one
\* as a placeholder until the first fetch of the current one has ended.
Shown ==
    IF Query!Has(cache[Key(ui)]) THEN Key(ui)
    ELSE IF cache[Key(ui)].error THEN None ELSE last

\* The table and the pagination are there.
HasRows == ui.mounted /\ Shown # None /\ cache[Shown].data # 0
-----------------------------------------------------------------------------
(***************************************************************************)
(* The dialogs. "ready": the form can be submitted (valid, and for an edit *)
(* changed). "note": what it says of the last attempt.                     *)
(***************************************************************************)
Kinds == {"create", "edit", "delete", "reset"}

Dialog == [kind : Kinds \cup {"none"}, ready : BOOLEAN, note : SUBSET {"alert", "field"}]

NoDialog == [kind |-> "none", ready |-> FALSE, note |-> {}]

Change == [kind : Kinds, mine : BOOLEAN, stage : {"idle", "sent"}]

Idle == [kind |-> "create", mine |-> FALSE, stage |-> "idle"]

\* isSubmitting of the open dialog.
Pending == \E s \in Slots : sent[s].stage = "sent" /\ sent[s].mine

Init ==
    /\ ui = [Start EXCEPT !.mounted = FALSE]
    /\ dialog = NoDialog
    /\ last = None
    /\ cache = [k \in Keys |-> Query!Empty]
    /\ sent = [s \in Slots |-> Idle]
    /\ inputs = 0
-----------------------------------------------------------------------------
(***************************************************************************)
(* The parameters.                                                         *)
(***************************************************************************)
Input == inputs < MaxInputs /\ inputs' = inputs + 1

\* Mutant: the list is fetched when the page is entered, and only then.
RenderOnce(u) ==
    LET k == Key(u)
        shown == IF ~ui.mounted THEN [cache EXCEPT ![k] = Query!Observed(@)] ELSE cache
    IN  /\ ui' = u
        /\ cache' = shown
        /\ last' = IF Query!Has(shown[k]) THEN k ELSE last

\* useUsersList, whenever the page renders with other parameters.
Render(u) ==
    LET k == Key(u)
        shown == IF ~ui.mounted \/ k # Key(ui)
                 THEN [cache EXCEPT ![k] = Query!Observed(@)] ELSE cache
    IN  /\ ui' = u
        /\ cache' = shown
        /\ last' = IF Query!Has(shown[k]) THEN k ELSE last

Enter ==
    /\ ~ui.mounted
    /\ Input
    /\ Render(Start)
    /\ UNCHANGED <<dialog, sent>>

\* Another route is entered. The answers of what was sent find no page.
Leave ==
    /\ ui.mounted
    /\ ui' = [Start EXCEPT !.mounted = FALSE]
    /\ dialog' = NoDialog
    /\ last' = None
    /\ sent' = [s \in Slots |-> [sent[s] EXCEPT !.mine = FALSE]]
    /\ UNCHANGED <<cache, inputs>>

\* While a dialog is open the page behind it takes no input.
Usable == ui.mounted /\ dialog.kind = "none"

handleSearchChange(value) ==
    /\ Usable /\ Input
    /\ Render([ui EXCEPT !.input = value, !.page = 1])
    /\ UNCHANGED <<dialog, sent>>

\* useDebounce: the timer, which each change of the box starts again.
Debounce ==
    /\ ui.mounted /\ ui.search # ui.input
    /\ Render([ui EXCEPT !.search = ui.input])
    /\ UNCHANGED <<dialog, sent, inputs>>

\* handleRoleChange, handleIsActiveChange, handleSizeChange (the last one is
\* below the table).
handleFilterChange(value) ==
    /\ Usable /\ Input
    /\ Render([ui EXCEPT !.filter = value, !.page = 1])
    /\ UNCHANGED <<dialog, sent>>

\* Previous and Next: by the list on the screen, a placeholder or not.
setPage(page) ==
    /\ Usable /\ HasRows /\ Input
    /\ \/ page = Shown.page - 1 /\ Shown.page > 1
       \/ page = Shown.page + 1 /\ Shown.page < cache[Shown].data
    /\ Render([ui EXCEPT !.page = page])
    /\ UNCHANGED <<dialog, sent>>
-----------------------------------------------------------------------------
(***************************************************************************)
(* The four dialogs: the fields of the form, what it sends, how the names  *)
(* of what it sends are mapped back to fields, whether it can be submitted *)
(* as it opens, and whether success invalidates the lists. The entered     *)
(* values matter as far as the schema accepts them.                        *)
(***************************************************************************)
CreateUserDialog ==
    [fields |-> {"username", "password", "role"},
     payload |-> {"username", "password", "role"},
     fieldMap |-> <<>>, ready |-> FALSE, invalidates |-> TRUE]

\* Not submitted unchanged; all three fields are sent if one was changed.
EditUserDialog ==
    [fields |-> {"username", "role", "is_active"},
     payload |-> {"username", "role", "is_active"},
     fieldMap |-> <<>>, ready |-> FALSE, invalidates |-> TRUE]

DeleteUserDialog ==
    [fields |-> {}, payload |-> {}, fieldMap |-> <<>>, ready |-> TRUE,
     invalidates |-> TRUE]

ResetPasswordDialog ==
    [fields |-> {"oldPassword", "newPassword", "confirmPassword"},
     payload |-> {"old_password", "new_password"},
     fieldMap |-> [old_password |-> "oldPassword", new_password |-> "newPassword"],
     ready |-> FALSE, invalidates |-> FALSE]

Form(kind) ==
    CASE kind = "create" -> CreateUserDialog
      [] kind = "edit" -> EditUserDialog
      [] kind = "delete" -> DeleteUserDialog
      [] kind = "reset" -> ResetPasswordDialog

\* What the server's 422 can complain of: the payload and the path.
Complaints(kind) == Form(kind).payload \cup {"user_id"}

\* Mutant: a complaint about no field of the form is set on the form all the
\* same, where nobody sees it.
LosesComplaint(kind, complaints) ==
    {"field" : f \in (complaints \cap Form(kind).fields)}

\* handleFormError: a field of the form gets its message, all else an alert.
handleFormError(kind, complaints) ==
    LET map == Form(kind).fieldMap
        named == {IF c \in DOMAIN map THEN map[c] ELSE c : c \in complaints}
    IN  {"alert" : f \in (named \ Form(kind).fields)}
            \cup {"field" : f \in (named \cap Form(kind).fields)}

\* The button "Create user", and the menu of a row that is not one's own.
Open(kind) ==
    /\ Usable
    /\ kind # "create" => HasRows
    /\ dialog' = [NoDialog EXCEPT !.kind = kind, !.ready = Form(kind).ready]
    /\ UNCHANGED <<ui, last, cache, sent, inputs>>

\* The user changes the form; the schema judges it, and a complaint about
\* the field that was changed goes.
Fill ==
    /\ dialog.kind # "none" /\ Form(dialog.kind).fields # {}
    /\ \E ready \in BOOLEAN, gone \in SUBSET {"field"} :
          dialog' = [dialog EXCEPT !.ready = ready, !.note = @ \ gone]
    /\ UNCHANGED <<ui, last, cache, sent, inputs>>

\* Mutant: a dialog can be closed while its change is on its way.
ClosableAlways == dialog.kind # "none"

\* onOpenChange and the button "Cancel".
Closable == dialog.kind # "none" /\ ~Pending

Close ==
    /\ Closable
    /\ dialog' = NoDialog
    /\ UNCHANGED <<ui, last, cache, sent, inputs>>

\* onSubmit.
Submit(s) ==
    /\ dialog.kind # "none" /\ dialog.ready /\ ~Pending
    /\ sent[s].stage = "idle"
    /\ Input
    /\ sent' = [sent EXCEPT ![s] = [kind |-> dialog.kind, mine |-> TRUE, stage |-> "sent"]]
    /\ dialog' = [dialog EXCEPT !.note = {}]
    /\ UNCHANGED <<ui, last, cache>>
-----------------------------------------------------------------------------
(***************************************************************************)
(* The answers.                                                            *)
(***************************************************************************)
\* Mutant: the query key of one page is given, not its prefix.
InvalidateShown ==
    [k \in Keys |->
        IF ui.mounted /\ k = Key(ui) THEN Query!Refetched(cache[k])
        ELSE [Query!Invalidated(cache[k]) EXCEPT !.stale = cache[k].stale]]

\* invalidateQueries(["users-list"]): every variant, the observed one at once.
Invalidate ==
    [k \in Keys |-> IF ui.mounted /\ k = Key(ui) THEN Query!Refetched(cache[k])
                    ELSE Query!Invalidated(cache[k])]

\* onSuccess. closeDialog belongs to the page that sent the change and
\* closes whatever dialog that page has open.
Succeed(s) ==
    /\ sent[s].stage = "sent"
    /\ cache' = IF Form(sent[s].kind).invalidates THEN Invalidate ELSE cache
    /\ dialog' = IF sent[s].mine THEN NoDialog ELSE dialog
    /\ sent' = [sent EXCEPT ![s] = Idle]
    /\ UNCHANGED <<ui, last, inputs>>

\* onError: a 422, which complains of something, or any other failure. A
\* form with a complaint at a field is not valid until that is changed.
Refuse(s) ==
    /\ sent[s].stage = "sent"
    /\ \E complaints \in SUBSET Complaints(sent[s].kind) :
          LET note == IF complaints = {} THEN {"alert"}
                      ELSE handleFormError(sent[s].kind, complaints)
          IN  dialog' = IF ~sent[s].mine THEN dialog
                        ELSE [dialog EXCEPT !.note = note,
                                            !.ready = @ /\ "field" \notin note]
    /\ sent' = [sent EXCEPT ![s] = Idle]
    /\ UNCHANGED <<ui, last, cache, inputs>>

\* The profile page, another route, renames its user and invalidates too; the
\* answer may come when this page is on the screen already.
RenamedElsewhere ==
    /\ Input
    /\ cache' = Invalidate
    /\ UNCHANGED <<ui, dialog, last, sent>>

\* GET /users: a page beyond the last one of a list that is not empty is
\* refused.
AnswerList(k) ==
    /\ Query!Fetching(cache[k])
    /\ \E pages \in Lists :
          cache' = [cache EXCEPT ![k] =
                      IF pages = 0 \/ k.page <= pages THEN Query!Answered(@, pages)
                      ELSE Query!Failed(@)]
    /\ last' = IF ui.mounted /\ k = Key(ui) /\ Query!Has(cache'[k]) THEN k ELSE last
    /\ UNCHANGED <<ui, dialog, sent, inputs>>

FailList(k) ==
    /\ Query!Fetching(cache[k])
    /\ cache' = [cache EXCEPT ![k] = Query!Failed(@)]
    /\ UNCHANGED <<ui, dialog, last, sent, inputs>>

\* staleTime is over.
Age(k) ==
    /\ Query!Has(cache[k]) /\ ~cache[k].stale
    /\ cache' = [cache EXCEPT ![k].stale = TRUE]
    /\ UNCHANGED <<ui, dialog, last, sent, inputs>>

\* queryClient.clear() at the end of the session; the page goes with it.
Clear ==
    /\ ~ui.mounted
    /\ cache' = [k \in Keys |-> Query!Empty]
    /\ UNCHANGED <<ui, dialog, last, sent, inputs>>

Next ==
    \/ Enter \/ Leave \/ Debounce \/ Fill \/ Close \/ RenamedElsewhere \/ Clear
    \/ \E value \in Searches : handleSearchChange(value)
    \/ \E value \in Filters : handleFilterChange(value)
    \/ \E page \in 1..MaxPages : setPage(page)
    \/ \E kind \in Kinds : Open(kind)
    \/ \E s \in Slots : Submit(s) \/ Succeed(s) \/ Refuse(s)
    \/ \E k \in Keys : AnswerList(k) \/ FailList(k) \/ Age(k)

Spec == Init /\ [][Next]_vars

\* Timers fire, and every list that was asked for is answered or fails.
FairSpec ==
    /\ Spec
    /\ WF_vars(Debounce)
    /\ \A k \in Keys : WF_vars(AnswerList(k) \/ FailList(k))
-----------------------------------------------------------------------------
TypeOK ==
    /\ ui \in Ui
    /\ dialog \in Dialog
    /\ last \in Keys \cup {None}
    /\ cache \in [Keys -> Query!Entry]
    /\ sent \in [Slots -> Change]
    /\ inputs \in 0..MaxInputs

(***************************************************************************)
(* No list that was answered before the client knew of its own last change *)
(* passes for up to date: it is marked stale, and fetched when it is shown.*)
(* Lists that were on their way at that moment are excepted: the library   *)
(* takes them for fresh.                                                   *)
(***************************************************************************)
ChangesSeen ==
    \A k \in Keys :
        LET e == cache[k]
        IN  /\ Query!Has(e) /\ e.since = "before" => e.stale
            /\ ui.mounted /\ k = Key(ui) /\ e.since = "before"
                   => Query!Fetching(e) \/ e.error \/ ~Query!Has(e)

(***************************************************************************)
(* What a page has sent, and whose answer will close the dialog it finds,  *)
(* was sent by the dialog that is open: nobody's half-filled form is       *)
(* closed by the answer to another one.                                    *)
(***************************************************************************)
AnswerFindsItsDialog ==
    \A s \in Slots :
        sent[s].stage = "sent" /\ sent[s].mine => dialog.kind = sent[s].kind

(***************************************************************************)
(* A change that is answered while its form is there closes it or leaves a *)
(* message: no refusal, whatever fields it complains of, goes unexplained. *)
(***************************************************************************)
TellsWhy ==
    [][\A s \in Slots :
          sent[s].stage = "sent" /\ sent[s].mine /\ sent'[s].stage = "idle"
              => dialog'.kind = "none" \/ dialog'.note # {}]_vars

(***************************************************************************)
(* The page comes to rest on the list that its box and its filters name,   *)
(* or on an error, however the texts, clicks and answers overlapped.       *)
(***************************************************************************)
ListFollowsBox ==
    []<>(ui.mounted => /\ ui.search = ui.input
                       /\ ~Query!Fetching(cache[Key(ui)])
                       /\ Shown = Key(ui) \/ cache[Key(ui)].error)
=============================================================================
