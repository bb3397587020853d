-------------------------- MODULE UsersPageProofs --------------------------
(***************************************************************************)
(* Proofs about UsersPage, for any searches, filters, numbers of pages and *)
(* of changes on their way.                                                *)
(*                                                                         *)
(* The invariant has a half for the lists and one for the dialogs. A list  *)
(* is sound when one from before the last change is marked stale, and      *)
(* nothing on its way passes for such a list; the list on the screen is    *)
(* attended to, too. Of the changes on their way one at most is the        *)
(* page's, and its dialog is open.                                         *)
(***************************************************************************)
EXTENDS UsersPage, TLAPS

Sound(e) ==
    /\ e.request # "before"
    /\ Query!Has(e) /\ e.since = "before" => e.stale

Attended(e) ==
    e.since = "before" => Query!Fetching(e) \/ e.error \/ ~Query!Has(e)

ListsInv ==
    /\ ui \in Ui
    /\ last \in Keys \cup {None}
    /\ cache \in [Keys -> Query!Entry]
    /\ \A k \in Keys : Sound(cache[k])
    /\ ui.mounted => Attended(cache[Key(ui)])

OneOfPage ==
    \A r, s \in Slots :
        /\ sent[r].stage = "sent" /\ sent[r].mine
        /\ sent[s].stage = "sent" /\ sent[s].mine
        => r = s

DialogsInv ==
    /\ dialog \in Dialog
    /\ sent \in [Slots -> Change]
    /\ AnswerFindsItsDialog
    /\ OneOfPage

IInv == ListsInv /\ DialogsInv /\ inputs \in 0..MaxInputs
-----------------------------------------------------------------------------
(***************************************************************************)
(* Entries of the cache.                                                   *)
(***************************************************************************)
LEMMA EmptySound ==
    Query!Empty \in Query!Entry /\ Sound(Query!Empty) /\ Attended(Query!Empty)
BY DEF Query!Empty, Query!Entry, Query!Since, Query!Has, Sound, Attended

LEMMA FetchSound ==
    ASSUME NEW e \in Query!Entry, Sound(e)
    PROVE  /\ Query!Fetch(e) \in Query!Entry
           /\ Sound(Query!Fetch(e)) /\ Attended(Query!Fetch(e))
<1>1. Query!Fetch(e) \in Query!Entry
  BY DEF Query!Fetch, Query!Entry, Query!Since
<1>2. /\ Query!Fetch(e).request = "after" /\ Query!Fetch(e).data = e.data
      /\ Query!Fetch(e).since = e.since /\ Query!Fetch(e).stale = e.stale
  BY DEF Query!Fetch, Query!Entry
<1>3. QED
  BY <1>1, <1>2 DEF Sound, Attended, Query!Has, Query!Fetching

LEMMA ObservedSound ==
    ASSUME NEW e \in Query!Entry, Sound(e)
    PROVE  /\ Query!Observed(e) \in Query!Entry
           /\ Sound(Query!Observed(e)) /\ Attended(Query!Observed(e))
<1>1. CASE ~Query!Fetching(e) /\ (~Query!Has(e) \/ e.stale)
  BY <1>1, FetchSound DEF Query!Observed
<1>2. CASE Query!Fetching(e) \/ (Query!Has(e) /\ ~e.stale)
  BY <1>2 DEF Query!Observed, Sound, Attended
<1>3. QED
  BY <1>1, <1>2

LEMMA InvalidatedSound ==
    ASSUME NEW e \in Query!Entry
    PROVE  /\ Query!Invalidated(e) \in Query!Entry
           /\ Sound(Query!Invalidated(e))
<1>1. Query!Invalidated(e) \in Query!Entry
  BY DEF Query!Invalidated, Query!Entry, Query!Since, Query!Has
<1>2. /\ Query!Invalidated(e).request # "before"
      /\ Query!Invalidated(e).data = e.data
      /\ Query!Invalidated(e).stale = Query!Has(e)
  BY DEF Query!Invalidated, Query!Entry
<1>3. QED
  BY <1>1, <1>2 DEF Sound, Query!Has

LEMMA RefetchedSound ==
    ASSUME NEW e \in Query!Entry
    PROVE  /\ Query!Refetched(e) \in Query!Entry
           /\ Sound(Query!Refetched(e)) /\ Attended(Query!Refetched(e))
<1>1. CASE Query!Fetching(e) /\ ~Query!Has(e)
  <2>1. Query!Invalidated(e).request = "during"
    BY <1>1 DEF Query!Invalidated, Query!Entry
  <2>2. QED
    BY <1>1, <2>1, InvalidatedSound DEF Query!Refetched, Attended, Query!Fetching
<1>2. CASE ~(Query!Fetching(e) /\ ~Query!Has(e))
  BY <1>2, InvalidatedSound, FetchSound DEF Query!Refetched
<1>3. QED
  BY <1>1, <1>2

LEMMA AnsweredSound ==
    ASSUME NEW e \in Query!Entry, Sound(e), Query!Fetching(e), NEW pages \in Lists
    PROVE  /\ Query!Answered(e, pages) \in Query!Entry
           /\ Sound(Query!Answered(e, pages)) /\ Attended(Query!Answered(e, pages))
BY DEF Query!Answered, Query!Entry, Query!Since, Query!Fetching, Sound, Attended

LEMMA FailedSound ==
    ASSUME NEW e \in Query!Entry, Sound(e)
    PROVE  /\ Query!Failed(e) \in Query!Entry
           /\ Sound(Query!Failed(e)) /\ Attended(Query!Failed(e))
<1>1. Query!Failed(e) \in Query!Entry
  BY DEF Query!Failed, Query!Entry
<1>2. /\ Query!Failed(e).request = "none" /\ Query!Failed(e).data = e.data
      /\ Query!Failed(e).since = e.since /\ Query!Failed(e).stale = e.stale
      /\ Query!Failed(e).error
  BY DEF Query!Failed, Query!Entry
<1>3. QED
  BY <1>1, <1>2 DEF Sound, Attended, Query!Has

LEMMA AgedSound ==
    ASSUME NEW e \in Query!Entry, Sound(e)
    PROVE  /\ [e EXCEPT !.stale = TRUE] \in Query!Entry
           /\ Sound([e EXCEPT !.stale = TRUE])
           /\ Attended(e) => Attended([e EXCEPT !.stale = TRUE])
BY DEF Query!Entry, Query!Has, Query!Fetching, Sound, Attended
-----------------------------------------------------------------------------
(***************************************************************************)
(* The half of the lists.                                                  *)
(***************************************************************************)
LEMMA KeyType ==
    ASSUME NEW u \in Ui
    PROVE  Key(u) \in Keys
BY DEF Ui, Key, Keys

LEMMA FirstPage == 1 \in 1..MaxPages
BY PageAssumption

LEMMA StartType ==
    /\ Start \in Ui /\ Start.mounted
    /\ [Start EXCEPT !.mounted = FALSE] \in Ui
    /\ ~[Start EXCEPT !.mounted = FALSE].mounted
BY FirstPage, PageAssumption DEF Start, Ui

\* The range of pages is kept hidden: the prover needs its first one only.
LEMMA SearchedType ==
    ASSUME NEW u \in Ui, NEW value \in Searches
    PROVE  [u EXCEPT !.input = value, !.page = 1] \in Ui
<1> DEFINE Pages == 1..MaxPages
<1>1. 1 \in Pages
  BY FirstPage
<1>2. Ui = [mounted : BOOLEAN, input : Searches, search : Searches,
            filter : Filters, page : Pages]
  BY DEF Ui
<1> HIDE DEF Pages
<1>3. QED
  BY <1>1, <1>2

LEMMA FilteredType ==
    ASSUME NEW u \in Ui, NEW value \in Filters
    PROVE  [u EXCEPT !.filter = value, !.page = 1] \in Ui
<1> DEFINE Pages == 1..MaxPages
<1>1. 1 \in Pages
  BY FirstPage
<1>2. Ui = [mounted : BOOLEAN, input : Searches, search : Searches,
            filter : Filters, page : Pages]
  BY DEF Ui
<1> HIDE DEF Pages
<1>3. QED
  BY <1>1, <1>2

\* The page renders with the parameters of u.
LEMMA RenderLists ==
    ASSUME ListsInv, NEW u \in Ui, Render(u)
    PROVE  ListsInv'
<1> DEFINE k == Key(u)
           shown == IF ~ui.mounted \/ k # Key(ui)
                    THEN [cache EXCEPT ![k] = Query!Observed(@)] ELSE cache
<1>1. k \in Keys
  BY KeyType
<1>2. ui' = u /\ cache' = shown /\ last' \in {k, last}
  BY DEF Render
<1>3. /\ Query!Observed(cache[k]) \in Query!Entry
      /\ Sound(Query!Observed(cache[k])) /\ Attended(Query!Observed(cache[k]))
  BY <1>1, ObservedSound DEF ListsInv
<1>4. CASE ~ui.mounted \/ k # Key(ui)
  <2>1. cache' = [cache EXCEPT ![k] = Query!Observed(cache[k])]
    BY <1>2, <1>4
  <2>2. /\ cache' \in [Keys -> Query!Entry]
        /\ \A j \in Keys : Sound(cache'[j])
        /\ Attended(cache'[k])
    BY <1>1, <1>3, <2>1 DEF ListsInv
  <2>3. QED
    BY <1>1, <1>2, <2>2 DEF ListsInv
<1>5. CASE ui.mounted /\ k = Key(ui)
  <2>1. cache' = cache
    BY <1>2, <1>5
  <2>2. QED
    BY <1>1, <1>2, <1>5, <2>1 DEF ListsInv
<1>6. QED
  BY <1>4, <1>5

\* One list is replaced by another one that is sound.
LEMMA ReplaceList ==
    ASSUME ListsInv, NEW k \in Keys, NEW e \in Query!Entry, Sound(e),
           Attended(cache[k]) => Attended(e),
           cache' = [cache EXCEPT ![k] = e], ui' = ui, last' \in {k, last}
    PROVE  ListsInv'
<1>1. /\ cache' \in [Keys -> Query!Entry]
      /\ \A j \in Keys : Sound(cache'[j])
  BY DEF ListsInv
<1>2. ui.mounted => Attended(cache'[Key(ui)])
  BY KeyType DEF ListsInv
<1>3. QED
  BY <1>1, <1>2 DEF ListsInv

LEMMA InvalidateLists ==
    ASSUME ListsInv, cache' = Invalidate, ui' = ui, last' = last
    PROVE  ListsInv'
<1>1. \A k \in Keys :
        /\ cache'[k] = IF ui.mounted /\ k = Key(ui) THEN Query!Refetched(cache[k])
                       ELSE Query!Invalidated(cache[k])
        /\ cache[k] \in Query!Entry
  BY DEF Invalidate, ListsInv
<1>2. \A k \in Keys : cache'[k] \in Query!Entry /\ Sound(cache'[k])
  BY <1>1, InvalidatedSound, RefetchedSound
<1>3. cache' \in [Keys -> Query!Entry]
  BY <1>2 DEF Invalidate
<1>4. ui.mounted => Attended(cache'[Key(ui)])
  BY <1>1, KeyType, RefetchedSound DEF ListsInv
<1>5. QED
  BY <1>2, <1>3, <1>4 DEF ListsInv

LEMMA SameLists ==
    ASSUME ListsInv, UNCHANGED <<ui, last, cache>>
    PROVE  ListsInv'
BY DEF ListsInv

LEMMA NextLists ==
    ASSUME ListsInv, Next
    PROVE  ListsInv'
<1>1. CASE Enter
  BY <1>1, StartType, RenderLists DEF Enter
<1>2. CASE Leave
  <2>1. ui' \in Ui /\ ~ui'.mounted
    BY <1>2, StartType DEF Leave
  <2>2. QED
    BY <1>2, <2>1 DEF Leave, ListsInv
<1>3. CASE Debounce
  <2>1. [ui EXCEPT !.search = ui.input] \in Ui
    BY DEF ListsInv, Ui
  <2>2. QED
    BY <1>3, <2>1, RenderLists DEF Debounce
<1>4. CASE RenamedElsewhere
  BY <1>4, InvalidateLists DEF RenamedElsewhere
<1>5. CASE Clear
  <2>1. /\ cache' \in [Keys -> Query!Entry]
        /\ \A k \in Keys : Sound(cache'[k])
    BY <1>5, EmptySound DEF Clear
  <2>2. QED
    BY <1>5, <2>1 DEF Clear, ListsInv
<1>6. ASSUME NEW value \in Searches, handleSearchChange(value)
      PROVE  ListsInv'
  <2>1. [ui EXCEPT !.input = value, !.page = 1] \in Ui
    BY SearchedType DEF ListsInv
  <2>2. QED
    BY <1>6, <2>1, RenderLists DEF handleSearchChange
<1>7. ASSUME NEW value \in Filters, handleFilterChange(value)
      PROVE  ListsInv'
  <2>1. [ui EXCEPT !.filter = value, !.page = 1] \in Ui
    BY FilteredType DEF ListsInv
  <2>2. QED
    BY <1>7, <2>1, RenderLists DEF handleFilterChange
<1>8. ASSUME NEW page \in 1..MaxPages, setPage(page)
      PROVE  ListsInv'
  <2>1. [ui EXCEPT !.page = page] \in Ui
    BY DEF ListsInv, Ui
  <2>2. QED
    BY <1>8, <2>1, RenderLists DEF setPage
<1>9. ASSUME NEW s \in Slots, Succeed(s)
      PROVE  ListsInv'
  BY <1>9, SameLists, InvalidateLists DEF Succeed
<1>10. ASSUME NEW k \in Keys, AnswerList(k)
       PROVE  ListsInv'
  <2>1. cache[k] \in Query!Entry /\ Sound(cache[k]) /\ Query!Fetching(cache[k])
    BY <1>10 DEF AnswerList, ListsInv
  <2>2. PICK e \in Query!Entry :
            Sound(e) /\ Attended(e) /\ cache' = [cache EXCEPT ![k] = e]
    BY <1>10, <2>1, AnsweredSound, FailedSound DEF AnswerList
  <2>3. QED
    BY <1>10, <2>2, ReplaceList DEF AnswerList
<1>11. ASSUME NEW k \in Keys, FailList(k)
       PROVE  ListsInv'
  <2>1. cache[k] \in Query!Entry /\ Sound(cache[k])
    BY DEF ListsInv
  <2>2. QED
    BY <1>11, <2>1, FailedSound, ReplaceList DEF FailList
<1>12. ASSUME NEW k \in Keys, Age(k)
       PROVE  ListsInv'
  <2>1. cache[k] \in Query!Entry /\ Sound(cache[k])
    BY DEF ListsInv
  <2>2. cache' = [cache EXCEPT ![k] = [cache[k] EXCEPT !.stale = TRUE]]
    BY <1>12 DEF Age
  <2>3. QED
    BY <1>12, <2>1, <2>2, AgedSound, ReplaceList DEF Age
<1>13. CASE Fill \/ Close \/ (\E kind \in Kinds : Open(kind))
              \/ (\E s \in Slots : Submit(s) \/ Refuse(s))
  BY <1>13, SameLists DEF Fill, Close, Open, Submit, Refuse
<1>14. QED
  BY <1>1, <1>2, <1>3, <1>4, <1>5, <1>6, <1>7, <1>8, <1>9, <1>10, <1>11, <1>12, <1>13
     DEF Next
-----------------------------------------------------------------------------
(***************************************************************************)
(* The half of the dialogs.                                                *)
(***************************************************************************)
LEMMA DialogTypes ==
    /\ NoDialog \in Dialog /\ NoDialog.kind = "none"
    /\ Idle \in Change /\ Idle.stage = "idle"
BY DEF NoDialog, Dialog, Idle, Change, Kinds

LEMMA NoteTypes ==
    ASSUME NEW kind, NEW complaints
    PROVE  handleFormError(kind, complaints) \in SUBSET {"alert", "field"}
BY DEF handleFormError

LEMMA SameDialogs ==
    ASSUME DialogsInv, UNCHANGED <<dialog, sent>>
    PROVE  DialogsInv'
BY DEF DialogsInv, AnswerFindsItsDialog, OneOfPage

\* A change that was on its way is answered, and the dialog stays what it is
\* or, if the change was the page's, becomes any other.
LEMMA AnswerDialogs ==
    ASSUME DialogsInv, NEW s \in Slots, sent[s].stage = "sent",
           sent' = [sent EXCEPT ![s] = Idle],
           dialog' \in Dialog, sent[s].mine \/ dialog' = dialog
    PROVE  DialogsInv'
<1>1. sent'[s] = Idle /\ \A r \in Slots \ {s} : sent'[r] = sent[r]
  BY DEF DialogsInv
<1>2. sent' \in [Slots -> Change]
  BY DialogTypes DEF DialogsInv
<1>3. OneOfPage'
  BY <1>1, DialogTypes DEF DialogsInv, OneOfPage
<1>4. AnswerFindsItsDialog'
  BY <1>1, DialogTypes DEF DialogsInv, OneOfPage, AnswerFindsItsDialog
<1>5. QED
  BY <1>2, <1>3, <1>4 DEF DialogsInv

LEMMA NextDialogs ==
    ASSUME DialogsInv, Next
    PROVE  DialogsInv'
<1>1. CASE Leave
  <2>1. /\ sent' \in [Slots -> Change]
        /\ \A s \in Slots : ~sent'[s].mine
    BY <1>1 DEF Leave, DialogsInv, Change
  <2>2. QED
    BY <1>1, <2>1, DialogTypes DEF Leave, DialogsInv, AnswerFindsItsDialog, OneOfPage
<1>2. CASE Fill
  <2>1. dialog' \in Dialog /\ dialog'.kind = dialog.kind
    <3>1. PICK ready \in BOOLEAN, gone \in SUBSET {"field"} :
            dialog' = [dialog EXCEPT !.ready = ready, !.note = @ \ gone]
      BY <1>2 DEF Fill
    <3>2. dialog.note \ gone \in SUBSET {"alert", "field"}
      BY DEF DialogsInv, Dialog
    <3>3. QED
      BY <3>1, <3>2 DEF DialogsInv, Dialog
  <2>2. QED
    BY <1>2, <2>1 DEF Fill, DialogsInv, AnswerFindsItsDialog, OneOfPage
<1>3. CASE Close
  BY <1>3, DialogTypes
     DEF Close, Closable, Pending, DialogsInv, AnswerFindsItsDialog, OneOfPage
<1>4. ASSUME NEW kind \in Kinds, Open(kind)
      PROVE  DialogsInv'
  <2>1. dialog' \in Dialog
    <3>1. Form(kind).ready \in BOOLEAN
      BY DEF Form, Kinds, CreateUserDialog, EditUserDialog, DeleteUserDialog,
             ResetPasswordDialog
    <3>2. QED
      BY <1>4, <3>1 DEF Open, NoDialog, Dialog
  <2>2. \A s \in Slots : ~(sent[s].stage = "sent" /\ sent[s].mine)
    <3>1. dialog.kind = "none"
      BY <1>4 DEF Open, Usable
    <3>2. QED
      BY <3>1 DEF DialogsInv, AnswerFindsItsDialog, Change, Kinds
  <2>3. QED
    BY <1>4, <2>1, <2>2 DEF Open, DialogsInv, AnswerFindsItsDialog, OneOfPage
<1>5. ASSUME NEW s \in Slots, Submit(s)
      PROVE  DialogsInv'
  <2>1. dialog' \in Dialog /\ dialog'.kind = dialog.kind /\ dialog.kind \in Kinds
    BY <1>5 DEF Submit, DialogsInv, Dialog
  <2>2. [kind |-> dialog.kind, mine |-> TRUE, stage |-> "sent"] \in Change
    BY <2>1 DEF Change
  <2>3. /\ sent' \in [Slots -> Change]
        /\ sent'[s].kind = dialog'.kind
        /\ \A r \in Slots \ {s} : sent'[r] = sent[r]
    BY <1>5, <2>1, <2>2 DEF Submit, DialogsInv
  <2>4. QED
    BY <1>5, <2>1, <2>3
       DEF Submit, Pending, DialogsInv, AnswerFindsItsDialog, OneOfPage
<1>6. ASSUME NEW s \in Slots, Succeed(s)
      PROVE  DialogsInv'
  BY <1>6, DialogTypes, AnswerDialogs DEF Succeed, DialogsInv
<1>7. ASSUME NEW s \in Slots, Refuse(s)
      PROVE  DialogsInv'
  <2>1. PICK note \in SUBSET {"alert", "field"} :
            dialog' = IF ~sent[s].mine THEN dialog
                      ELSE [dialog EXCEPT !.note = note,
                                          !.ready = @ /\ "field" \notin note]
    BY <1>7, NoteTypes DEF Refuse
  <2>2. dialog' \in Dialog
    BY <2>1 DEF DialogsInv, Dialog
  <2>3. QED
    BY <1>7, <2>1, <2>2, AnswerDialogs DEF Refuse
<1>8. CASE \/ Enter \/ Debounce \/ RenamedElsewhere \/ Clear
           \/ \E value \in Searches : handleSearchChange(value)
           \/ \E value \in Filters : handleFilterChange(value)
           \/ \E page \in 1..MaxPages : setPage(page)
           \/ \E k \in Keys : AnswerList(k) \/ FailList(k) \/ Age(k)
  BY <1>8, SameDialogs
     DEF Enter, Debounce, RenamedElsewhere, Clear, handleSearchChange,
         handleFilterChange, setPage, AnswerList, FailList, Age
<1>9. QED
  BY <1>1, <1>2, <1>3, <1>4, <1>5, <1>6, <1>7, <1>8 DEF Next
-----------------------------------------------------------------------------
(***************************************************************************)
(* The results.                                                            *)
(***************************************************************************)
LEMMA InitIInv ==
    ASSUME Init
    PROVE  IInv
<1>1. ui \in Ui /\ ~ui.mounted
  BY StartType DEF Init
<1>2. ListsInv
  BY <1>1, EmptySound DEF Init, ListsInv
<1>3. DialogsInv
  BY DialogTypes DEF Init, DialogsInv, AnswerFindsItsDialog, OneOfPage
<1>4. QED
  BY <1>2, <1>3, PageAssumption DEF Init, IInv

LEMMA NextInputs ==
    ASSUME inputs \in 0..MaxInputs, Next
    PROVE  inputs' \in 0..MaxInputs
<1>1. inputs' = inputs \/ Input
  BY DEF Next, Enter, Leave, Debounce, Fill, Close, RenamedElsewhere, Clear,
         handleSearchChange, handleFilterChange, setPage, Open, Submit, Succeed,
         Refuse, AnswerList, FailList, Age
<1>2. QED
  BY <1>1, PageAssumption DEF Input

THEOREM Invariance == Spec => []IInv
<1>1. Init => IInv
  BY InitIInv
<1>2. IInv /\ [Next]_vars => IInv'
  <2>1. CASE Next
    BY <2>1, NextLists, NextDialogs, NextInputs DEF IInv
  <2>2. CASE UNCHANGED vars
    BY <2>2, SameLists, SameDialogs DEF IInv, vars
  <2>3. QED
    BY <2>1, <2>2
<1>3. QED
  BY <1>1, <1>2, PTL DEF Spec

\* Every variable keeps its type.
THEOREM TypeCorrect == Spec => []TypeOK
<1>1. IInv => TypeOK
  BY DEF IInv, ListsInv, DialogsInv, TypeOK
<1>2. QED
  BY <1>1, Invariance, PTL

\* No list from before a change of this client passes for up to date.
THEOREM ChangesAreSeen == Spec => []ChangesSeen
<1>1. IInv => ChangesSeen
  BY DEF IInv, ListsInv, Sound, Attended, ChangesSeen
<1>2. QED
  BY <1>1, Invariance, PTL

\* An answer that closes a dialog finds the one that asked for it.
THEOREM AnswersFindTheirDialog == Spec => []AnswerFindsItsDialog
<1>1. IInv => AnswerFindsItsDialog
  BY DEF IInv, DialogsInv
<1>2. QED
  BY <1>1, Invariance, PTL

LEMMA FormErrorTells ==
    ASSUME NEW kind, NEW complaints, complaints # {}
    PROVE  handleFormError(kind, complaints) # {}
<1> DEFINE map == Form(kind).fieldMap
           named == {IF c \in DOMAIN map THEN map[c] ELSE c : c \in complaints}
<1>1. PICK f : f \in named
  OBVIOUS
<1>2. handleFormError(kind, complaints) =
          {"alert" : g \in (named \ Form(kind).fields)}
              \cup {"field" : g \in (named \cap Form(kind).fields)}
  BY DEF handleFormError
<1> HIDE DEF named
<1>3. CASE f \in Form(kind).fields
  BY <1>1, <1>2, <1>3
<1>4. CASE f \notin Form(kind).fields
  BY <1>1, <1>2, <1>4
<1>5. QED
  BY <1>3, <1>4

\* A change that is answered closes its form or leaves a message at it.
THEOREM RefusalsAreTold == Spec => TellsWhy
<1> DEFINE Told == \A s \in Slots :
              sent[s].stage = "sent" /\ sent[s].mine /\ sent'[s].stage = "idle"
                  => dialog'.kind = "none" \/ dialog'.note # {}
<1>1. ASSUME IInv, Next
      PROVE  Told
  <2>1. SUFFICES ASSUME NEW s \in Slots,
                        sent[s].stage = "sent", sent[s].mine, sent'[s].stage = "idle"
                 PROVE  dialog'.kind = "none" \/ dialog'.note # {}
    OBVIOUS
  <2>2. sent \in [Slots -> Change] /\ dialog \in Dialog
    BY <1>1 DEF IInv, DialogsInv
  <2>3. CASE Leave
    BY <2>1, <2>2, <2>3, DialogTypes DEF Leave
  <2>4. ASSUME NEW r \in Slots, Submit(r)
        PROVE  FALSE
    BY <2>1, <2>2, <2>4 DEF Submit
  <2>5. ASSUME NEW r \in Slots, Succeed(r)
        PROVE  dialog'.kind = "none"
    <3>1. r = s
      BY <2>1, <2>2, <2>5 DEF Succeed
    <3>2. QED
      BY <2>1, <2>5, <3>1, DialogTypes DEF Succeed
  <2>6. ASSUME NEW r \in Slots, Refuse(r)
        PROVE  dialog'.note # {}
    <3>1. r = s
      BY <2>1, <2>2, <2>6 DEF Refuse
    <3>2. PICK complaints \in SUBSET Complaints(sent[r].kind) :
             LET note == IF complaints = {} THEN {"alert"}
                         ELSE handleFormError(sent[r].kind, complaints)
             IN  dialog' = IF ~sent[r].mine THEN dialog
                           ELSE [dialog EXCEPT !.note = note,
                                               !.ready = @ /\ "field" \notin note]
      BY <2>6 DEF Refuse
    <3> DEFINE note == IF complaints = {} THEN {"alert"}
                       ELSE handleFormError(sent[r].kind, complaints)
    <3>3. note # {}
      BY FormErrorTells
    <3>4. dialog' = [dialog EXCEPT !.note = note, !.ready = @ /\ "field" \notin note]
      BY <2>1, <3>1, <3>2
    <3> HIDE DEF note
    <3>5. dialog'.note = note
      BY <2>2, <3>4 DEF Dialog
    <3>6. QED
      BY <3>3, <3>5
  <2>7. CASE \/ Enter \/ Debounce \/ Fill \/ Close \/ RenamedElsewhere \/ Clear
             \/ \E value \in Searches : handleSearchChange(value)
             \/ \E value \in Filters : handleFilterChange(value)
             \/ \E page \in 1..MaxPages : setPage(page)
             \/ \E kind \in Kinds : Open(kind)
             \/ \E k \in Keys : AnswerList(k) \/ FailList(k) \/ Age(k)
    <3>1. sent' = sent
      BY <2>7 DEF Enter, Debounce, Fill, Close, RenamedElsewhere, Clear, handleSearchChange,
                  handleFilterChange, setPage, Open, AnswerList, FailList, Age
    <3>2. QED
      BY <2>1, <3>1
  <2>8. QED
    BY <1>1, <2>3, <2>4, <2>5, <2>6, <2>7 DEF Next
<1>2. IInv /\ [Next]_vars => [Told]_vars
  BY <1>1
<1>3. QED
  BY <1>2, Invariance, PTL DEF Spec, TellsWhy
=============================================================================
