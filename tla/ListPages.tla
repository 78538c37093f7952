----------------------------- MODULE ListPages -----------------------------
(***************************************************************************)
(* The pages that show one list of the server's, a page at a time, and     *)
(* change it in place: TrashPage (two sections, each with a cursor),       *)
(* MyLinksPage and FavoritesPage (removed before the answer), Invitations- *)
(* Page (answered invitations are left out) and SharedDirListPage (all at  *)
(* once).  The names differ from those of Favorites, with which the model  *)
(* is checked together.                                                    *)
(***************************************************************************)
EXTENDS Naturals, FiniteSets

CONSTANTS
    Entries, Sections, NoEntry,
    SectionOf,    \* files or directories
    Main,         \* the section of a list that has but one
    Rank,         \* the order of the server's list
    Limit,        \* PAGE_LIMIT
    Asks          \* bound: handlers and effects that have a request under way

ASSUME ListPagesAssumption ==
    /\ SectionOf \in [Entries -> Sections]
    /\ Rank \in [Entries -> Nat]
    /\ \A e, f \in Entries : Rank[e] = Rank[f] => e = f
    /\ Main \in Sections
    /\ Limit \in Nat \ {0} /\ NoEntry \notin Entries
    /\ IsFiniteSet(Entries)   \* a table has finitely many rows

VARIABLES
    kind,        \* which page it is
    calm,        \* whether the user waits for answers
    there,       \* the server: the entries of the list
    answered,    \* the server: invitations that have been answered
    items, twice,      \* entries that are shown, and those shown more than once
    cursor,            \* by section; NoEntry is hasMore = false too
    isLoading, error, isLoadingMore,
    undos,             \* toasts that offer to undo
    ask

listVars == <<kind, calm, there, answered, items, twice, cursor, isLoading, error,
              isLoadingMore, undos, ask>>
server == <<there, answered>>
shownVars == <<items, twice, cursor>>
busy   == <<isLoading, error, isLoadingMore>>

ListKinds == {"trash", "links", "invitations", "shared"}
Steps     == {"load", "more", "reload", "remove", "undo", "clear", "change"}
NoCursors == [s \in Sections |-> NoEntry]
NoAsk     == [pc |-> "idle", step |-> "load", entry |-> NoEntry, from |-> NoCursors,
              got |-> {}, next |-> NoCursors]

ListTypeOK ==
    /\ kind \in ListKinds /\ calm \in BOOLEAN
    /\ there \subseteq Entries /\ answered \subseteq Entries
    /\ items \subseteq Entries /\ twice \subseteq Entries
    /\ cursor \in [Sections -> Entries \cup {NoEntry}]
    /\ isLoading \in BOOLEAN /\ error \in BOOLEAN /\ isLoadingMore \in BOOLEAN
    /\ undos \subseteq Entries
    /\ ask \in [Asks -> [pc : {"idle", "sent", "list", "listed"}, step : Steps,
                         entry : Entries \cup {NoEntry},
                         from : [Sections -> Entries \cup {NoEntry}],
                         got : SUBSET Entries, next : [Sections -> Entries \cup {NoEntry}]]]

-----------------------------------------------------------------------------
(* The server's list.                                                      *)

Paged == kind # "shared"
SectionIn(e) == IF kind = "trash" THEN SectionOf[e] ELSE Main
Below(s, c) == {e \in there : SectionIn(e) = s /\ (c = NoEntry \/ Rank[e] > Rank[c])}
PageOf(S)   == IF Paged THEN {e \in S : Cardinality({f \in S : Rank[f] < Rank[e]}) < Limit} ELSE S
LastOf(S)   == CHOOSE e \in S : \A f \in S : Rank[f] <= Rank[e]
NextOf(S)   == IF S = PageOf(S) THEN NoEntry ELSE LastOf(PageOf(S))

\* InvitationsPage keeps the pending ones of what it gets.
Kept(S) == S \ answered

-----------------------------------------------------------------------------
ListQuiet == \A k \in Asks : ask[k].pc = "idle"
ListReady == calm => ListQuiet
ListShown == ~isLoading /\ ~error /\ items # {}
Idle(k)   == ask[k].pc = "idle"
End(k)    == ask' = [ask EXCEPT ![k] = NoAsk]

\* A request of a list: the first page, or the one after the cursors there are.
AskList(k, step, from) ==
    ask' = [ask EXCEPT ![k] = [NoAsk EXCEPT !.pc = "list", !.step = step, !.from = from]]

Begin(k, step, e) ==
    ask' = [ask EXCEPT ![k] = [NoAsk EXCEPT !.pc = "sent", !.step = step, !.entry = e]]

\* What the four loads have in common; those of TrashPage keep the cursors they have.
Reads(k) ==
    /\ isLoading' = TRUE /\ error' = FALSE
    /\ AskList(k, "load", NoCursors)
    /\ UNCHANGED <<items, twice, isLoadingMore>>

LoadTrash(k)       == kind = "trash" /\ Reads(k) /\ UNCHANGED cursor
LoadLinks(k)       == kind = "links" /\ Reads(k) /\ cursor' = NoCursors
LoadInvitations(k) == kind = "invitations" /\ Reads(k) /\ cursor' = NoCursors
LoadDirectories(k) == kind = "shared" /\ Reads(k) /\ UNCHANGED cursor

LoadList(k) == LoadTrash(k) \/ LoadLinks(k) \/ LoadInvitations(k) \/ LoadDirectories(k)

\* The access token has been renewed: the effect loads the list again.
ReloadList(k) ==
    /\ Idle(k) /\ ~calm
    /\ LoadList(k)
    /\ UNCHANGED <<kind, calm, server, undos>>

\* loadMore.  TrashPage sends both cursors, also that of a section that has ended,
\* whose first page it gets again.
Scroll(k) ==
    /\ Idle(k) /\ ListShown /\ ListReady /\ ~isLoadingMore
    /\ \E s \in Sections : cursor[s] # NoEntry
    /\ isLoadingMore' = TRUE
    /\ AskList(k, "more", cursor)
    /\ UNCHANGED <<kind, calm, server, shownVars, isLoading, error, undos>>

ServerLists(k) ==
    LET from == ask[k].from
        Part(s) == Below(s, from[s]) IN
    /\ ask[k].pc = "list"
    /\ ask' = [ask EXCEPT ![k].pc = "listed",
                          ![k].got = Kept(UNION {PageOf(Part(s)) : s \in Sections}),
                          ![k].next = [s \in Sections |-> NextOf(Part(s))]]
    /\ UNCHANGED <<kind, calm, server, shownVars, busy, undos>>

\* Only TrashPage clears both flags whatever it was that ended.
Calmed(step) ==
    /\ isLoading' = (isLoading /\ ~(step = "load" \/ kind = "trash"))
    /\ isLoadingMore' = (isLoadingMore /\ ~(step = "more" \/ kind = "trash"))

\* The next page is appended; any other answer is the list.
ListArrives(k) ==
    LET q == ask[k] IN
    /\ q.pc = "listed"
    /\ IF q.step = "more"
       THEN twice' = twice \cup (items \cap q.got) /\ items' = items \cup q.got
       ELSE twice' = {} /\ items' = q.got
    /\ cursor' = q.next
    /\ Calmed(q.step)
    /\ End(k)
    /\ UNCHANGED <<kind, calm, server, error, undos>>

\* Mutant: without a finally.
ListFailsWaiting(k) ==
    LET q == ask[k] IN
    /\ q.pc = "list"
    /\ error' = (error \/ q.step = "load" \/ kind = "trash")
    /\ End(k)
    /\ UNCHANGED <<kind, calm, server, shownVars, isLoading, isLoadingMore, undos>>

\* TrashPage shows the error also when it was the next page that failed.
ListRequestFails(k) ==
    LET q == ask[k] IN
    /\ q.pc = "list"
    /\ error' = (error \/ q.step = "load" \/ kind = "trash")
    /\ Calmed(q.step)
    /\ End(k)
    /\ UNCHANGED <<kind, calm, server, shownVars, undos>>

-----------------------------------------------------------------------------
(* What the user does to the list.                                         *)

TrashShown       == kind = "trash" /\ ListShown
LinksShown       == kind = "links" /\ ListShown
InvitationsShown == kind = "invitations" /\ ListShown

\* A request to take an entry off the list, which the answer will do.
Removes(k, e) ==
    /\ Idle(k) /\ ListReady /\ e \in items
    /\ Begin(k, "remove", e)
    /\ UNCHANGED <<kind, calm, server, shownVars, busy, undos>>

Restore(k, e)       == TrashShown /\ Removes(k, e)
ConfirmDelete(k, e) == TrashShown /\ Removes(k, e)
Accept(k, e)        == InvitationsShown /\ Removes(k, e)
Decline(k, e)       == InvitationsShown /\ Removes(k, e)

\* MyLinksPage and FavoritesPage take the entry off before the answer.
RemovesAtOnce(k, e) ==
    /\ Idle(k) /\ LinksShown /\ ListReady /\ e \in items
    /\ items' = items \ {e} /\ twice' = twice \ {e}
    /\ Begin(k, "remove", e)
    /\ UNCHANGED <<kind, calm, server, cursor, busy, undos>>

DeleteFile(k, e)      == SectionOf[e] = Main /\ RemovesAtOnce(k, e)
DeleteDirectory(k, e) == SectionOf[e] # Main /\ RemovesAtOnce(k, e)

\* Once the toasts have gone: what they would restore then has no links.
Clears(k) ==
    /\ Idle(k) /\ items # {} /\ undos = {} /\ ListReady
    /\ Begin(k, "clear", NoEntry)
    /\ UNCHANGED <<kind, calm, server, shownVars, busy, undos>>

ClearAll(k)       == kind = "trash" /\ Clears(k)
DeleteAllLinks(k) == kind = "links" /\ Clears(k)

\* A change after which the list is loaded again.
ThenLoads(k, e) ==
    /\ Idle(k) /\ ListReady /\ (calm => undos = {})
    /\ Begin(k, "change", e)
    /\ UNCHANGED <<kind, calm, server, shownVars, busy, undos>>

Rename(k, e)         == LinksShown /\ e \in items /\ ThenLoads(k, e)
ConvertAndSave(k, e) == LinksShown /\ e \in items /\ SectionOf[e] = Main /\ ThenLoads(k, e)
RenameShared(k, e)   == kind = "shared" /\ ListShown /\ e \in items /\ ThenLoads(k, e)
Create(k, e)         == kind = "shared" /\ e \notin there /\ ThenLoads(k, e)

UndoRemove(k, e) ==
    /\ Idle(k) /\ ListReady /\ e \in undos
    /\ undos' = undos \ {e}
    /\ Begin(k, "undo", e)
    /\ UNCHANGED <<kind, calm, server, shownVars, busy>>

DismissUndo(e) ==
    /\ e \in undos /\ ListReady
    /\ undos' = undos \ {e}
    /\ UNCHANGED <<kind, calm, server, shownVars, busy, ask>>

\* What the server does, if it does it.
Changes(q) ==
    CASE q.step = "remove" /\ kind = "invitations" ->
             /\ q.entry \in there \ answered
             /\ answered' = answered \cup {q.entry} /\ UNCHANGED there
      [] q.step = "remove" /\ kind # "invitations" ->
             q.entry \in there /\ there' = there \ {q.entry} /\ UNCHANGED answered
      [] q.step = "undo"  ->
             q.entry \notin there /\ there' = there \cup {q.entry} /\ UNCHANGED answered
      [] q.step = "clear" -> there' = {} /\ UNCHANGED answered
      [] OTHER            ->
             there' = (IF kind = "shared" THEN there \cup {q.entry} ELSE there) /\ UNCHANGED answered

\* What makes the page load its list again.
LoadsAgain(q) == q.step = "change" \/ (q.step = "clear" /\ kind = "links")

\* Mutant: the entry stays in the list.
SucceedsShown(k) ==
    LET q == ask[k] IN
    /\ q.pc = "sent" /\ Changes(q)
    /\ undos' = IF q.step = "remove" /\ kind = "links" THEN undos \cup {q.entry} ELSE undos
    /\ IF LoadsAgain(q) THEN LoadList(k) ELSE End(k) /\ UNCHANGED <<shownVars, busy>>
    /\ UNCHANGED <<kind, calm>>

\* The answer is ok: the entry goes, if it is still shown, or comes back at the
\* end, or nothing is left, or the list is loaded.
Succeeds(k) ==
    LET q    == ask[k]
        gone == CASE q.step = "clear"                       -> Entries
                  [] q.step = "remove" /\ kind # "links" -> {q.entry}
                  [] OTHER                                  -> {}
        back == IF q.step = "undo" THEN {q.entry} ELSE {} IN
    /\ q.pc = "sent" /\ Changes(q)
    /\ undos' = IF q.step = "remove" /\ kind = "links" THEN undos \cup {q.entry} ELSE undos
    /\ IF LoadsAgain(q)
       THEN LoadList(k)
       ELSE /\ items' = (items \ gone) \cup back
            /\ twice' = (twice \ gone) \cup (items \cap back)
            /\ End(k) /\ UNCHANGED <<cursor, busy>>
    /\ UNCHANGED <<kind, calm>>

\* A failure: MyLinksPage shows the error and asks for the first page once more,
\* InvitationsPage shows it in place of the list, TrashPage in a toast or a modal.
Refused(k) ==
    LET q == ask[k] IN
    /\ q.pc = "sent"
    /\ error' = (error \/ (q.step = "remove" /\ kind # "trash"))
    /\ IF q.step = "remove" /\ kind = "links" THEN AskList(k, "reload", NoCursors) ELSE End(k)
    /\ UNCHANGED <<kind, calm, server, shownVars, isLoading, isLoadingMore, undos>>

-----------------------------------------------------------------------------
ListInit ==
    /\ kind \in ListKinds /\ calm \in BOOLEAN
    /\ there \in SUBSET Entries
    /\ answered \in SUBSET Entries /\ (kind # "invitations" => answered = {})
    /\ items = {} /\ twice = {} /\ cursor = NoCursors
    /\ isLoading = TRUE /\ error = FALSE /\ isLoadingMore = FALSE /\ undos = {}
    /\ \E k \in Asks : ask = [j \in Asks |-> IF j = k THEN [NoAsk EXCEPT !.pc = "list"] ELSE NoAsk]

AskStep(k) == ServerLists(k) \/ ListArrives(k) \/ ListRequestFails(k) \/ Succeeds(k) \/ Refused(k)

ListNext ==
    \/ \E k \in Asks :
           \/ AskStep(k) \/ ReloadList(k) \/ Scroll(k) \/ ClearAll(k) \/ DeleteAllLinks(k)
           \/ \E e \in Entries :
                  \/ Restore(k, e) \/ ConfirmDelete(k, e) \/ Accept(k, e) \/ Decline(k, e)
                  \/ DeleteFile(k, e) \/ DeleteDirectory(k, e) \/ UndoRemove(k, e)
                  \/ Rename(k, e) \/ ConvertAndSave(k, e) \/ RenameShared(k, e) \/ Create(k, e)
    \/ \E e \in Entries : DismissUndo(e)

ListSpec == ListInit /\ [][ListNext]_listVars /\ \A k \in Asks : WF_listVars(AskStep(k))

-----------------------------------------------------------------------------
\* For a user who waits: everything that is shown is on the server, and everything
\* of a section up to its cursor is shown, whatever was removed, undone or refused;
\* and once, but on TrashPage, which asks again for the section that has ended.
ListFollowsServer ==
    calm /\ ListQuiet /\ ~error =>
        /\ kind # "trash" => twice = {}
        /\ items \subseteq Kept(there)
        /\ \A e \in Kept(there) :
               LET c == cursor[SectionIn(e)] IN e \in items \/ (c # NoEntry /\ Rank[e] > Rank[c])

\* "Loading" goes away.
ListLoadingEnds == isLoading ~> ~isLoading
=============================================================================
