----------------------------- MODULE ShareDialog -----------------------------
(***************************************************************************)
(* ShareLinkModal, the dialog with the links of one item, the editor of a  *)
(* link inside of it, and what they leave outside: the badge of the item   *)
(* on the page below, the counter of the user in the store, and the toasts *)
(* that make a deleted link again.  Closing the dialog cancels nothing.    *)
(***************************************************************************)
EXTENDS Naturals, FiniteSets

CONSTANTS
    MaxMade,   \* bound: links that are ever made
    LinkQuota, \* share_links_quota
    Calls      \* bound: requests under way

ASSUME ShareDialogAssumption == MaxMade \in Nat \ {0} /\ LinkQuota \in Nat \ {0}

\* A link is its identity and its expires_at: none, or a time.
Link   == [id : 1..MaxMade, forever : BOOLEAN]
Absent == [id |-> 0, forever |-> FALSE]

VARIABLES
    links, made,          \* the server: the links of the item, and how many there ever were
    kept,                 \* the page keeps the closed dialog mounted
    sharerWaits,          \* the user waits for answers
    open, listed, listing, creating, createForm, linkError,
    editing, saving,      \* the editor
    badge, count,         \* has_share_links of the page, share_links_count of the store
    undoable,             \* the toasts, with the link that each is about
    call

shareVars == <<links, made, kept, sharerWaits, open, listed, listing, creating, createForm,
               linkError, editing, saving, badge, count, undoable, call>>
server  == <<links, made>>
regime  == <<kept, sharerWaits>>
list    == <<open, listed, listing, linkError>>
creator == <<creating, createForm>>
editor  == <<editing, saving>>
outside == <<badge, count, undoable>>

CallKinds  == {"load", "create", "delete", "edit", "undo", "user"}
NoCall == [pc |-> "idle", kind |-> "load", link |-> Absent, was |-> FALSE, mine |-> FALSE, got |-> {}]

ShareTypeOK ==
    /\ links \subseteq Link /\ made \in 0..MaxMade /\ listed \subseteq Link
    /\ {kept, sharerWaits, open, listing, creating, createForm, linkError, saving, badge} \subseteq BOOLEAN
    /\ editing \in Link \cup {Absent} /\ count \in Nat /\ undoable \subseteq Link
    /\ call \in [Calls -> [pc : {"idle", "sent", "served", "failed"}, kind : CallKinds,
                           link : [id : 0..MaxMade, forever : BOOLEAN], was : BOOLEAN, mine : BOOLEAN,
                           got : SUBSET Link]]

-----------------------------------------------------------------------------
DialogQuiet == \A k \in Calls : call[k].pc = "idle"
SharerReady == sharerWaits => DialogQuiet
AtLimit     == count >= LinkQuota

\* A request; "was" is what links.length was when it was sent, "mine" says that the
\* dialog that sent it is still mounted.
Request(k, kind, l, was) ==
    /\ call[k].pc = "idle"
    /\ call' = [call EXCEPT ![k] = [NoCall EXCEPT !.pc = "sent", !.kind = kind, !.link = l,
                                                  !.was = was, !.mine = TRUE]]

\* The effect that isOpen starts, with loadLinks.
OpenDialog(k) ==
    /\ ~open /\ SharerReady
    /\ open' = TRUE /\ listing' = TRUE /\ linkError' = FALSE
    /\ listed' = IF kept THEN listed ELSE {}
    /\ createForm' = FALSE /\ creating' = (kept /\ creating)
    /\ editing' = (IF kept THEN editing ELSE Absent) /\ saving' = (kept /\ saving)
    /\ Request(k, "load", Absent, FALSE)
    /\ UNCHANGED <<server, regime, outside>>

\* A page that renders the dialog only while it is open unmounts it.
Unmounted(c) == IF kept THEN c ELSE [k \in Calls |-> [c[k] EXCEPT !.mine = FALSE]]

CloseDialog ==
    /\ open /\ SharerReady /\ editing = Absent
    /\ open' = FALSE /\ call' = Unmounted(call)
    /\ UNCHANGED <<server, regime, listed, listing, linkError, creator, editor, outside>>

\* The button that the limit hides.
ShowCreateForm ==
    /\ open /\ ~createForm /\ ~AtLimit /\ SharerReady
    /\ createForm' = TRUE
    /\ UNCHANGED <<server, regime, list, creating, editor, outside, call>>

Create(k, forever) ==
    /\ open /\ createForm /\ ~creating /\ ~AtLimit /\ SharerReady
    /\ creating' = TRUE /\ linkError' = FALSE
    /\ Request(k, "create", [id |-> 0, forever |-> forever], listed = {})
    /\ UNCHANGED <<server, regime, open, listed, listing, createForm, editor, outside>>

\* Nothing shows that a deletion is under way.
Delete(k, l) ==
    /\ open /\ l \in listed /\ editing = Absent /\ SharerReady
    /\ Request(k, "delete", l, Cardinality(listed) = 1)
    /\ UNCHANGED <<server, regime, list, creator, editor, outside>>

EditLink(l) ==
    /\ open /\ l \in listed /\ editing = Absent /\ SharerReady
    /\ editing' = l
    /\ UNCHANGED <<server, regime, list, creator, saving, outside, call>>

\* The editor always sends a time, that of 30 days for a link that had none.
Save(k) ==
    /\ editing # Absent /\ ~saving /\ SharerReady
    /\ saving' = TRUE
    /\ Request(k, "edit", [editing EXCEPT !.forever = FALSE], FALSE)
    /\ UNCHANGED <<server, regime, list, creator, editing, outside>>

CancelEdit ==
    /\ editing # Absent /\ SharerReady
    /\ editing' = Absent
    /\ UNCHANGED <<server, regime, list, creator, saving, outside, call>>

\* The toast of a deletion, clicked once.
UndoDelete(k, l) ==
    /\ l \in undoable /\ SharerReady
    /\ undoable' = undoable \ {l}
    /\ Request(k, "undo", l, FALSE)
    /\ UNCHANGED <<server, regime, list, creator, editor, badge, count>>

Expire(l) ==
    /\ l \in undoable
    /\ undoable' = undoable \ {l}
    /\ UNCHANGED <<server, regime, list, creator, editor, badge, count, call>>

-----------------------------------------------------------------------------
(* The server.  A request that it refuses changes nothing there.           *)

Serve(k) ==
    LET c == call[k]
        Answer(got) == call' = [call EXCEPT ![k].pc = "served", ![k].got = got] IN
    /\ c.pc = "sent"
    /\ \/ c.kind \in {"load", "user"} /\ Answer(links) /\ UNCHANGED server
       \/ /\ c.kind \in {"create", "undo"} /\ Cardinality(links) < LinkQuota
          /\ made < MaxMade /\ made' = made + 1
          /\ LET l == [c.link EXCEPT !.id = made'] IN links' = links \cup {l} /\ Answer({l})
       \/ /\ c.kind = "delete" /\ c.link.id \in {l.id : l \in links}
          /\ links' = {l \in links : l.id # c.link.id} /\ made' = made /\ Answer({})
       \/ /\ c.kind = "edit" /\ c.link.id \in {l.id : l \in links}
          /\ links' = {l \in links : l.id # c.link.id} \cup {c.link} /\ made' = made
          /\ Answer({c.link})
    /\ UNCHANGED <<regime, list, creator, editor, outside>>

Refuse(k) ==
    /\ call[k].pc = "sent"
    /\ call' = [call EXCEPT ![k].pc = "failed"]
    /\ UNCHANGED <<server, regime, list, creator, editor, outside>>

-----------------------------------------------------------------------------
(* The answers, in any order.                                              *)

Release(k)    == call' = [call EXCEPT ![k] = NoCall]
\* refreshUser(), which nobody awaits.
Refresh(c, k) == [c EXCEPT ![k] = [NoCall EXCEPT !.pc = "sent", !.kind = "user"]]

Loaded(k) ==
    /\ call[k].pc = "served" /\ call[k].kind = "load"
    /\ IF call[k].mine THEN listed' = call[k].got /\ listing' = FALSE
                       ELSE UNCHANGED <<listed, listing>>
    /\ Release(k)
    /\ UNCHANGED <<server, regime, open, linkError, creator, editor, outside>>

\* The badge changes only if the list was empty when the link was asked for.  Then the
\* address is copied: the dialog closes, or, if that fails, shows an error.
Created(k) ==
    LET c == call[k] IN
    /\ c.pc = "served" /\ c.kind = "create"
    /\ listed' = IF c.mine THEN listed \cup c.got ELSE listed
    /\ count' = count + 1 /\ badge' = (badge \/ c.was)
    /\ creating' = (creating /\ ~c.mine)
    /\ \/ /\ open' = FALSE /\ UNCHANGED linkError
          /\ call' = Refresh(Unmounted(call), k)
       \/ /\ linkError' = (linkError \/ c.mine) /\ UNCHANGED open
          /\ call' = Refresh(call, k)
    /\ UNCHANGED <<server, regime, listing, createForm, editor, undoable>>

\* Mutant: whether it was the last link is forgotten.
DeletedKeepsBadge(k) ==
    LET c == call[k] IN
    /\ c.pc = "served" /\ c.kind = "delete"
    /\ listed' = IF c.mine THEN {l \in listed : l.id # c.link.id} ELSE listed
    /\ count' = IF count = 0 THEN 0 ELSE count - 1
    /\ undoable' = undoable \cup {c.link}
    /\ call' = Refresh(call, k)
    /\ UNCHANGED <<server, regime, open, listing, linkError, creator, editor, badge>>

Deleted(k) ==
    LET c == call[k] IN
    /\ c.pc = "served" /\ c.kind = "delete"
    /\ listed' = IF c.mine THEN {l \in listed : l.id # c.link.id} ELSE listed
    /\ count' = IF count = 0 THEN 0 ELSE count - 1
    /\ badge' = (badge /\ ~c.was) /\ undoable' = undoable \cup {c.link}
    /\ call' = Refresh(call, k)
    /\ UNCHANGED <<server, regime, open, listing, linkError, creator, editor>>

Saved(k) ==
    LET c == call[k] IN
    /\ c.pc = "served" /\ c.kind = "edit"
    /\ IF c.mine THEN /\ listed' = {IF l.id = c.link.id THEN c.link ELSE l : l \in listed}
                      /\ editing' = Absent /\ saving' = FALSE
                 ELSE UNCHANGED <<listed, editing, saving>>
    /\ Release(k)
    /\ UNCHANGED <<server, regime, open, listing, linkError, creator, outside>>

\* The new refreshKey loads the list of an open dialog again.
Undone(k) ==
    /\ call[k].pc = "served" /\ call[k].kind = "undo"
    /\ badge' = TRUE
    /\ IF open THEN /\ listing' = TRUE /\ linkError' = FALSE /\ createForm' = FALSE
                    /\ \E j \in Calls \ {k} :
                          /\ call[j].pc = "idle"
                          /\ call' = [Refresh(call, k) EXCEPT
                                 ![j] = [NoCall EXCEPT !.pc = "sent", !.mine = TRUE]]
               ELSE call' = Refresh(call, k) /\ UNCHANGED <<listing, linkError, createForm>>
    /\ UNCHANGED <<server, regime, open, listed, creating, editor, count, undoable>>

\* set({user}).
Refreshed(k) ==
    /\ call[k].pc = "served" /\ call[k].kind = "user"
    /\ count' = Cardinality(call[k].got)
    /\ Release(k)
    /\ UNCHANGED <<server, regime, list, creator, editor, badge, undoable>>

CallFails(k) ==
    LET c == call[k] IN
    /\ c.pc = "failed"
    /\ linkError' = (linkError \/ (c.mine /\ c.kind \in {"load", "create", "delete"}))
    /\ listing'  = (listing  /\ ~(c.mine /\ c.kind = "load"))
    /\ creating' = (creating /\ ~(c.mine /\ c.kind = "create"))
    /\ saving'   = (saving   /\ ~(c.mine /\ c.kind = "edit"))
    /\ Release(k)
    /\ UNCHANGED <<server, regime, open, listed, createForm, editing, outside>>

-----------------------------------------------------------------------------
ShareInit ==
    /\ made \in 0..1 /\ links = {l \in Link : l.id <= made /\ l.forever}
    /\ kept \in BOOLEAN /\ sharerWaits \in BOOLEAN
    /\ open = FALSE /\ listed = {} /\ listing = FALSE /\ linkError = FALSE
    /\ creating = FALSE /\ createForm = FALSE /\ editing = Absent /\ saving = FALSE
    /\ badge = (links # {}) /\ count = Cardinality(links) /\ undoable = {}
    /\ call = [k \in Calls |-> NoCall]

CallStep(k) ==
    \/ Serve(k) \/ Refuse(k) \/ Loaded(k) \/ Created(k) \/ Deleted(k) \/ Saved(k)
    \/ Undone(k) \/ Refreshed(k) \/ CallFails(k)

ShareNext ==
    \/ \E k \in Calls :
          \/ CallStep(k) \/ OpenDialog(k) \/ Save(k)
          \/ \E forever \in BOOLEAN : Create(k, forever)
          \/ \E l \in Link : Delete(k, l) \/ UndoDelete(k, l)
    \/ CloseDialog \/ ShowCreateForm \/ CancelEdit
    \/ \E l \in Link : EditLink(l) \/ Expire(l)

ShareSpec == ShareInit /\ [][ShareNext]_shareVars /\ \A k \in Calls : WF_shareVars(CallStep(k))

-----------------------------------------------------------------------------
\* For a user who waits for the answers: the badge is not left on an item without
\* links, the counter, which hides the button at the limit, is not too high, and an open
\* dialog without an error lists what there is.  (After a list that failed to load, or an
\* undone deletion whose refreshUser failed, they may say too little.)
DialogSettles ==
    sharerWaits /\ DialogQuiet =>
        /\ (badge => links # {}) /\ count <= Cardinality(links)
        /\ open /\ ~linkError => listed = links
=============================================================================
