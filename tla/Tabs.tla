--------------------------------- MODULE Tabs ---------------------------------
(***************************************************************************)
(* The tabs of one campaign: the trees the daemon has saved and the copies *)
(* each open window shows and edits.  A window writes a whole tree with    *)
(* every edit and does not wait for the answer; closing a pane and         *)
(* launching in one go on, after the daemon's answer, with the tree they   *)
(* were started on.                                                        *)
(* Sources: packages/daemon/src/routes/layouts.ts and the TerminalsMain    *)
(* component of packages/gui/src/renderer/src/Terminals.tsx.               *)
(*                                                                         *)
(* A tree is what its panes hold; its shape is PaneTree's.  A failed read  *)
(* is a read that was not made.                                            *)
(***************************************************************************)
EXTENDS Integers, FiniteSets, Functions

CONSTANTS
  Windows,     \* GUI windows on the campaign
  Arrangers,   \* bound: windows whose user drags dividers or panes
  Empty,       \* what a pane without a session holds
  NoReply,     \* no answer to a poll is under way
  MaxPanes,    \* bound: pane ids
  MaxSessions, \* bound: session ids
  MaxTabs,     \* bound: tab ids
  MaxGestures  \* bound: what users, agents and restarts do

ASSUME TabBounds ==
  /\ Arrangers \subseteq Windows
  /\ {MaxPanes, MaxSessions} \subseteq Nat \ {0, 1}
  /\ MaxTabs \in Nat \ {0} /\ MaxGestures \in Nat

Panes == 1..MaxPanes
Sessions == 1..MaxSessions
TabIds == 1..MaxTabs

Trees == UNION {[P -> Sessions \cup {Empty}] : P \in (SUBSET Panes) \ {{}}}
Lists == UNION {[T -> Trees] : T \in SUBSET TabIds}

VARIABLES
  saved,     \* terminal_layouts
  live,      \* terminal sessions that were not deleted
  nextIds,   \* the next pane, session and tab id
  shown,     \* each window's layouts
  asked,     \* windows' handlers waiting for the daemon
  answered,  \* their calls with what the daemon answered, not yet gone on
  patches,   \* tree writes under way
  poll,      \* each window's answer to its layouts poll under way
  editing,   \* windows in "Edit layout" mode
  gripping,  \* windows where the user holds a divider or a pane's header
  dragging,  \* windows whose draggingRef is set
  gestures

tabVars == <<saved, live, nextIds, shown, asked, answered, patches, poll, editing,
             gripping, dragging, gestures>>

Handlers ==
  [kind : {"close", "launch"}, window : Windows, tab : TabIds, tree : Trees, pane : Panes]
    \cup [kind : {"newtab", "deltab"}, window : Windows, tab : TabIds]
\* The answer to c: to a launch a session, about tabs a list, else nothing.
GotFor(c) ==
  CASE c.kind = "close" -> {NoReply} [] c.kind = "launch" -> Sessions [] OTHER -> Lists

TabTypeOK ==
  /\ saved \in Lists
  /\ live \subseteq Sessions
  /\ nextIds \in [pane : 1..(MaxPanes + 1), session : 1..(MaxSessions + 1), tab : 1..(MaxTabs + 1)]
  /\ shown \in [Windows -> Lists]
  /\ asked \subseteq Handlers
  /\ \A a \in answered : a.call \in Handlers /\ a.got \in GotFor(a.call)
  /\ patches \subseteq [tab : TabIds, tree : Trees]
  /\ poll \in [Windows -> Lists \cup {NoReply}]
  /\ editing \subseteq Windows /\ gripping \subseteq Windows /\ dragging \subseteq Windows
  /\ gestures \in 0..MaxGestures

\* A campaign with one tab of two running sessions.
TabInit ==
  LET t == [p \in 1..2 |-> p] IN
  /\ saved = [k \in {1} |-> t]
  /\ live = 1..2
  /\ nextIds = [pane |-> 3, session |-> 3, tab |-> 2]
  /\ shown = [w \in Windows |-> saved]
  /\ asked = {} /\ answered = {} /\ patches = {}
  /\ poll = [w \in Windows |-> NoReply]
  /\ editing = {} /\ gripping = {} /\ dragging = {}
  /\ gestures = 0

-----------------------------------------------------------------------------
Holding(t, p, s) == [q \in DOMAIN t \cup {p} |-> IF q = p THEN s ELSE t[q]]
EmptyTree(p) == [q \in {p} |-> Empty]

\* closePane(...) ?? emptyTree().
Without(t, p, fresh) ==
  IF DOMAIN t = {p} THEN EmptyTree(fresh) ELSE Restrict(t, DOMAIN t \ {p})

\* remapSessionIds.
Remap(t, s, to) == [p \in DOMAIN t |-> IF t[p] = s THEN to ELSE t[p]]

SaveTree(list, k, t) == IF k \in DOMAIN list THEN [list EXCEPT ![k] = t] ELSE list

\* persistTree, with the trees written in ts: shown at once, and PATCHed.
Persist(w, ts) ==
  /\ shown' = [shown EXCEPT ![w] = [k \in DOMAIN @ |-> IF k \in DOMAIN ts THEN ts[k] ELSE @[k]]]
  /\ patches' = patches \cup {[tab |-> k, tree |-> ts[k]] : k \in DOMAIN ts}

Write(w, k, t) == Persist(w, [j \in {k} |-> t])

Gesture == gestures < MaxGestures /\ gestures' = gestures + 1
PaneIsFree == nextIds.pane \in Panes
UsePane == nextIds' = [nextIds EXCEPT !.pane = @ + 1]
\* A fresh pane if t would have none left without p.
UsePaneFor(t, p) ==
  IF DOMAIN t = {p} THEN PaneIsFree /\ UsePane ELSE UNCHANGED nextIds

\* endDrag.
EndDrag(w) ==
  /\ dragging' = dragging \ {w}
  /\ gripping' = gripping \ {w}

\* The button "Edit layout" / "Done".  ToggledBug leaves the drag as it is.
ToggledBug(w) == UNCHANGED <<dragging, gripping>>
Toggled(w) == EndDrag(w)

-----------------------------------------------------------------------------
(* The user in window w. *)

HandleSplit(w, k, p) ==
  /\ Gesture /\ w \notin gripping /\ PaneIsFree /\ UsePane
  /\ p \in DOMAIN shown[w][k]
  /\ Write(w, k, Holding(shown[w][k], nextIds.pane, Empty))
  /\ UNCHANGED <<saved, live, asked, answered, poll, editing, gripping, dragging>>

\* handleClosePane of an empty pane, and handleClosePane, handleLaunch and
\* handleResume up to their await.
HandleCloseEmpty(w, k, p) ==
  /\ Gesture /\ w \notin gripping
  /\ p \in DOMAIN shown[w][k] /\ shown[w][k][p] = Empty
  /\ UsePaneFor(shown[w][k], p)
  /\ Write(w, k, Without(shown[w][k], p, nextIds.pane))
  /\ UNCHANGED <<saved, live, asked, answered, poll, editing, gripping, dragging>>

Ask(w, k, p, kind) ==
  /\ Gesture /\ w \notin gripping
  /\ p \in DOMAIN shown[w][k]
  /\ kind = "close" => shown[w][k][p] # Empty
  /\ asked' = asked \cup
       {[kind |-> kind, window |-> w, tab |-> k, tree |-> shown[w][k], pane |-> p]}
  /\ UNCHANGED <<saved, live, nextIds, shown, answered, patches, poll, editing, gripping, dragging>>

HandleNewTab(w) ==
  /\ Gesture /\ w \notin gripping
  /\ asked' = asked \cup {[kind |-> "newtab", window |-> w, tab |-> 1]}
  /\ UNCHANGED <<saved, live, nextIds, shown, answered, patches, poll, editing, gripping, dragging>>

HandleDeleteLayout(w, k) ==
  /\ Gesture /\ w \notin gripping /\ k \in DOMAIN shown[w]
  /\ asked' = asked \cup {[kind |-> "deltab", window |-> w, tab |-> k]}
  /\ UNCHANGED <<saved, live, nextIds, shown, answered, patches, poll, editing, gripping, dragging>>

ToggleEditing(w) ==
  /\ w \notin gripping
  /\ editing' = IF w \in editing THEN editing \ {w} ELSE editing \cup {w}
  /\ Toggled(w)
  /\ UNCHANGED <<saved, live, nextIds, shown, asked, answered, patches, poll, gestures>>

\* The user takes hold of a divider, or in edit mode of a pane's header.
Grip(w) ==
  /\ Gesture /\ w \notin gripping
  /\ gripping' = gripping \cup {w}
  /\ dragging' = dragging \cup {w}
  /\ UNCHANGED <<saved, live, nextIds, shown, asked, answered, patches, poll, editing>>

\* handleSizesCommit, or handleDropPane onto another pane of the tab.
DropInTab(w, k) ==
  /\ w \in gripping /\ EndDrag(w)
  /\ IF k \in DOMAIN shown[w] THEN Write(w, k, shown[w][k]) ELSE UNCHANGED <<shown, patches>>
  /\ UNCHANGED <<saved, live, nextIds, asked, answered, poll, editing, gestures>>

\* handleDropOnTab.
DropOnTab(w, j, k, p) ==
  /\ w \in gripping /\ w \in editing /\ EndDrag(w)
  /\ j # k /\ {j, k} \subseteq DOMAIN shown[w] /\ p \in DOMAIN shown[w][j]
  /\ UsePaneFor(shown[w][j], p)
  /\ LET from == Without(shown[w][j], p, nextIds.pane)
         to == Holding(shown[w][k], p, shown[w][j][p]) IN
     Persist(w, [i \in {j, k} |-> IF i = j THEN from ELSE to])
  /\ UNCHANGED <<saved, live, asked, answered, poll, editing, gestures>>

\* The header is let go over nothing.  The browser's dragend is lost when the
\* header was unmounted meanwhile, by an answer that replaced the tree.
LetGo(w) ==
  /\ w \in gripping /\ w \in editing
  /\ gripping' = gripping \ {w}
  /\ dragging' \in {dragging, dragging \ {w}}
  /\ UNCHANGED <<saved, live, nextIds, shown, asked, answered, patches, poll, editing, gestures>>

-----------------------------------------------------------------------------
(* The daemon. *)

\* PATCH /layouts/:id with a tree: lost, or refused for a tab that is gone, and
\* nobody looks at the answer.
PatchArrives(m) ==
  /\ m \in patches
  /\ patches' = patches \ {m}
  /\ saved' \in {saved, SaveTree(saved, m.tab, m.tree)}
  /\ UNCHANGED <<live, nextIds, shown, asked, answered, poll, editing, gripping, dragging, gestures>>

\* DELETE /terminals/:id, and pruneSessionFromLayouts; or it fails, and the
\* handler goes on all the same.
DeleteSession(c) ==
  /\ c.kind = "close"
  /\ LET s == c.tree[c.pane] IN
     \/ /\ live' = live \ {s}
        /\ saved' = [k \in DOMAIN saved |-> Remap(saved[k], s, Empty)]
     \/ UNCHANGED <<live, saved>>
  /\ answered' = answered \cup {[call |-> c, got |-> NoReply]}
  /\ UNCHANGED nextIds

\* POST /terminals, for a new session or a resumed one.
CreateSession(c) ==
  /\ c.kind = "launch" /\ nextIds.session \in Sessions
  /\ live' = live \cup {nextIds.session}
  /\ nextIds' = [nextIds EXCEPT !.session = @ + 1]
  /\ answered' = answered \cup {[call |-> c, got |-> nextIds.session]}
  /\ UNCHANGED saved

NewTab(list) ==
  /\ nextIds.tab \in TabIds /\ PaneIsFree
  /\ nextIds' = [nextIds EXCEPT !.tab = @ + 1, !.pane = @ + 1]
  /\ saved' = [k \in DOMAIN list \cup {nextIds.tab} |->
                 IF k = nextIds.tab THEN EmptyTree(nextIds.pane) ELSE list[k]]

\* POST /campaigns/:id/layouts.
CreateTab(c) ==
  /\ c.kind = "newtab" /\ NewTab(saved)
  /\ answered' = answered \cup {[call |-> c, got |-> Restrict(saved', {nextIds.tab})]}
  /\ UNCHANGED live

\* DELETE /layouts/:id, and the read of reloadLayouts with the tab it makes if
\* none is left.
DeleteTab(c) ==
  /\ c.kind = "deltab"
  /\ LET list == Restrict(saved, DOMAIN saved \ {c.tab}) IN
     IF DOMAIN list = {} THEN NewTab(list) ELSE saved' = list /\ UNCHANGED nextIds
  /\ answered' = answered \cup {[call |-> c, got |-> saved']}
  /\ UNCHANGED live

Answer(c) ==
  /\ c \in asked /\ asked' = asked \ {c}
  /\ DeleteSession(c) \/ CreateSession(c) \/ CreateTab(c) \/ DeleteTab(c)
  /\ UNCHANGED <<shown, patches, poll, editing, gripping, dragging, gestures>>

Refuse(c) ==
  /\ c \in asked /\ c.kind # "close" /\ asked' = asked \ {c}
  /\ UNCHANGED <<saved, live, nextIds, shown, answered, patches, poll, editing, gripping,
                 dragging, gestures>>

\* POST /pin-note: a new pane below the session's.
PinNote(k, p) ==
  /\ Gesture /\ PaneIsFree /\ UsePane
  /\ k \in DOMAIN saved /\ p \in DOMAIN saved[k] /\ saved[k][p] # Empty
  /\ saved' = [saved EXCEPT ![k] = Holding(@, nextIds.pane, Empty)]
  /\ UNCHANGED <<live, shown, asked, answered, patches, poll, editing, gripping, dragging>>

\* A sweep resumes session s under a new id: remapLayouts.
ResumeElsewhere(s) ==
  /\ Gesture /\ s \in live /\ nextIds.session \in Sessions
  /\ live' = live \cup {nextIds.session}
  /\ nextIds' = [nextIds EXCEPT !.session = @ + 1]
  /\ saved' = [k \in DOMAIN saved |-> Remap(saved[k], s, nextIds.session)]
  /\ UNCHANGED <<shown, asked, answered, patches, poll, editing, gripping, dragging>>

-----------------------------------------------------------------------------
(* A window goes on: its call c got this. *)

\* handleClosePane after its await, with the tree it was called with.
PersistClosed(c) ==
  /\ c.kind = "close"
  /\ UsePaneFor(c.tree, c.pane)
  /\ Write(c.window, c.tab, Without(c.tree, c.pane, nextIds.pane))

PersistLaunched(c, session) ==
  /\ c.kind = "launch"
  /\ Write(c.window, c.tab, Holding(c.tree, c.pane, session))
  /\ UNCHANGED nextIds

ShowList(w, list) ==
  /\ shown' = [shown EXCEPT ![w] = list]
  /\ UNCHANGED <<patches, nextIds>>

\* The new tab comes behind those on show; after a deletion, what was read.
AddTabs(list, more) ==
  [k \in DOMAIN list \cup DOMAIN more |-> IF k \in DOMAIN list THEN list[k] ELSE more[k]]
ShowNewTab(c, list) == c.kind = "newtab" /\ ShowList(c.window, AddTabs(shown[c.window], list))
ReloadLayouts(c, list) == c.kind = "deltab" /\ ShowList(c.window, list)

GoOn(a) ==
  /\ a \in answered /\ answered' = answered \ {a}
  /\ \/ PersistClosed(a.call) \/ PersistLaunched(a.call, a.got)
     \/ ShowNewTab(a.call, a.got) \/ ReloadLayouts(a.call, a.got)
  /\ UNCHANGED <<saved, live, asked, poll, editing, gripping, dragging, gestures>>

\* The 3 s poll: draggingRef is read before the request only.  Polls before the
\* first gesture are left out: they find what is shown.
PollLayouts(w) ==
  /\ gestures > 0
  /\ poll[w] = NoReply /\ w \notin dragging
  /\ poll' = [poll EXCEPT ![w] = saved]
  /\ UNCHANGED <<saved, live, nextIds, shown, asked, answered, patches, editing, gripping,
                 dragging, gestures>>

ShowPolled(w) ==
  /\ poll[w] # NoReply
  /\ shown' = [shown EXCEPT ![w] = poll[w]]
  /\ poll' = [poll EXCEPT ![w] = NoReply]
  /\ UNCHANGED <<saved, live, nextIds, asked, answered, patches, editing, gripping, dragging,
                 gestures>>

-----------------------------------------------------------------------------
UserActs(w) ==
  \/ HandleNewTab(w) \/ LetGo(w)
  \/ w \in Arrangers /\ (ToggleEditing(w) \/ Grip(w))
  \/ \E k \in DOMAIN shown[w] :
       \/ HandleDeleteLayout(w, k)
       \/ \E j \in DOMAIN shown[w], p \in DOMAIN shown[w][k] : DropOnTab(w, k, j, p)
       \/ \E p \in DOMAIN shown[w][k] :
            \/ HandleSplit(w, k, p) \/ HandleCloseEmpty(w, k, p)
            \/ \E kind \in {"close", "launch"} : Ask(w, k, p, kind)
  \/ \E k \in TabIds : DropInTab(w, k)

TabsNext ==
  \/ \E w \in Windows : UserActs(w) \/ PollLayouts(w) \/ ShowPolled(w)
  \/ \E m \in patches : PatchArrives(m)
  \/ \E c \in asked : Answer(c) \/ Refuse(c)
  \/ \E a \in answered : GoOn(a)
  \/ \E k \in DOMAIN saved : \E p \in DOMAIN saved[k] : PinNote(k, p)
  \/ \E s \in live : ResumeElsewhere(s)

\* Requests are answered, and an open window polls on; users do as they like.
TabsFairness ==
  /\ WF_tabVars(\E m \in patches : PatchArrives(m))
  /\ WF_tabVars(\E c \in asked : Answer(c) \/ Refuse(c))
  /\ WF_tabVars(\E a \in answered : GoOn(a))
  /\ \A w \in Windows : WF_tabVars(PollLayouts(w)) /\ WF_tabVars(ShowPolled(w))

TabsSpec == TabInit /\ [][TabsNext]_tabVars /\ TabsFairness

-----------------------------------------------------------------------------
(* Properties. *)

\* Terminals.tsx, the layouts poll: once nobody edits any more, every window
\* shows what the daemon has saved, whatever writes were lost, refused, late or
\* overtaken, unless its user still holds something or is in edit mode.
WindowsConverge == <>[](\A w \in Windows : w \in gripping \cup editing \/ shown[w] = saved)

\* routes/layouts.ts:33-34, of deleting a session: "removes it from every layout
\* in its campaign that still references it, so a pane never shows a dead session
\* id, it just becomes empty and relaunchable".  Here: once no write is under way.
SavedPanesAreLive ==
  (asked = {} /\ answered = {} /\ patches = {}) =>
    \A k \in DOMAIN saved : \A p \in DOMAIN saved[k] : saved[k][p] \in live \cup {Empty}
=============================================================================
