--------------------------------- MODULE Inbox ---------------------------------
(***************************************************************************)
(* The inbox: notifications that agents raise and the daemon raises about  *)
(* missing hooks, the list a window polls, and the acknowledgements, by    *)
(* hand or by dwelling on the terminal that raised one.                    *)
(* Sources: packages/daemon/src/routes/notifications.ts, hook-health.ts,   *)
(* the by-agent-session routes of routes/terminals.ts, and InboxPanel with *)
(* useSessionLookup of packages/gui/src/renderer/src/App.tsx.              *)
(***************************************************************************)
EXTENDS Integers, FiniteSets, FiniteSetsExt, SequencesExt

CONSTANTS
  Raisers,      \* agent sessions
  NoTerminal,   \* no pane is focused, no terminal was found
  MaxNotes,     \* bound: notifications
  MaxTerminals, \* bound: rows of terminal_sessions
  MaxReplies    \* bound: answers to the inbox poll under way

ASSUME InboxBounds == MaxNotes \in Nat /\ MaxTerminals \in Nat /\ MaxReplies \in Nat \ {0}

NoteIds == 1..MaxNotes
TerminalIds == 1..MaxTerminals

VARIABLES
  notifications, \* the table, by id
  terminals,     \* rows of terminal_sessions that run an agent, by id
  listed,        \* the inbox the window shows
  replies,       \* answers to its reads under way
  acks,          \* acknowledgements under way
  found,         \* useSessionLookup: the terminal of a session, asked once
  active,        \* activeSessionId: the terminal of the focused pane
  seen           \* history: notifications that were ever listed

inboxVars == <<notifications, terminals, listed, replies, acks, found, active, seen>>

InboxTypeOK ==
  /\ notifications \in Seq([session : Raisers, kind : {"notify", "hooks-missing"},
                            acknowledged : BOOLEAN, superseded : BOOLEAN])
  /\ terminals \in Seq([session : Raisers, overdue : BOOLEAN, confirmed : BOOLEAN, warned : BOOLEAN])
  /\ Len(notifications) <= MaxNotes /\ Len(terminals) <= MaxTerminals
  /\ listed \subseteq NoteIds /\ acks \subseteq NoteIds /\ seen \subseteq NoteIds
  /\ replies \subseteq SUBSET NoteIds
  /\ DOMAIN found \subseteq Raisers
  /\ \A r \in DOMAIN found : found[r] \in TerminalIds \cup {NoTerminal}
  /\ active \in TerminalIds \cup {NoTerminal}

InboxInit ==
  /\ notifications = <<>> /\ terminals = <<>>
  /\ listed = {} /\ replies = {} /\ acks = {} /\ seen = {}
  /\ found = <<>>
  /\ active = NoTerminal

-----------------------------------------------------------------------------
(* The daemon. *)

IsActive(n) == ~n.acknowledged /\ ~n.superseded
Note(r, kind) == [session |-> r, kind |-> kind, acknowledged |-> FALSE, superseded |-> FALSE]

\* GET /notifications?unacknowledged=true.
ActiveNotes == {i \in DOMAIN notifications : IsActive(notifications[i])}

\* Latest row of an agent session.
TerminalOf(r) ==
  LET rows == {t \in DOMAIN terminals : terminals[t].session = r} IN
  IF rows = {} THEN NoTerminal ELSE Max(rows)

\* POST /notifications.  SupersededBug replaces after it inserts.
Supersede(ns, r) ==
  [i \in DOMAIN ns |->
     IF ns[i].session = r /\ IsActive(ns[i]) THEN [ns[i] EXCEPT !.superseded = TRUE] ELSE ns[i]]
NotifiedBug(ns, r) == Supersede(Append(ns, Note(r, "notify")), r)
Notified(ns, r) == Append(Supersede(ns, r), Note(r, "notify"))

Notify(r) ==
  /\ Len(notifications) < MaxNotes /\ TerminalOf(r) # NoTerminal
  /\ notifications' = Notified(notifications, r)
  /\ UNCHANGED <<terminals, listed, replies, acks, found, active, seen>>

\* A launch of the agent session, or its resume under a new row.
LaunchAgent(r) ==
  /\ Len(terminals) < MaxTerminals
  /\ terminals' = Append(terminals,
       [session |-> r, overdue |-> FALSE, confirmed |-> FALSE, warned |-> FALSE])
  /\ UNCHANGED <<notifications, listed, replies, acks, found, active, seen>>

\* CONFIRM_GRACE_MS pass since row t was made.
GracePasses(t) ==
  /\ ~terminals[t].overdue
  /\ terminals' = [terminals EXCEPT ![t].overdue = TRUE]
  /\ UNCHANGED <<notifications, listed, replies, acks, found, active, seen>>

\* POST .../hook-confirm, for every row of the agent session.
HookConfirm(r) ==
  /\ TerminalOf(r) # NoTerminal
  /\ terminals' = [t \in DOMAIN terminals |->
       IF terminals[t].session = r THEN [terminals[t] EXCEPT !.confirmed = TRUE] ELSE terminals[t]]
  /\ UNCHANGED <<notifications, listed, replies, acks, found, active, seen>>

Offenders == {t \in DOMAIN terminals :
                terminals[t].overdue /\ ~terminals[t].confirmed /\ ~terminals[t].warned}

AlreadyOpen == \E i \in DOMAIN notifications :
  notifications[i].kind = "hooks-missing" /\ ~notifications[i].acknowledged

CheckHookHealth ==
  /\ Offenders # {} /\ Len(notifications) < MaxNotes
  /\ terminals' = [t \in DOMAIN terminals |->
       IF t \in Offenders THEN [terminals[t] EXCEPT !.warned = TRUE] ELSE terminals[t]]
  /\ notifications' = IF AlreadyOpen THEN notifications
                      ELSE Append(notifications, Note(terminals[Min(Offenders)].session, "hooks-missing"))
  /\ UNCHANGED <<listed, replies, acks, found, active, seen>>

\* POST /notifications/:id/ack, which may be lost.  AcknowledgedBug takes the
\* session's active notification for the one of that id.
AcknowledgedBug(ns, i) ==
  [j \in DOMAIN ns |->
     IF ns[j].session = ns[i].session THEN [ns[j] EXCEPT !.acknowledged = TRUE] ELSE ns[j]]
Acknowledged(ns, i) == [ns EXCEPT ![i].acknowledged = TRUE]

AckArrives(i) ==
  /\ i \in acks /\ acks' = acks \ {i}
  /\ notifications' \in {notifications, Acknowledged(notifications, i)}
  /\ UNCHANGED <<terminals, listed, replies, found, active, seen>>

-----------------------------------------------------------------------------
(* The window. *)

\* The 3 s poll, or the read that follows an acknowledgement.  Reads of an empty
\* table are left out: nothing is listed then.
ReadInbox ==
  /\ notifications # <<>>
  /\ Cardinality(replies) < MaxReplies
  /\ replies' = replies \cup {ActiveNotes}
  /\ UNCHANGED <<notifications, terminals, listed, acks, found, active, seen>>

\* An answer arrives, in any order.  The sessions of its notifications that were
\* not met before are looked up, once: the first answer is kept for good.
ShowInbox(list) ==
  /\ list \in replies /\ replies' = replies \ {list}
  /\ listed' = list /\ seen' = seen \cup list
  /\ found' = LET met == DOMAIN found \cup {notifications[i].session : i \in list} IN
              [r \in met |-> IF r \in DOMAIN found THEN found[r] ELSE TerminalOf(r)]
  /\ UNCHANGED <<notifications, terminals, acks, active>>

\* The user focuses a pane; a pane keeps showing a row that was resumed until
\* its tree is read again.
Focus(t) ==
  /\ t \in DOMAIN terminals \cup {NoTerminal} /\ active' = t
  /\ UNCHANGED <<notifications, terminals, listed, replies, acks, found, seen>>

\* autoAckId: the newest listed notification of the focused terminal.
AutoAckIds == {i \in listed : LET r == notifications[i].session IN
                 active # NoTerminal /\ r \in DOMAIN found /\ found[r] = active}

\* AUTO_ACK_DWELL_MS pass with the same autoAckId, or the user acknowledges i.
Acknowledge(i) ==
  /\ acks' = acks \cup {i}
  /\ UNCHANGED <<notifications, terminals, listed, replies, found, active, seen>>
Dwell == AutoAckIds # {} /\ Acknowledge(Max(AutoAckIds))

InboxNext ==
  \/ \E r \in Raisers : Notify(r) \/ LaunchAgent(r) \/ HookConfirm(r)
  \/ \E t \in DOMAIN terminals : GracePasses(t)
  \/ CheckHookHealth \/ ReadInbox \/ Dwell
  \/ \E i \in acks : AckArrives(i)
  \/ \E list \in replies : ShowInbox(list)
  \/ \E t \in TerminalIds \cup {NoTerminal} : Focus(t)
  \/ \E i \in listed : Acknowledge(i)

\* The inbox is always mounted and polls on, and its reads are answered.
InboxFairness ==
  /\ WF_inboxVars(ReadInbox)
  /\ WF_inboxVars(\E list \in replies : ShowInbox(list))

InboxSpec == InboxInit /\ [][InboxNext]_inboxVars /\ InboxFairness

-----------------------------------------------------------------------------
(* Properties. *)

\* notifications.ts:43-48: a notification is seen in the inbox, or a later one of
\* the same session is, though it may be replaced before a window reads it.
RaisedReachesUser ==
  \A i \in NoteIds :
    i \in DOMAIN notifications ~>
      \E j \in seen : j >= i /\ notifications[j].session = notifications[i].session

\* App.tsx, ack and autoAckId: what is acknowledged was in the inbox before, never
\* a notification that took the place of the one the user looked at.
AckedWasSeen == \A i \in DOMAIN notifications : notifications[i].acknowledged => i \in seen

\* hook-health.ts:119-121: "One open warning is enough until the operator
\* dismisses it".  A warning that was not dismissed can be.
WarningsWaitForOperator ==
  \A i \in DOMAIN notifications :
    LET n == notifications[i] IN
    n.kind = "hooks-missing" /\ ~n.acknowledged => i \in ActiveNotes
=============================================================================
