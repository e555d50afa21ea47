--------------------------------- MODULE Board ---------------------------------
(***************************************************************************)
(* A window's campaigns: the switcher, and the panel that shows the PRs    *)
(* and the repositories of the campaign that is selected, polls them, and  *)
(* syncs them with GitHub.                                                 *)
(* Sources: App, NewCampaignForm, CampaignPicker, PrBoard, CampaignsPanel  *)
(* of packages/gui/src/renderer/src/App.tsx, and the campaign routes of    *)
(* packages/daemon/src/routes/campaigns.ts.                                *)
(*                                                                         *)
(* A campaign has one PR and one repository.  A request is served when it  *)
(* is sent, those of one load together; answers come later, in any order,  *)
(* or not at all.  The time of a sync of a PR is the number of clicks on   *)
(* Sync before it.                                                         *)
(***************************************************************************)
EXTENDS Integers, FiniteSets

CONSTANTS
  MaxCampaigns,   \* bound: campaigns ever, the first two are there
  MaxPicks,       \* bound: times the user selects something else
  MaxEdits,       \* bound: times somebody changes a campaign
  MaxSyncClicks,  \* bound: clicks on Sync
  Nothing         \* null: no campaign, no rows

ASSUME BoardConstants ==
  /\ MaxCampaigns \in Nat \ {0, 1}
  /\ {MaxPicks, MaxEdits, MaxSyncClicks} \subseteq Nat

CampaignIds == 1..MaxCampaigns
Never == -1      \* synced_at NULL

VARIABLES
  (* the database *)
  campaigns,   \* campaigns that are there
  archived,
  nextCampaign,
  data,        \* the PR and the repository of each
  (* the window *)
  open,
  inSwitcher,  \* campaigns: those the switcher shows
  showArchived,
  activeId,    \* activeCampaignId
  onBoard,     \* prs and repos, and whose they are
  mark,        \* syncStartedAt, as the number of the click, 0 for null
  syncing,     \* the click whose request or whose pause goes on
  nets,        \* clicks whose 60 s timer runs
  (* answers on their way *)
  lists, fetches, edits,
  (* bounds *)
  picks, changes, clicked

dbVars == <<campaigns, archived, nextCampaign, data>>
boxVars == <<open, inSwitcher, showArchived, activeId>>
panelVars == <<onBoard, mark, syncing, nets, fetches, edits>>
panelBounds == <<picks, changes, clicked>>
campaignVars == <<dbVars, boxVars, panelVars, lists, panelBounds>>

Data == [pr : BOOLEAN, synced : Never..MaxSyncClicks, pinned : BOOLEAN]
Rows == [of : CampaignIds, is : Data]

CampaignTypeOK ==
  /\ campaigns \subseteq CampaignIds /\ archived \subseteq campaigns
  /\ nextCampaign \in 1..(MaxCampaigns + 1)
  /\ data \in [CampaignIds -> Data]
  /\ open \in BOOLEAN /\ showArchived \in BOOLEAN
  /\ inSwitcher \subseteq CampaignIds
  /\ activeId \in CampaignIds \union {Nothing}
  /\ onBoard \in Rows \union {Nothing}
  /\ mark \in 0..MaxSyncClicks /\ syncing \in 0..MaxSyncClicks
  /\ nets \subseteq 1..MaxSyncClicks
  /\ lists \subseteq [ids : SUBSET CampaignIds, select : CampaignIds \union {Nothing}]
  /\ fetches \subseteq Rows
  /\ edits \subseteq [of : CampaignIds, row : {"pr", "pinned"}, to : BOOLEAN]
  /\ picks \in Nat /\ changes \in Nat /\ clicked \in 0..MaxSyncClicks

CampaignInit ==
  /\ campaigns = {1, 2} /\ archived = {} /\ nextCampaign = 3
  /\ data = [c \in CampaignIds |->
               [pr |-> TRUE, synced |-> IF c = 1 THEN 0 ELSE Never, pinned |-> TRUE]]
  /\ open = FALSE /\ inSwitcher = {} /\ showArchived = FALSE /\ activeId = Nothing
  /\ onBoard = Nothing /\ mark = 0 /\ syncing = 0 /\ nets = {}
  /\ lists = {} /\ fetches = {} /\ edits = {}
  /\ picks = 0 /\ changes = 0 /\ clicked = 0

-----------------------------------------------------------------------------
(* The switcher. *)

\* reloadCampaigns, of the campaigns there are then.
ReloadCampaigns(there, away, all, select) ==
  lists' = lists \union {[ids |-> IF all THEN there ELSE there \ away, select |-> select]}

OpenWindow ==
  /\ ~open /\ open' = TRUE
  /\ ReloadCampaigns(campaigns, archived, showArchived, Nothing)
  /\ UNCHANGED <<dbVars, inSwitcher, showArchived, activeId, panelVars, panelBounds>>

ToggleArchived ==
  /\ open /\ picks < MaxPicks /\ picks' = picks + 1
  /\ showArchived' = ~showArchived
  /\ ReloadCampaigns(campaigns, archived, showArchived', Nothing)
  /\ UNCHANGED <<dbVars, open, inSwitcher, activeId, panelVars, changes, clicked>>

\* Another campaign becomes the active one: the loads of the last are cancelled.
Select(c) ==
  /\ activeId' = c
  /\ fetches' = IF c = activeId THEN fetches ELSE {}

PickCampaign(c) ==
  /\ open /\ c \in inSwitcher /\ c # activeId
  /\ picks < MaxPicks /\ picks' = picks + 1
  /\ Select(c)
  /\ UNCHANGED <<dbVars, open, inSwitcher, showArchived, onBoard, mark, syncing, nets, edits, lists,
                 changes, clicked>>

\* jumpToSession selects the campaign of a session, listed or not.
JumpTo(c) ==
  /\ open /\ c \in campaigns \ inSwitcher
  /\ picks < MaxPicks /\ picks' = picks + 1
  /\ Select(c)
  /\ UNCHANGED <<dbVars, open, inSwitcher, showArchived, onBoard, mark, syncing, nets, edits, lists,
                 changes, clicked>>

First(ids) == IF ids = {} THEN Nothing ELSE CHOOSE c \in ids : \A e \in ids : c <= e

\* The selection is kept if it is still listed, else the first takes its place.
ListArrives(l) ==
  /\ l \in lists /\ lists' = lists \ {l}
  /\ inSwitcher' = l.ids
  /\ Select(IF l.select # Nothing THEN l.select
            ELSE IF activeId \in l.ids THEN activeId ELSE First(l.ids))
  /\ UNCHANGED <<dbVars, open, showArchived, onBoard, mark, syncing, nets, edits, panelBounds>>

ListFails(l) ==
  /\ l \in lists /\ lists' = lists \ {l}
  /\ UNCHANGED <<dbVars, boxVars, panelVars, panelBounds>>

-----------------------------------------------------------------------------
(* Campaigns come, are archived and go: from this window, which then reads   *)
(* the list again, or from elsewhere.                                        *)

Change == changes < MaxEdits /\ changes' = changes + 1

MakeCampaign ==
  /\ nextCampaign \in CampaignIds
  /\ campaigns' = campaigns \union {nextCampaign} /\ nextCampaign' = nextCampaign + 1

DropCampaign(c) == campaigns' = campaigns \ {c} /\ archived' = archived \ {c}

CreateCampaign ==
  /\ open /\ Change /\ MakeCampaign
  /\ ReloadCampaigns(campaigns', archived, showArchived, nextCampaign)
  /\ UNCHANGED <<archived, data, boxVars, panelVars, picks, clicked>>

Flip(S, c) == IF c \in S THEN S \ {c} ELSE S \union {c}

\* handleArchiveToggle, of a campaign that is listed.
ArchiveCampaign ==
  /\ Change /\ activeId \in inSwitcher \intersect campaigns
  /\ archived' = Flip(archived, activeId)
  /\ ReloadCampaigns(campaigns, archived', showArchived, Nothing)
  /\ UNCHANGED <<campaigns, nextCampaign, data, boxVars, panelVars, picks, clicked>>

\* handleDelete, which asks first.
DeleteActive ==
  /\ Change /\ activeId \in inSwitcher \intersect campaigns
  /\ DropCampaign(activeId)
  /\ ReloadCampaigns(campaigns', archived', showArchived, Nothing)
  /\ UNCHANGED <<nextCampaign, data, boxVars, panelVars, picks, clicked>>

ChangedElsewhere(c) ==
  /\ Change /\ c \in campaigns
  /\ \/ DropCampaign(c) /\ UNCHANGED data
     \/ archived' = Flip(archived, c) /\ UNCHANGED <<campaigns, data>>
     \/ /\ \/ data' = [data EXCEPT ![c].pr = ~@, ![c].synced = Never]
           \/ data' = [data EXCEPT ![c].pinned = ~@]
        /\ UNCHANGED <<campaigns, archived>>
  /\ UNCHANGED <<nextCampaign, boxVars, panelVars, lists, picks, clicked>>

-----------------------------------------------------------------------------
(* The panel. *)

\* Which campaign's rows are polled: that of the last effect.  PolledBug never
\* runs the effect again.
PolledBug == IF inSwitcher = {} THEN {} ELSE {First(inSwitcher)}
Polled == IF activeId = Nothing THEN {} ELSE {activeId}

LoadRows(c) ==
  /\ c \in Polled /\ c \in campaigns
  /\ Cardinality(fetches) < 2
  /\ fetches' = fetches \union {[of |-> c, is |-> data[c]]}
  /\ UNCHANGED <<dbVars, boxVars, onBoard, mark, syncing, nets, edits, lists, panelBounds>>

\* Every row that was ever synced has been since click k.
CaughtUp(rows, k) ==
  rows # Nothing /\ rows.is.pr => rows.is.synced \in {Never} \union k..MaxSyncClicks

\* The effect of new rows or a new mark.
Show(rows, k) ==
  /\ onBoard' = rows
  /\ mark' = IF CaughtUp(rows, k) THEN 0 ELSE k

RowsArrive(l) ==
  /\ l \in fetches /\ fetches' = fetches \ {l}
  /\ Show(l, mark)
  /\ UNCHANGED <<dbVars, boxVars, syncing, nets, edits, lists, panelBounds>>

RowsFail(l) ==
  /\ l \in fetches /\ fetches' = fetches \ {l}
  /\ UNCHANGED <<dbVars, boxVars, onBoard, mark, syncing, nets, edits, lists, panelBounds>>

\* handleSync: every row not synced since shows a spinner.
ClickSync ==
  /\ activeId # Nothing /\ syncing = 0 /\ inSwitcher # {}
  /\ clicked < MaxSyncClicks /\ clicked' = clicked + 1
  /\ syncing' = clicked'
  /\ Show(onBoard, clicked')
  /\ UNCHANGED <<dbVars, boxVars, nets, fetches, edits, lists, picks, changes>>

\* The request is answered or fails: the button comes back after a pause, and a
\* safety net is spread.
Netted(k) == nets \union {k}

SyncAnswered ==
  /\ syncing # 0 /\ syncing' = 0
  /\ nets' = Netted(syncing)
  /\ UNCHANGED <<dbVars, boxVars, onBoard, mark, fetches, edits, lists, panelBounds>>

\* A net takes away the spinners of its own click only.
NetFires(k) ==
  /\ k \in nets /\ nets' = nets \ {k}
  /\ mark' = IF mark = k THEN 0 ELSE mark
  /\ UNCHANGED <<dbVars, boxVars, onBoard, syncing, fetches, edits, lists, panelBounds>>

\* GitHub answers about the PR, which is unfinished and known there; or never.
GithubAnswers(c) ==
  /\ c \in campaigns /\ data[c].pr /\ data[c].synced # clicked
  /\ data' = [data EXCEPT ![c].synced = clicked]
  /\ UNCHANGED <<campaigns, archived, nextCampaign, boxVars, panelVars, lists, panelBounds>>

\* The rows are rendered.
CanAct == onBoard # Nothing /\ inSwitcher # {}

\* toggleRepoPinned, of a repository that is shown as pinned, and the PR's
\* delete act on what is shown; the repository is looked for in the active
\* campaign, the PR by its id.
UnpinRepo ==
  /\ Change /\ CanAct /\ onBoard.is.pinned /\ activeId \in campaigns
  /\ IF onBoard.of = activeId
     THEN /\ data' = [data EXCEPT ![activeId].pinned = FALSE]
          /\ edits' = edits \union {[of |-> activeId, row |-> "pinned", to |-> FALSE]}
     ELSE UNCHANGED <<data, edits>>
  /\ UNCHANGED <<campaigns, archived, nextCampaign, boxVars, onBoard, mark, syncing, nets, fetches,
                 lists, picks, clicked>>

DeleteShown ==
  /\ Change /\ CanAct /\ onBoard.is.pr
  /\ onBoard.of \in campaigns /\ data[onBoard.of].pr
  /\ data' = [data EXCEPT ![onBoard.of].pr = FALSE]
  /\ edits' = edits \union {[of |-> onBoard.of, row |-> "pr", to |-> FALSE]}
  /\ UNCHANGED <<campaigns, archived, nextCampaign, boxVars, onBoard, mark, syncing, nets, fetches,
                 lists, picks, clicked>>

\* The answer changes the row it is about, if that is shown.
EditArrives(e) ==
  /\ e \in edits /\ edits' = edits \ {e}
  /\ IF onBoard = Nothing \/ onBoard.of # e.of THEN UNCHANGED <<onBoard, mark>>
     ELSE Show([onBoard EXCEPT !.is = [@ EXCEPT ![e.row] = e.to]], mark)
  /\ UNCHANGED <<dbVars, boxVars, syncing, nets, fetches, lists, panelBounds>>

\* The user turns to another tab and back: the panel is made anew.
Remount ==
  /\ open /\ picks < MaxPicks /\ picks' = picks + 1
  /\ onBoard' = Nothing /\ mark' = 0 /\ syncing' = 0 /\ nets' = {} /\ fetches' = {} /\ edits' = {}
  /\ UNCHANGED <<dbVars, boxVars, lists, changes, clicked>>

-----------------------------------------------------------------------------
CampaignNext ==
  \/ OpenWindow \/ ToggleArchived \/ CreateCampaign \/ ArchiveCampaign \/ DeleteActive
  \/ \E c \in CampaignIds :
       PickCampaign(c) \/ JumpTo(c) \/ ChangedElsewhere(c) \/ LoadRows(c) \/ GithubAnswers(c)
  \/ \E l \in lists : ListArrives(l) \/ ListFails(l)
  \/ \E l \in fetches : RowsArrive(l) \/ RowsFail(l)
  \/ \E e \in edits : EditArrives(e)
  \/ \E k \in nets : NetFires(k)
  \/ ClickSync \/ SyncAnswered \/ UnpinRepo \/ DeleteShown \/ Remount

CampaignSpec == CampaignInit /\ [][CampaignNext]_campaignVars

\* The poll goes on and not every load fails; the request of a sync ends, and
\* timers fire.  Nobody has to click, and GitHub need not answer.
CampaignFairness ==
  /\ \A c \in CampaignIds : WF_campaignVars(LoadRows(c))
  /\ SF_campaignVars(\E l \in fetches : RowsArrive(l))
  /\ WF_campaignVars(SyncAnswered) /\ WF_campaignVars(\E k \in nets : NetFires(k))

-----------------------------------------------------------------------------
(* Properties. *)

\* App.tsx:718-719: "don't leave their spinners running forever".  Whatever was
\* selected, edited and synced, and however answers overtook each other, in the
\* end the panel shows the active campaign as it is, and no spinner.
BoardSettles ==
  <>[](mark = 0 /\ (activeId \in campaigns => onBoard = [of |-> activeId, is |-> data[activeId]]))
=============================================================================
