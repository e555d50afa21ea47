------------------------------ MODULE MCDeskSide ------------------------------
(* One run of the parts of the desktop app that share no state with each     *)
(* other: pane trees, tabs, the terminals a window keeps, the inbox, the     *)
(* task panel, the editor and the campaigns' board.  A behaviour is about    *)
(* one of them, `part'.                                                      *)
EXTENDS PaneTree, Tabs, Viewers, Inbox, TaskBoard, Editor, Board

VARIABLE part

deskVars == <<part, treeVars, tabVars, viewerVars, inboxVars, boardVars, editorVars, campaignVars>>

DeskInit ==
  /\ part \in {"trees", "tabs", "viewers", "inbox", "tasks", "editor", "campaigns"}
  /\ TreeInit /\ TabInit /\ ViewerInit /\ InboxInit /\ BoardInit /\ EditorInit
  /\ CampaignInit

DeskNext ==
  /\ UNCHANGED part
  /\ \/ /\ part = "trees" /\ TreeNext
        /\ UNCHANGED <<tabVars, viewerVars, inboxVars, boardVars, editorVars, campaignVars>>
     \/ /\ part = "tabs" /\ TabsNext
        /\ UNCHANGED <<treeVars, viewerVars, inboxVars, boardVars, editorVars, campaignVars>>
     \/ /\ part = "viewers" /\ ViewersNext
        /\ UNCHANGED <<treeVars, tabVars, inboxVars, boardVars, editorVars, campaignVars>>
     \/ /\ part = "inbox" /\ InboxNext
        /\ UNCHANGED <<treeVars, tabVars, viewerVars, boardVars, editorVars, campaignVars>>
     \/ /\ part = "tasks" /\ BoardNext
        /\ UNCHANGED <<treeVars, tabVars, viewerVars, inboxVars, editorVars, campaignVars>>
     \/ /\ part = "editor" /\ EditorNext
        /\ UNCHANGED <<treeVars, tabVars, viewerVars, inboxVars, boardVars, campaignVars>>
     \/ /\ part = "campaigns" /\ CampaignNext
        /\ UNCHANGED <<treeVars, tabVars, viewerVars, inboxVars, boardVars, editorVars>>

DeskSpec == DeskInit /\ [][DeskNext]_deskVars /\ TabsFairness /\ InboxFairness
            /\ CampaignFairness
=============================================================================
