-------------------------------- MODULE Editor --------------------------------
(***************************************************************************)
(* An editor pane: it loads a file and saves it back through the daemon,   *)
(* which checks the file's mtime first, while agents write the same files. *)
(* Sources: packages/daemon/src/files.ts and packages/gui/src/renderer/src/*)
(* Editor.tsx.                                                             *)
(*                                                                         *)
(* A version stands for a content and its mtime: every write makes one.    *)
(***************************************************************************)
EXTENDS Integers, FiniteSets

CONSTANTS
  Files,      \* files that may be opened in the pane; each exists
  Unknown,    \* an mtime the editor has not read
  MaxWrites,  \* bound: writes of files
  MaxSaves,   \* bound: saves under way at once
  MaxSwitches \* bound: times the pane opens another file

Versions == 0..MaxWrites

ASSUME EditorBounds ==
  /\ MaxWrites \in Nat /\ MaxSaves \in Nat /\ MaxSwitches \in Nat
  /\ Files # {} /\ Unknown \notin Versions

VARIABLES
  disk,     \* the current version of each file
  writes,   \* versions made
  foreign,  \* versions agents made
  file,     \* the file the pane shows
  opening,  \* how often the pane opened one: an instance of the editor each
  loads,    \* reads under way
  base,     \* the version this instance's text comes from, once it got one
  mtimeRef, \* the version whose mtime the pane keeps
  raced,    \* history: mtimeRef is of a write made after the pane's own
  saves,    \* saves under way
  conflict, \* the pane offers to overwrite
  losses    \* history: how foreign versions the user had not seen were replaced

editorVars == <<disk, writes, foreign, file, opening, loads, base, mtimeRef, raced,
                saves, conflict, losses>>

EditorTypeOK ==
  /\ disk \in [Files -> Versions] /\ writes \in Versions /\ foreign \subseteq Versions
  /\ file \in Files /\ opening \in 0..MaxSwitches
  /\ base \in Versions \cup {Unknown} /\ mtimeRef \in Versions \cup {Unknown}
  /\ loads \subseteq [file : Files, opening : 0..MaxSwitches, stat : Versions \cup {Unknown}]
  /\ saves \subseteq [file : Files, opening : 0..MaxSwitches, stage : {"sent", "checked", "written"},
                      expected : Versions \cup {Unknown}, base : Versions \cup {Unknown},
                      forced : BOOLEAN, raced : BOOLEAN, at : Versions \cup {Unknown}]
  /\ raced \in BOOLEAN /\ conflict \in BOOLEAN
  /\ losses \subseteq {"forced", "unloaded", "raced", "unnoticed"}

Load(f, n) == [file |-> f, opening |-> n, stat |-> Unknown]

\* The pane opens the first file.
EditorInit ==
  /\ disk = [f \in Files |-> 0] /\ writes = 0 /\ foreign = {}
  /\ file = (CHOOSE f \in Files : TRUE) /\ opening = 0 /\ base = Unknown
  /\ loads = {Load(file, 0)} /\ saves = {}
  /\ mtimeRef = Unknown /\ raced = FALSE /\ conflict = FALSE
  /\ losses = {}

-----------------------------------------------------------------------------
WriteFile(f) ==
  /\ writes < MaxWrites /\ writes' = writes + 1
  /\ disk' = [disk EXCEPT ![f] = writes + 1]

AgentWrites(f) ==
  /\ WriteFile(f) /\ foreign' = foreign \cup {writes + 1}
  /\ UNCHANGED <<file, opening, loads, base, mtimeRef, raced, saves, conflict, losses>>

\* readTextFile: the stat, then the content.
LoadStat(l) ==
  /\ l \in loads /\ l.stat = Unknown
  /\ loads' = (loads \ {l}) \cup {[l EXCEPT !.stat = disk[l.file]]}
  /\ UNCHANGED <<disk, writes, foreign, file, opening, base, mtimeRef, raced, saves,
                 conflict, losses>>

\* What the read gives, which the pane shows unless it opened another file since
\* (`disposed').  OpenedBug reads first.
OpenedBug(l) == [content |-> l.stat, mtime |-> disk[l.file]]
Opened(l) == [content |-> disk[l.file], mtime |-> l.stat]

LoadEnds(l) ==
  /\ l \in loads /\ l.stat # Unknown /\ loads' = loads \ {l}
  /\ IF l.opening = opening
     THEN /\ raced' = FALSE
          /\ base' = Opened(l).content /\ mtimeRef' = Opened(l).mtime
     ELSE UNCHANGED <<base, mtimeRef, raced>>
  /\ UNCHANGED <<disk, writes, foreign, file, opening, saves, conflict, losses>>

\* openFile.  mtimeRef stays what it was until the file is loaded.
OpenFile(f) ==
  /\ f # file /\ opening < MaxSwitches
  /\ file' = f /\ opening' = opening + 1
  /\ base' = Unknown /\ conflict' = FALSE
  /\ loads' = loads \cup {Load(f, opening + 1)}
  /\ UNCHANGED <<disk, writes, foreign, mtimeRef, raced, saves, losses>>

\* Ctrl+S, the button, or Overwrite after a conflict.
Save(force) ==
  /\ Cardinality(saves) < MaxSaves
  /\ force => conflict
  /\ saves' = saves \cup
       {[file |-> file, opening |-> opening, stage |-> "sent", base |-> base, forced |-> force,
         expected |-> IF force THEN Unknown ELSE mtimeRef, raced |-> raced, at |-> Unknown]}
  /\ UNCHANGED <<disk, writes, foreign, file, opening, loads, base, mtimeRef, raced,
                 conflict, losses>>

-----------------------------------------------------------------------------
(* writeTextFile: a stat, the write, a stat. *)

Matches(s) == s.expected \in {Unknown, disk[s.file]}

SaveChecks(s) ==
  /\ s \in saves /\ s.stage = "sent"
  /\ IF Matches(s)
     THEN /\ saves' = (saves \ {s}) \cup {[s EXCEPT !.stage = "checked", !.at = disk[s.file]]}
          /\ UNCHANGED conflict
     ELSE /\ saves' = saves \ {s}
          /\ conflict' = TRUE
  /\ UNCHANGED <<disk, writes, foreign, file, opening, loads, base, mtimeRef, raced, losses>>

\* How save s comes to replace a version of an agent's that its text does not
\* come from.
Cause(s) ==
  IF s.forced THEN "forced"
  ELSE IF s.base = Unknown THEN "unloaded"
  ELSE IF s.raced \/ disk[s.file] # s.at THEN "raced" ELSE "unnoticed"

SaveWrites(s) ==
  /\ s \in saves /\ s.stage = "checked" /\ WriteFile(s.file)
  /\ saves' = (saves \ {s}) \cup {[s EXCEPT !.stage = "written", !.at = writes + 1]}
  /\ losses' = IF disk[s.file] \in foreign \ {s.base} THEN losses \cup {Cause(s)} ELSE losses
  /\ UNCHANGED <<foreign, file, opening, loads, base, mtimeRef, raced, conflict>>

\* The answer, with the mtime of the second stat.  The pane takes it whatever
\* file it shows by then, as it does a conflict; its text comes from the version
\* it wrote.
SaveEnds(s) ==
  /\ s \in saves /\ s.stage = "written" /\ saves' = saves \ {s}
  /\ mtimeRef' = disk[s.file] /\ raced' = (disk[s.file] # s.at)
  /\ base' = IF s.opening = opening THEN s.at ELSE base
  /\ conflict' = FALSE
  /\ UNCHANGED <<disk, writes, foreign, file, opening, loads, losses>>

\* The save fails in some other way, or its answer is lost.
SaveFails(s) ==
  /\ s \in saves /\ saves' = saves \ {s}
  /\ conflict' = FALSE
  /\ UNCHANGED <<disk, writes, foreign, file, opening, loads, base, mtimeRef, raced, losses>>

EditorNext ==
  \/ \E f \in Files : AgentWrites(f) \/ OpenFile(f)
  \/ \E l \in loads : LoadStat(l) \/ LoadEnds(l)
  \/ \E force \in BOOLEAN : Save(force)
  \/ \E s \in saves : SaveChecks(s) \/ SaveWrites(s) \/ SaveEnds(s) \/ SaveFails(s)

EditorSpec == EditorInit /\ [][EditorNext]_editorVars

-----------------------------------------------------------------------------
(* Properties. *)

\* files.ts:22-23: "so a write can notice the file changed underneath the
\* editor".  An agent's version that the user has not seen is replaced by a save
\* only if the user forced it, if the file had not loaded yet, or if the agent wrote
\* during the save itself or the one before; never unnoticed, though saves
\* overlap and end after the pane went to another file.
SavesNoticeEdits == "unnoticed" \notin losses
=============================================================================
