------------------------------ MODULE Conversations ------------------------------
(***************************************************************************)
(* How a terminal session learns the id of its agent's conversation, for a *)
(* CLI that makes the id itself and shows it only in files that all of its *)
(* sessions in one directory write: a cache that names the last of them    *)
(* (agy), or one file for each with the time of its last write (codex).    *)
(* The id is what a later session resumes.                                 *)
(* Sources: packages/daemon/src/pty-host.ts, terminals.ts and              *)
(* agents.default.yaml, for the sessions of one adapter in one directory.  *)
(*                                                                         *)
(* The CLI is external.  There is no clock: polling may end at any poll,   *)
(* a file counts as written within the last second or as older.            *)
(***************************************************************************)
EXTENDS Integers, Sequences, FiniteSetsExt

CONSTANTS
  Sessions,   \* terminal sessions, each launched once
  Foreign,    \* conversations of the CLI outside Besiege
  None,
  MaxWrites   \* bound: writes of conversations that are there already

ASSUME ConversationConstants ==
  /\ None \notin Sessions \cup Foreign /\ Sessions \cap Foreign = {} /\ MaxWrites \in Nat

Convs == Sessions \cup Foreign

VARIABLES
  source,    \* "cache" (sessionIdFromWorkspaceCache) or "rollout" (sessionIdFromRolloutDir)
  written,   \* the conversations as their files were written, the last at the end
  state,     \* of a session: "new", "live", "exited" as its row has it
  own,       \* the conversation its CLI is in; a session's first one bears its name
  previous,  \* workspaceCacheEntryBefore
  since,     \* conversations written since the launch
  polling,   \* discoverSessionId goes on
  record,    \* resumeSessionId of the host's record
  row,       \* resume_session_id
  shared,    \* history: sessions with another conversation written meanwhile
  writes

convVars == <<source, written, state, own, previous, since, polling, record, row, shared, writes>>

\* Of the conversations of C, the one written last.
LastOf(C) ==
  LET writings == {i \in DOMAIN written : written[i] \in C} IN
  IF writings = {} THEN None ELSE written[Max(writings)]
LastWritten == LastOf(Convs)

ConvInit ==
  /\ source \in {"cache", "rollout"}
  /\ written \in {<<>>} \cup {<<c>> : c \in Foreign}
  /\ state = [s \in Sessions |-> "new"] /\ own = [s \in Sessions |-> None]
  /\ previous = [s \in Sessions |-> None] /\ since = [s \in Sessions |-> {}]
  /\ polling = {}
  /\ record = [s \in Sessions |-> None] /\ row = [s \in Sessions |-> None]
  /\ shared = {} /\ writes = 0

\* The CLI writes the file of conversation c; s is its session, if any.
Written(c, s) ==
  /\ written' = Append(written, c)
  /\ since' = [o \in Sessions |-> IF o \in polling THEN since[o] \cup {c} ELSE since[o]]
  /\ shared' = shared \cup (polling \ {s})

\* launch, of a new conversation: the cache is read before the spawn.  Files of
\* the second before it count as written since.
Launch(s) ==
  /\ state[s] = "new"
  /\ state' = [state EXCEPT ![s] = "live"]
  /\ previous' = [previous EXCEPT ![s] = IF source = "cache" THEN LastWritten ELSE None]
  /\ polling' = polling \cup {s}
  /\ \/ UNCHANGED <<since, shared>>
     \/ /\ source = "rollout" /\ written # <<>>
        /\ since' = [since EXCEPT ![s] = {LastWritten}]
        /\ shared' = shared \cup {s}
  /\ UNCHANGED <<source, written, own, record, row, writes>>

\* launch, of a session that resumes what another, ended or not, was in.  It is
\* refused if that one has no conversation id; the new row and record start
\* with it.
Resume(s, prior) ==
  /\ state[s] = "new" /\ state[prior] # "new" /\ row[prior] # None
  /\ state' = [state EXCEPT ![s] = "live"]
  /\ own' = [own EXCEPT ![s] = row[prior]]
  /\ record' = [record EXCEPT ![s] = row[prior]]
  /\ row' = [row EXCEPT ![s] = row[prior]]
  /\ UNCHANGED <<source, written, previous, since, polling, shared, writes>>

\* The CLI begins its conversation.
CliBegins(s) ==
  /\ state[s] = "live" /\ own[s] = None
  /\ own' = [own EXCEPT ![s] = s]
  /\ Written(s, s)
  /\ UNCHANGED <<source, state, previous, polling, record, row, writes>>

\* It goes on in one it has begun, or a CLI outside Besiege does.
CliGoesOn(c, s) ==
  /\ writes < MaxWrites /\ writes' = writes + 1
  /\ \/ s \in Sessions /\ state[s] = "live" /\ own[s] = c
     \/ s = None /\ c \in Foreign
  /\ Written(c, s)
  /\ UNCHANGED <<source, state, own, previous, polling, record, row>>

\* readWorkspaceCacheEntry and findRolloutSessionId.
Read(s) ==
  IF source = "cache" THEN LastWritten ELSE LastOf(since[s])

\* What is read is the session's own if it has changed; NewsBug takes what is
\* there.
NewsBug(s) == Read(s) # None
News(s) == Read(s) # None /\ Read(s) # previous[s]

Poll(s) ==
  /\ s \in polling /\ state[s] = "live" /\ News(s)
  /\ record' = [record EXCEPT ![s] = Read(s)]
  /\ polling' = polling \ {s}
  /\ UNCHANGED <<source, written, state, own, previous, since, row, shared, writes>>

\* The session has exited, or 20 s have passed.
StopPolling(s) ==
  /\ s \in polling
  /\ polling' = polling \ {s}
  /\ UNCHANGED <<source, written, state, own, previous, since, record, row, shared, writes>>

\* By an event on the control plane's own host; by a heartbeat from another, as
\* long as the session is active.
Report(s) ==
  /\ state[s] = "live" /\ record[s] # None /\ row[s] # record[s]
  /\ row' = [row EXCEPT ![s] = record[s]]
  /\ UNCHANGED <<source, written, state, own, previous, since, polling, record, shared, writes>>

SessionExits(s) ==
  /\ state[s] = "live"
  /\ state' = [state EXCEPT ![s] = "exited"]
  /\ UNCHANGED <<source, written, own, previous, since, polling, record, row, shared, writes>>

ConvNext ==
  \/ \E s \in Sessions : \/ Launch(s) \/ CliBegins(s) \/ Poll(s) \/ StopPolling(s)
                         \/ Report(s) \/ SessionExits(s)
                         \/ \E prior \in Sessions : Resume(s, prior)
  \/ \E c \in Convs, s \in Sessions \cup {None} : CliGoesOn(c, s)

ConvSpec == ConvInit /\ [][ConvNext]_convVars

ConvTypeOK ==
  /\ source \in {"cache", "rollout"} /\ written \in Seq(Convs)
  /\ state \in [Sessions -> {"new", "live", "exited"}]
  /\ own \in [Sessions -> Convs \cup {None}] /\ previous \in [Sessions -> Convs \cup {None}]
  /\ since \in [Sessions -> SUBSET Convs]
  /\ record \in [Sessions -> Convs \cup {None}] /\ row \in [Sessions -> Convs \cup {None}]
  /\ polling \subseteq Sessions

\* pty-host.ts:202-210: a session in whose directory nothing else was written
\* while it looked has, if any, the id of its own conversation, on its host and
\* in its row, whatever earlier sessions left there; and so has one that
\* resumes it.
ConversationsAreOwn ==
  \A s \in Sessions \ shared : {record[s], row[s]} \subseteq {None, own[s]}
=============================================================================
