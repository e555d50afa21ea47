-------------------------------- MODULE Viewers --------------------------------
(***************************************************************************)
(* The terminals a window keeps: xterm instances that outlive their pane,  *)
(* parked when off screen and evicted past a cap, and the streams to the   *)
(* daemon that the main process opens for them.                            *)
(* Sources: terminalCache, parkedOrder and TerminalView of packages/gui/   *)
(* src/renderer/src/Terminals.tsx, packages/gui/src/main/terminal-bridge.ts*)
(* and the terminal calls of packages/gui/src/preload/index.ts.            *)
(*                                                                         *)
(* A session has one pane at most in a window.  The main process takes a   *)
(* window's calls in order, so they are steps of the window.               *)
(***************************************************************************)
EXTENDS Integers, SequencesExt

CONSTANTS
  Clients,    \* windows
  Viewed,     \* terminal sessions
  MaxParked,  \* MAX_PARKED_TERMINALS
  MaxStreams  \* bound: streams opened

ASSUME ViewerBounds == MaxParked \in Nat /\ MaxStreams \in Nat

VARIABLES
  cache,       \* terminalCache of each window: the sessions with an instance
  parked,      \* parkedOrder of each window
  views,       \* sessions with a mounted TerminalView in each window
  closed,      \* windows that are closed
  connections, \* the main process: session -> its stream
  streams      \* every WebSocket opened: its session, state and subscribers

rendererVars == <<cache, parked, views>>
bridgeVars == <<connections, streams>>
viewerVars == <<cache, parked, views, closed, connections, streams>>

StreamIds == 1..MaxStreams

StreamRecords == [session : Viewed, state : {"open", "closing", "closed", "dropped"},
                  subscribers : SUBSET Clients]

ViewerTypeOK ==
  /\ cache \in [Clients -> SUBSET Viewed] /\ views \in [Clients -> SUBSET Viewed]
  /\ parked \in [Clients -> Seq(Viewed)]
  /\ closed \subseteq Clients
  /\ connections \in UNION {[D -> StreamIds] : D \in SUBSET Viewed}
  /\ streams \in Seq(StreamRecords) /\ Len(streams) <= MaxStreams

ViewerInit ==
  /\ cache = [w \in Clients |-> {}] /\ views = [w \in Clients |-> {}]
  /\ parked = [w \in Clients |-> <<>>]
  /\ closed = {}
  /\ connections = <<>> /\ streams = <<>>

-----------------------------------------------------------------------------
(* terminal-bridge.ts, on b: the connections and streams. *)

With(f, s, v) == [t \in DOMAIN f \cup {s} |-> IF t = s THEN v ELSE f[t]]
Drop(f, s) == [t \in DOMAIN f \ {s} |-> f[t]]

Bridge == [conns |-> connections, streams |-> streams]
Become(b) == connections' = b.conns /\ streams' = b.streams

Attached(b, w, s) ==
  IF s \in DOMAIN b.conns
  THEN [b EXCEPT !.streams[b.conns[s]].subscribers = @ \cup {w}]
  ELSE [conns |-> With(b.conns, s, Len(b.streams) + 1),
        streams |-> Append(b.streams, [session |-> s, state |-> "open", subscribers |-> {w}])]

\* detach, for each of the sessions S: a stream that no window is left with is
\* closed.
Detached(b, w, S) ==
  LET mine == {s \in S : s \in DOMAIN b.conns}
      ends == {s \in mine : b.streams[b.conns[s]].subscribers \subseteq {w}} IN
  [conns |-> [s \in DOMAIN b.conns \ ends |-> b.conns[s]],
   streams |-> [k \in 1..Len(b.streams) |->
     IF k \notin {b.conns[s] : s \in mine} THEN b.streams[k]
     ELSE LET left == b.streams[k].subscribers \ {w} IN
          [b.streams[k] EXCEPT !.subscribers = left, !.state = IF left = {} THEN "closing" ELSE @]]]

DetachAll(b, w) == Detached(b, w, DOMAIN b.conns)

-----------------------------------------------------------------------------
(* A window. *)

\* unpark.
Unparked(w, s) == RemoveFirst(parked[w], s)

\* Whether a view that goes away still has its instance: one closed with its
\* pane was torn down.  StillCachedBug does not look.
StillCachedBug(w, s) == TRUE
StillCached(w, s) == s \in cache[w]

Mount(w, s) ==
  /\ w \notin closed /\ s \notin views[w]
  /\ views' = [views EXCEPT ![w] = @ \cup {s}]
  /\ parked' = [parked EXCEPT ![w] = Unparked(w, s)]
  /\ cache' = [cache EXCEPT ![w] = @ \cup {s}]
  /\ IF s \in cache[w] THEN UNCHANGED bridgeVars
     ELSE Len(streams) < MaxStreams /\ Become(Attached(Bridge, w, s))
  /\ UNCHANGED closed

\* The view goes away: parkTerminal, with the evictions it makes.
Unmount(w, s) ==
  /\ w \notin closed /\ s \in views[w]
  /\ views' = [views EXCEPT ![w] = @ \ {s}]
  /\ LET order == Append(parked[w], s)
         over == IF Len(order) > MaxParked THEN Len(order) - MaxParked ELSE 0
         evicted == ToSet(SubSeq(order, 1, over)) IN
     IF StillCached(w, s)
     THEN /\ parked' = [parked EXCEPT ![w] = SubSeq(order, over + 1, Len(order))]
          /\ cache' = [cache EXCEPT ![w] = @ \ evicted]
          /\ Become(Detached(Bridge, w, evicted \cap cache[w]))
     ELSE UNCHANGED <<parked, cache, bridgeVars>>
  /\ UNCHANGED closed

\* disposeCachedTerminal: the pane is closed, and its view goes away later.
Dispose(w, s) ==
  /\ w \notin closed /\ s \in cache[w]
  /\ parked' = [parked EXCEPT ![w] = Unparked(w, s)]
  /\ cache' = [cache EXCEPT ![w] = @ \ {s}]
  /\ Become(Detached(Bridge, w, {s}))
  /\ UNCHANGED <<views, closed>>

\* The window is destroyed: detachAll.
CloseWindow(w) ==
  /\ w \notin closed /\ closed' = closed \cup {w}
  /\ Become(DetachAll(Bridge, w))
  /\ cache' = [cache EXCEPT ![w] = {}] /\ views' = [views EXCEPT ![w] = {}]
  /\ parked' = [parked EXCEPT ![w] = <<>>]

\* The "close" event of stream k, after the client closed it, or because the
\* daemon went away: it forgets whatever connection the session has by then.
StreamCloses(k) ==
  /\ streams[k].state \in {"open", "closing"}
  /\ Become([conns |-> Drop(connections, streams[k].session),
             streams |-> [streams EXCEPT ![k].state = IF @ = "closing" THEN "closed" ELSE "dropped"]])
  /\ UNCHANGED <<rendererVars, closed>>

ViewersNext ==
  \/ \E w \in Clients : CloseWindow(w) \/ \E s \in Viewed : Mount(w, s) \/ Unmount(w, s) \/ Dispose(w, s)
  \/ \E k \in DOMAIN streams : StreamCloses(k)

ViewersSpec == ViewerInit /\ [][ViewersNext]_viewerVars

-----------------------------------------------------------------------------
(* Properties. *)

\* Terminals.tsx, the cache: an instance is on screen or parked, once, and never
\* both; what is parked exists and is within the cap, through any sequence of
\* mounts, closes, evictions and late unmounts.
CacheIsTight ==
  \A w \in Clients :
    /\ IsInjective(parked[w]) /\ Len(parked[w]) <= MaxParked
    /\ ToSet(parked[w]) = cache[w] \ views[w]

\* Terminals.tsx:57-60: an instance stays subscribed to its session's output
\* until it is torn down or the daemon ends the stream, though close events come
\* late and other windows open and close streams of the same session.
KeptStaysSubscribed ==
  \A w \in Clients : \A s \in cache[w] : \E k \in DOMAIN streams :
    streams[k].session = s /\ w \in streams[k].subscribers /\ streams[k].state \in {"open", "dropped"}

\* Both: what a window keeps is neither too much nor cut off.
CacheIsKept == CacheIsTight /\ KeptStaysSubscribed
=============================================================================
