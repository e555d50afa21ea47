------------------------------- MODULE Streams -------------------------------
(***************************************************************************)
(* One viewer's terminal stream: its websocket goes through a chain of     *)
(* relays (the dispatcher of its machine, then the stream route of the     *)
(* control plane if the PTY runs elsewhere) to the PTY.  Each relay first  *)
(* looks up its target, then connects, then passes frames both ways.       *)
(* Sources: packages/daemon/src/{dispatcher,pty-host,remote-exec}.ts,      *)
(* routes/{terminals,exec}.ts.                                             *)
(*                                                                         *)
(* Relay 1 is the dispatcher, relay Hops the one whose upstream is the     *)
(* /exec stream of the PTY's host.  Keystrokes and output chunks are       *)
(* numbered in the order they are made.                                    *)
(***************************************************************************)
EXTENDS Naturals, SequencesExt

CONSTANTS
  Hops,      \* relays between the viewer and the PTY
  MaxKeys,   \* bound: keystrokes
  MaxChunks, \* bound: chunks of output
  RingSize   \* chunks that RING_BUFFER_MAX_BYTES keeps

ASSUME StreamConstants ==
  Hops \in Nat \ {0} /\ MaxKeys \in Nat /\ MaxChunks \in Nat /\ RingSize \in Nat \ {0}

VARIABLES
  viewer,    \* its websocket: "new", "open" or "closed"
  deaf,      \* the dispatcher came to listen for the viewer's close too late
  hop,       \* relays: "absent", "early" (looking up its target),
             \* "connecting" (upstream not open yet), "open", "gone"
  held,      \* frames a relay keeps: early, then pending
  keys,      \* frames on their way into each relay, and into the PTY
  typed,     \* keystrokes typed
  got,       \* keystrokes the PTY was given
  exec,      \* the PTY: "live" or "exited"
  made,      \* chunks of output made
  ring,      \* the last of them
  attached,  \* the chain's last upstream is a subscriber
  back,      \* output on its way out of each relay's upstream; back[0] is the viewer's
  seen       \* output the viewer got

keyVars == <<held, keys, typed, got>>
outVars == <<exec, made, ring, attached, back, seen>>
streamVars == <<viewer, deaf, hop, keyVars, outVars>>

Relays == 1..Hops

StreamTypeOK ==
  /\ viewer \in {"new", "open", "closed"} /\ deaf \in BOOLEAN
  /\ hop \in [Relays -> {"absent", "early", "connecting", "open", "gone"}]
  /\ held \in [Relays -> Seq(1..MaxKeys)]
  /\ keys \in [1..(Hops + 1) -> Seq(1..MaxKeys)]
  /\ typed \in 0..MaxKeys /\ got \in Seq(1..MaxKeys)
  /\ exec \in {"live", "exited"} /\ made \in 0..MaxChunks
  /\ ring \in Seq(1..MaxChunks) /\ attached \in BOOLEAN
  /\ back \in [0..Hops -> Seq(1..MaxChunks)] /\ seen \in Seq(1..MaxChunks)

StreamInit ==
  /\ viewer = "new" /\ deaf = FALSE
  /\ hop = [k \in Relays |-> "absent"]
  /\ held = [k \in Relays |-> <<>>]
  /\ keys = [k \in 1..(Hops + 1) |-> <<>>]
  /\ typed = 0 /\ got = <<>>
  /\ exec = "live" /\ made = 0 /\ ring = <<>> /\ attached = FALSE
  /\ back = [k \in 0..Hops |-> <<>>] /\ seen = <<>>

-----------------------------------------------------------------------------
(* From the viewer to the PTY. *)

ViewerConnects ==
  /\ viewer = "new"
  /\ viewer' = "open"
  /\ hop' = [hop EXCEPT ![1] = "early"]
  /\ UNCHANGED <<deaf, keyVars, outVars>>

TypeKey ==
  /\ viewer = "open" /\ typed < MaxKeys
  /\ typed' = typed + 1
  /\ keys' = [keys EXCEPT ![1] = Append(@, typed + 1)]
  /\ UNCHANGED <<viewer, deaf, hop, held, got, outVars>>

\* A frame reaches relay k: it goes on if the upstream is open, and is kept
\* until then if not.
Relay(k) ==
  /\ keys[k] # <<>> /\ hop[k] \in {"early", "connecting", "open"}
  /\ IF hop[k] = "open"
     THEN /\ keys' = [keys EXCEPT ![k] = Tail(@), ![k + 1] = Append(@, Head(keys[k]))]
          /\ UNCHANGED held
     ELSE /\ keys' = [keys EXCEPT ![k] = Tail(@)]
          /\ held' = [held EXCEPT ![k] = Append(@, Head(keys[k]))]
  /\ UNCHANGED <<viewer, deaf, hop, typed, got, outVars>>

\* handleViewerMessages: written to the PTY while it lives.
WriteKey ==
  /\ keys[Hops + 1] # <<>>
  /\ keys' = [keys EXCEPT ![Hops + 1] = Tail(@)]
  /\ got' = IF exec = "live" THEN Append(got, Head(keys[Hops + 1])) ELSE got
  /\ UNCHANGED <<viewer, deaf, hop, held, typed, outVars>>

\* The lookup ends and pipe starts to connect.  The early frames are replayed
\* into it, that is, they are now pending ahead of all others.
Resolve(k) ==
  /\ hop[k] = "early"
  /\ hop' = [hop EXCEPT ![k] = "connecting"]
  /\ deaf' = (deaf \/ (k = 1 /\ viewer = "closed"))
  /\ UNCHANGED <<viewer, held, keys, typed, got, outVars>>

\* What the last relay's upstream sends first.  AttachedBug subscribes but
\* does not send the buffer.
AttachedBug == back
Attached == [back EXCEPT ![Hops] = ring]

\* The upstream opens: the pending frames go out in one turn.  The last one is
\* the PTY's own stream: attach sends the buffer and subscribes.
Opens(k) ==
  /\ hop[k] = "connecting" /\ (k = Hops => exec = "live")
  /\ keys' = [keys EXCEPT ![k + 1] = @ \o held[k]]
  /\ held' = [held EXCEPT ![k] = <<>>]
  /\ hop' = [j \in Relays |-> IF j = k THEN "open" ELSE IF j = k + 1 THEN "early" ELSE hop[j]]
  /\ IF k = Hops THEN attached' = TRUE /\ back' = Attached ELSE UNCHANGED <<attached, back>>
  /\ UNCHANGED <<viewer, deaf, typed, got, exec, made, ring, seen>>

-----------------------------------------------------------------------------
(* From the PTY to the viewer. *)

\* onData: appended to the ring and broadcast.
Output ==
  /\ exec = "live" /\ made < MaxChunks
  /\ made' = made + 1
  /\ ring' = LET r == Append(ring, made + 1) IN
             IF Len(r) > RingSize THEN Tail(r) ELSE r
  /\ back' = IF attached THEN [back EXCEPT ![Hops] = Append(@, made + 1)] ELSE back
  /\ UNCHANGED <<viewer, deaf, hop, keyVars, exec, attached, seen>>

RelayBack(k) ==
  /\ back[k] # <<>> /\ hop[k] = "open"
  /\ back' = [back EXCEPT ![k] = Tail(@), ![k - 1] = Append(@, Head(back[k]))]
  /\ UNCHANGED <<viewer, deaf, hop, keyVars, exec, made, ring, attached, seen>>

Show ==
  /\ viewer = "open" /\ back[0] # <<>>
  /\ back' = [back EXCEPT ![0] = Tail(@)]
  /\ seen' = Append(seen, Head(back[0]))
  /\ UNCHANGED <<viewer, deaf, hop, keyVars, exec, made, ring, attached>>

-----------------------------------------------------------------------------
(* Closing. *)

ViewerCloses ==
  /\ viewer = "open"
  /\ viewer' = "closed"
  /\ back' = [back EXCEPT ![0] = <<>>]
  /\ UNCHANGED <<deaf, hop, keyVars, exec, made, ring, attached, seen>>

ExecExits ==
  /\ exec = "live"
  /\ exec' = "exited"
  /\ attached' = FALSE
  /\ UNCHANGED <<viewer, deaf, hop, keyVars, made, ring, back, seen>>

\* The client side of relay k has closed and it listens for that.  While the
\* dispatcher looks up its target nobody does.  ClientGoneBug stops listening
\* when the upstream opens.
ClientGoneBug(k) ==
  IF k = 1 THEN viewer = "closed" /\ hop[1] = "connecting" ELSE hop[k - 1] = "gone"
ClientGone(k) ==
  IF k = 1 THEN viewer = "closed" /\ ~deaf /\ hop[1] # "early" ELSE hop[k - 1] = "gone"

\* Its upstream closed, or never opens: refused, unreachable, no such PTY.
UpstreamGone(k) ==
  hop[k] = "connecting" \/ (hop[k] = "open" /\ k < Hops /\ hop[k + 1] = "gone")

\* A relay closes both sides.  For what the route of a session refuses, the
\* session is not active, it does so already while early.
HangUp(k) ==
  /\ hop[k] \in {"early", "connecting", "open"}
  /\ ClientGone(k) \/ UpstreamGone(k) \/ (k > 1 /\ hop[k] = "early")
  /\ hop' = [hop EXCEPT ![k] = "gone"]
  /\ held' = [held EXCEPT ![k] = <<>>]
  /\ keys' = [keys EXCEPT ![k] = <<>>]
  /\ back' = [back EXCEPT ![k] = <<>>]
  /\ attached' = (attached /\ k # Hops)
  /\ viewer' = IF k = 1 THEN "closed" ELSE viewer
  /\ UNCHANGED <<deaf, typed, got, exec, made, ring, seen>>

-----------------------------------------------------------------------------
StreamNext ==
  \/ ViewerConnects \/ TypeKey \/ WriteKey \/ Output \/ Show \/ ViewerCloses \/ ExecExits
  \/ \E k \in Relays : Relay(k) \/ RelayBack(k) \/ Resolve(k) \/ Opens(k) \/ HangUp(k)

StreamSpec == StreamInit /\ [][StreamNext]_streamVars

\* Lookups and connects end, and a closed socket is noticed.
StreamFairness ==
  \A k \in Relays : WF_streamVars(Resolve(k)) /\ WF_streamVars(Opens(k) \/ HangUp(k))

-----------------------------------------------------------------------------
(* Properties. *)

Numbers(m, n) == [i \in 1..(n + 1 - m) |-> m + i - 1]

\* A viewer that closes takes the whole chain with it, down to its subscription
\* at the PTY, unless it closed while the dispatcher was deaf.
ViewersLeaveNothing ==
  (viewer = "closed") ~>
    (deaf \/ (~attached /\ \A k \in Relays : hop[k] \in {"absent", "gone"}))

\* What the PTY got is always the beginning of what was typed.
KeysInOrder == got = Numbers(1, Len(got))

\* The chunks from number `first' to the last one made are on their way: the
\* viewer has those up to cut[0], and back[k] holds those after cut[k] up to
\* cut[k + 1].
OnItsWay(first, cut) ==
  /\ cut[Hops + 1] = made /\ first <= cut[0] + 1
  /\ seen = Numbers(first, cut[0])
  /\ \A k \in 0..Hops : cut[k] <= cut[k + 1] /\ back[k] = Numbers(cut[k] + 1, cut[k + 1])

\* The viewer sees a piece of the output, from what the buffer held when it
\* attached; while the PTY lives and nothing closed, all that was made since is
\* on its way, the last chunk before that too.
OutputIsGapless ==
  /\ seen # <<>> => seen = Numbers(seen[1], seen[Len(seen)])
  /\ attached /\ viewer = "open" /\ (\A k \in Relays : hop[k] = "open") =>
       \E first \in 1..(made + 1), cut \in [0..(Hops + 1) -> 0..made] :
         OnItsWay(first, cut) /\ (made > 0 => first <= made)

\* dispatcher.ts:157-158, pty-host.ts:408-415: no frame is lost, doubled or
\* reordered, in the lookups, while connecting, at a switch between the three
\* ways a relay handles a key, or between the buffer and the live output.
FramesInOrder == KeysInOrder /\ OutputIsGapless
=============================================================================
