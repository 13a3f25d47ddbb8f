---------------------------- MODULE DashboardRooms ----------------------------
(***************************************************************************)
(* The socket of one dashboard tab and its rooms on the API server.         *)
(*                                                                         *)
(* useSocket (dashboard/src/hooks/useSocket.ts) leaves the room of the page  *)
(* that is closed and joins the room of the page that is opened, over the   *)
(* tab's only socket (services/socket.ts); SocketService.initialize handles *)
(* the join and leave events.  socket.io is external: emits arrive in order, *)
(* those of a closed socket wait for the next connection, and a lost        *)
(* connection loses what is under way and every room, for the server knows  *)
(* the next one under a new id.  No code joins again on a reconnection.     *)
(*                                                                         *)
(* The dashboard page runs the hook twice, for the same room: joining and   *)
(* leaving are idempotent, so one pair of emits stands for two.             *)
(***************************************************************************)
EXTENDS Integers, Sequences

CONSTANTS
  Jobs,       \* the jobs with a page, and a room, of their own
  Dashboard,  \* the page and the room of the overview
  MaxOutbox,  \* bound on the emits under way
  Faults      \* subset of {"network", "http"}

ASSUME RoomsAssumption ==
  /\ Dashboard \notin Jobs
  /\ MaxOutbox \in Nat
  /\ MaxOutbox >= 2
  /\ Faults \subseteq {"network", "http"}

VARIABLES
  page,       \* the page that is open
  connected,  \* whether the socket is connected
  outbox,     \* the emits of the tab that the server has not handled
  rooms,      \* the rooms of the tab's socket on the server
  dropped     \* whether the connection was lost since the page was opened

roomVars == <<page, connected, outbox, rooms, dropped>>

Pages == Jobs \cup {Dashboard}

Join(room) == [act |-> "join", room |-> room]
Leave(room) == [act |-> "leave", room |-> room]

RoomsInit ==
  /\ page \in Pages
  /\ connected = FALSE
  /\ outbox = <<Join(page)>>
  /\ rooms = {}
  /\ dropped = FALSE

-----------------------------------------------------------------------------
(* Mutant: the effect has no cleanup.                                      *)
OpenWithoutLeave(p) ==
  /\ p # page
  /\ Len(outbox) + 2 <= MaxOutbox
  /\ outbox' = Append(outbox, Join(p))
  /\ page' = p
  /\ dropped' = FALSE
  /\ UNCHANGED <<connected, rooms>>

(* Another page: the cleanup of the old effect, then the new effect.       *)
Open(p) ==
  /\ p # page
  /\ Len(outbox) + 2 <= MaxOutbox
  /\ outbox' = outbox \o <<Leave(page), Join(p)>>
  /\ page' = p
  /\ dropped' = FALSE
  /\ UNCHANGED <<connected, rooms>>

(* The server handles the first emit under way.                            *)
Handled(emit, old) == IF emit.act = "join" THEN old \cup {emit.room} ELSE old \ {emit.room}

HandleEmit ==
  /\ connected
  /\ outbox # <<>>
  /\ rooms' = Handled(Head(outbox), rooms)
  /\ outbox' = Tail(outbox)
  /\ UNCHANGED <<page, connected, dropped>>

Connect ==
  /\ ~connected
  /\ connected' = TRUE
  /\ UNCHANGED <<page, outbox, rooms, dropped>>

Disconnect ==
  /\ "network" \in Faults
  /\ connected
  /\ connected' = FALSE
  /\ outbox' = <<>>
  /\ rooms' = {}
  /\ dropped' = TRUE
  /\ UNCHANGED page

RoomsNext == (\E p \in Pages : Open(p)) \/ HandleEmit \/ Connect \/ Disconnect

-----------------------------------------------------------------------------
(* Every variable keeps its type: only rooms of pages are joined or left.   *)
RoomsTypeOK ==
  /\ page \in Pages
  /\ connected \in BOOLEAN
  /\ outbox \in Seq([act : {"join", "leave"}, room : Pages]) /\ Len(outbox) <= MaxOutbox
  /\ rooms \subseteq Pages
  /\ dropped \in BOOLEAN

(* Whatever is opened, in whatever order emits, connections and losses fall: *)
(* once the server has handled every emit, the tab is in the room of its    *)
(* page and in no other, unless the connection was lost while the page was  *)
(* open; then it is in no room at all, never in that of an earlier page.    *)
RoomsFollowPage ==
  connected /\ outbox = <<>> => rooms = IF dropped THEN {} ELSE {page}
=============================================================================
