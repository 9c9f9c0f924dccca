----------------------------- MODULE Dashboard -----------------------------
(***************************************************************************)
(* The live view: KafkaFeed (dashboard_api/kafka_feed.py) tails the topics *)
(* in a thread of its own and schedules one broadcast per message in the   *)
(* event loop; Hub (hub.py) sends it to every registered WebSocket, and    *)
(* replays the newest frames to a socket that connects; the browser        *)
(* (dashboard/src/useLiveFeed.ts) lists what it gets, the latest arrival   *)
(* first, and connects again when its socket is closed.                    *)
(*                                                                         *)
(* A coroutine may be suspended at every await, so that broadcasts overlap *)
(* with one another and with the replays.                                  *)
(***************************************************************************)
EXTENDS Integers, Sequences, FiniteSets, SequencesExt

CONSTANTS
    Browsers,   \* open pages
    Backfill,   \* WS_BACKFILL, the length of the replay buffer
    MaxItems,   \* MAX_ITEMS, the length of the list on a page
    LastFrame,  \* bound: messages published
    MaxFaults   \* bound: lost sockets and restarts

ASSUME DashboardAssumption ==
    /\ Backfill \in Nat \ {0} /\ MaxItems \in Nat \ {0}
    /\ LastFrame \in Nat /\ MaxFaults \in Nat

VARIABLES
    published,  \* messages in the topics, in the order the consumer gets them
    feed,       \* KafkaFeed: connected, and the next message it will get
    scheduled,  \* broadcasts that the event loop has not started yet
    sending,    \* of every frame: its broadcast, if that is under way
    recent,     \* Hub._recent
    clients,    \* Hub._clients
    socket,     \* of every socket: its handler, its connection, its replay
    page,       \* of every browser: status, number of sockets, items
    faults      \* faults so far

hub == <<sending, recent, clients>>
vars == <<published, feed, scheduled, hub, socket, page, faults>>

Frames == 1..LastFrame
Sockets == Browsers \X (1..MaxFaults + 1)   \* the first, and one per fault

NoSocket == [handler |-> "none", up |-> FALSE, replay |-> <<>>]
Idle == [on |-> FALSE, todo |-> {}, dead |-> {}]

Fault == faults < MaxFaults /\ faults' = faults + 1

\* Mutant: one too many.
OneMore(s, n) == IF Len(s) <= n THEN s ELSE SubSeq(s, Len(s) - n, Len(s))

\* The last n of a sequence, as deque(maxlen=n) keeps them.
Newest(s, n) == IF Len(s) <= n THEN s ELSE SubSeq(s, Len(s) - n + 1, Len(s))

----------------------------------------------------------------------------
(* KafkaFeed *)

Publish ==
    /\ published < LastFrame
    /\ published' = published + 1
    /\ UNCHANGED <<feed, scheduled, hub, socket, page, faults>>

\* A new consumer group, from "latest": what was published meanwhile is skipped.
FeedConnects ==
    /\ ~feed.connected
    /\ feed' = [connected |-> TRUE, next |-> published + 1]
    /\ UNCHANGED <<published, scheduled, hub, socket, page, faults>>

\* JsonConsumer.poll returns a record; what it cannot decode is not counted here.
HasRecord == feed.connected /\ feed.next <= published

FeedPolls ==
    /\ HasRecord
    /\ feed' = [feed EXCEPT !.next = @ + 1]
    /\ scheduled' = Append(scheduled, feed.next)
    /\ UNCHANGED <<published, hub, socket, page, faults>>

FeedFails ==
    /\ feed.connected
    /\ feed' = [feed EXCEPT !.connected = FALSE]
    /\ UNCHANGED <<published, scheduled, hub, socket, page, faults>>

----------------------------------------------------------------------------
(* Hub *)

\* What arrives is put in front of the items of the page.
Arrives(c, frame) ==
    page' = [page EXCEPT ![c[1]].items =
                SubSeq(<<[socket |-> c[2], frame |-> frame]>> \o @, 1, IF Len(@) < MaxItems THEN Len(@) + 1 ELSE MaxItems)]

\* send_text: on a connection that is gone it raises, or goes unnoticed.
SendSucceeds(c, frame) ==
    IF socket[c].up THEN Arrives(c, frame) ELSE UNCHANGED page
SendRaises(c) == ~socket[c].up /\ UNCHANGED page

\* Mutant: a socket is registered when its replay is over.
BroadcastToReplayed(frame) ==
    /\ scheduled # <<>> /\ Head(scheduled) = frame
    /\ scheduled' = Tail(scheduled)
    /\ recent' = Newest(Append(recent, frame), Backfill)
    /\ sending' = [sending EXCEPT ![frame] =
           [on |-> TRUE, todo |-> {c \in clients : socket[c].replay = <<>>}, dead |-> {}]]
    /\ UNCHANGED <<published, feed, clients, socket, page, faults>>

Broadcast(frame) ==
    /\ scheduled # <<>> /\ Head(scheduled) = frame
    /\ scheduled' = Tail(scheduled)
    /\ recent' = Newest(Append(recent, frame), Backfill)
    /\ sending' = [sending EXCEPT ![frame] = [on |-> TRUE, todo |-> clients, dead |-> {}]]
    /\ UNCHANGED <<published, feed, clients, socket, page, faults>>

Send(frame, c) ==
    /\ c \in sending[frame].todo
    /\ \/ /\ SendSucceeds(c, frame)
          /\ sending' = [sending EXCEPT ![frame].todo = @ \ {c}]
       \/ /\ SendRaises(c)
          /\ sending' = [sending EXCEPT ![frame].todo = @ \ {c}, ![frame].dead = @ \cup {c}]
    /\ UNCHANGED <<published, feed, scheduled, recent, clients, socket, faults>>

\* The dead sockets are unregistered when all the sends have been tried.
Finish(frame) ==
    /\ sending[frame].on
    /\ sending[frame].todo = {}
    /\ sending' = [sending EXCEPT ![frame] = Idle]
    /\ clients' = clients \ sending[frame].dead
    /\ UNCHANGED <<published, feed, scheduled, recent, socket, page, faults>>

\* Mutant: broadcasts go through the set of clients itself, not through a copy.
ConnectJoining(b) ==
    /\ page[b].status \in {"connecting", "reconnecting"}
    /\ LET c == <<b, page[b].sockets + 1>>
       IN  /\ socket' = [socket EXCEPT ![c] = [handler |-> "open", up |-> TRUE, replay |-> recent]]
           /\ clients' = clients \cup {c}
           /\ sending' = [f \in Frames |-> IF sending[f].on
                                           THEN [sending[f] EXCEPT !.todo = @ \cup {c}]
                                           ELSE sending[f]]
    /\ page' = [page EXCEPT ![b].status = "live", ![b].sockets = @ + 1]
    /\ UNCHANGED <<published, feed, scheduled, recent, faults>>

\* Mutant: nothing is replayed.
ConnectBlank(b) ==
    /\ page[b].status \in {"connecting", "reconnecting"}
    /\ LET c == <<b, page[b].sockets + 1>>
       IN  /\ socket' = [socket EXCEPT ![c] = [handler |-> "open", up |-> TRUE, replay |-> <<>>]]
           /\ clients' = clients \cup {c}
    /\ page' = [page EXCEPT ![b].status = "live", ![b].sockets = @ + 1]
    /\ UNCHANGED <<published, feed, scheduled, sending, recent, faults>>

\* Hub.connect: register, and take the frames to replay, without an await between.
Connect(b) ==
    /\ page[b].status \in {"connecting", "reconnecting"}
    /\ LET c == <<b, page[b].sockets + 1>>
       IN  /\ socket' = [socket EXCEPT ![c] = [handler |-> "open", up |-> TRUE, replay |-> recent]]
           /\ clients' = clients \cup {c}
    /\ page' = [page EXCEPT ![b].status = "live", ![b].sockets = @ + 1]
    /\ UNCHANGED <<published, feed, scheduled, sending, recent, faults>>

\* Mutant: the replay raises out of the handler, and the socket stays registered.
ReplayRaising(c) ==
    /\ socket[c].replay # <<>>
    /\ \/ /\ SendSucceeds(c, Head(socket[c].replay))
          /\ socket' = [socket EXCEPT ![c].replay = Tail(@)]
       \/ /\ SendRaises(c)
          /\ socket' = [socket EXCEPT ![c].replay = <<>>, ![c].handler = "ended"]
    /\ UNCHANGED <<published, feed, scheduled, sending, recent, clients, faults>>

\* A replay that raises is over, and unregisters the socket.
Replay(c) ==
    /\ socket[c].replay # <<>>
    /\ \/ /\ SendSucceeds(c, Head(socket[c].replay))
          /\ socket' = [socket EXCEPT ![c].replay = Tail(@)]
          /\ UNCHANGED clients
       \/ /\ SendRaises(c)
          /\ socket' = [socket EXCEPT ![c].replay = <<>>]
          /\ clients' = clients \ {c}
    /\ UNCHANGED <<published, feed, scheduled, sending, recent, faults>>

\* Mutant: nothing is done when receive_text raises.
HandlerEndsOnly(c) ==
    /\ socket[c].handler = "open"
    /\ socket[c].replay = <<>>
    /\ ~socket[c].up
    /\ socket' = [socket EXCEPT ![c].handler = "ended"]
    /\ UNCHANGED <<published, feed, scheduled, sending, recent, clients, page, faults>>

\* receive_text raises WebSocketDisconnect; live() unregisters the socket.
HandlerEnds(c) ==
    /\ socket[c].handler = "open"
    /\ socket[c].replay = <<>>
    /\ ~socket[c].up
    /\ socket' = [socket EXCEPT ![c].handler = "ended"]
    /\ clients' = clients \ {c}
    /\ UNCHANGED <<published, feed, scheduled, sending, recent, page, faults>>

----------------------------------------------------------------------------
(* Sockets, pages and the process *)

\* The connection is lost: onclose sets the timer of the next connect().
Lost(c) ==
    /\ socket[c].up
    /\ Fault
    /\ socket' = [socket EXCEPT ![c].up = FALSE]
    /\ page' = [page EXCEPT ![c[1]].status = "reconnecting"]
    /\ UNCHANGED <<published, feed, scheduled, hub>>

\* The page is left: closed is set, the timer cleared, the socket closed.
Leave(b) ==
    /\ page[b].status # "closed"
    /\ page' = [page EXCEPT ![b].status = "closed"]
    /\ socket' = [c \in Sockets |-> IF c[1] = b THEN [socket[c] EXCEPT !.up = FALSE] ELSE socket[c]]
    /\ UNCHANGED <<published, feed, scheduled, hub, faults>>

\* The process of the dashboard API starts anew.
Restart ==
    /\ Fault
    /\ feed' = [connected |-> FALSE, next |-> 1]
    /\ scheduled' = <<>>
    /\ sending' = [f \in Frames |-> Idle]
    /\ recent' = <<>>
    /\ clients' = {}
    /\ socket' = [c \in Sockets |-> IF socket[c].handler = "none" THEN NoSocket
                                    ELSE [NoSocket EXCEPT !.handler = "ended"]]
    /\ page' = [b \in Browsers |-> IF page[b].status = "live"
                                   THEN [page[b] EXCEPT !.status = "reconnecting"]
                                   ELSE page[b]]
    /\ UNCHANGED published

----------------------------------------------------------------------------

Init ==
    /\ published = 0
    /\ feed = [connected |-> FALSE, next |-> 1]
    /\ scheduled = <<>>
    /\ sending = [f \in Frames |-> Idle]
    /\ recent = <<>>
    /\ clients = {}
    /\ socket = [c \in Sockets |-> NoSocket]
    /\ page = [b \in Browsers |-> [status |-> "connecting", sockets |-> 0, items |-> <<>>]]
    /\ faults = 0

Next ==
    \/ Publish \/ FeedConnects \/ FeedPolls \/ FeedFails
    \/ \E f \in Frames : Broadcast(f) \/ Finish(f) \/ \E c \in Sockets : Send(f, c)
    \/ \E b \in Browsers : Connect(b) \/ Leave(b)
    \/ \E c \in Sockets : Replay(c) \/ HandlerEnds(c) \/ Lost(c)
    \/ Restart

Spec == Init /\ [][Next]_vars

\* The event loop runs what is ready, the feed's thread polls, a page that wants to
\* connect tries until it does.
FairSpec ==
    /\ Spec
    /\ WF_vars(FeedPolls)
    /\ \A f \in Frames : WF_vars(Broadcast(f) \/ Finish(f) \/ \E c \in Sockets : Send(f, c))
    /\ \A b \in Browsers : WF_vars(Connect(b))
    /\ \A c \in Sockets : WF_vars(Replay(c) \/ HandlerEnds(c))

----------------------------------------------------------------------------
(* Properties *)

Item == [socket : 1..MaxFaults + 1, frame : Frames]

TypeOK ==
    /\ published \in 0..LastFrame
    /\ feed \in [connected : BOOLEAN, next : 1..LastFrame + 1]
    /\ scheduled \in Seq(Frames)
    /\ sending \in [Frames -> [on : BOOLEAN, todo : SUBSET Sockets, dead : SUBSET Sockets]]
    /\ recent \in Seq(Frames) /\ Len(recent) <= Backfill
    /\ clients \subseteq Sockets
    /\ socket \in [Sockets -> [handler : {"none", "open", "ended"}, up : BOOLEAN, replay : Seq(Frames)]]
    /\ page \in [Browsers -> [status : {"connecting", "live", "reconnecting", "closed"},
                              sockets : 0..MaxFaults + 1, items : Seq(Item)]]
    /\ \A b \in Browsers : Len(page[b].items) <= MaxItems
    /\ faults \in 0..MaxFaults

\* No frame comes twice over one socket, by the replay and by a broadcast that was
\* under way when the socket registered.
OncePerSocket ==
    \A b \in Browsers : \A i, j \in DOMAIN page[b].items :
       page[b].items[i] = page[b].items[j] => i = j

\* hub.py: "Register first so events broadcast during the replay aren't missed".
\* Every frame in the replay buffer has reached each connected page or is about to,
\* whether it was broadcast before, during or after the replay; a page whose list is
\* full, which a new one's is not, may have dropped it again.
NothingMissed ==
    \A c \in Sockets : socket[c].up =>
       \A f \in ToSet(recent) :
          \/ f \in ToSet(socket[c].replay)
          \/ c \in sending[f].todo
          \/ [socket |-> c[2], frame |-> f] \in ToSet(page[c[1]].items)
          \/ Len(page[c[1]].items) = MaxItems

\* A socket whose handler has ended is not registered: no broadcast, replay or
\* restart brings a dead one back.
NoDeadSocket == \A c \in clients : socket[c].handler = "open"

\* Every dead socket is unregistered in the end, also one that dies while it is
\* replayed to and nothing is broadcast any more.
DeadSocketsForgotten == <>[] \A c \in clients : socket[c].up

\* Whatever sockets are lost, every page that stays open finally shows all the
\* frames of the buffer, or a full list: what it missed while it was away is replayed.
PagesCatchUp ==
    <>[] \A b \in Browsers :
            \/ page[b].status = "closed"
            \/ Len(page[b].items) = MaxItems
            \/ \A f \in ToSet(recent) : \E i \in DOMAIN page[b].items : page[b].items[i].frame = f
=============================================================================
