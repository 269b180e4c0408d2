---------------------------- MODULE AgentSocket ----------------------------
(***************************************************************************)
(* The live link between the server and one agent's browser tabs: AgentHub *)
(* (api/realtime.py), the websocket handler (agent_socket in               *)
(* api/routers/agent.py) and the client that reads it (useSocket.ts).      *)
(*                                                                         *)
(* The hub numbers the messages of an agent and keeps the newest few; a    *)
(* tab that reconnects says the last number it applied, is replayed the    *)
(* gap and then sent a snapshot of everything.  A tab ignores numbers it   *)
(* has passed.  Signing in starts the numbers again (B27).                 *)
(*                                                                         *)
(* A message is its session and its number.  Writes to one socket keep     *)
(* their order, so a message is on the wire once its write has begun.  A   *)
(* send() writes to its connections one after another and a slow one holds *)
(* up the rest; replaying the gap is one write at a time, and other writes *)
(* come between them.  A connection that died stays registered until a     *)
(* write to it fails, which nobody can see: it is removed at once here.    *)
(***************************************************************************)
EXTENDS Naturals, Sequences, SequencesExt

CONSTANTS
    Tabs,          \* browser tabs the agent may open
    OutboxLimit,   \* OUTBOX_LIMIT
    MaxSeq,        \* bound: messages in one session
    MaxSessions,   \* bound: sign-ins
    MaxDrops,      \* bound: connections lost
    Habits         \* bound: what may be done while something is unfinished

\* left_open: signing in or out in one tab while another is open.
\* overtake: a message is sent while an earlier one is still being written.
Habit == {"left_open", "overtake"}

ASSUME SocketAssumption ==
    /\ OutboxLimit \in Nat \ {0}
    /\ MaxSeq \in Nat /\ MaxSessions \in Nat /\ MaxDrops \in Nat
    /\ Habits \subseteq Habit

VARIABLES
    session,   \* which sign-in the channel's numbers belong to
    seq,       \* _AgentChannel.seq
    outbox,    \* _AgentChannel.outbox
    cookie,    \* the agent's session cookie is valid
    tab,       \* per tab: closed, starting (signed in, page not yet up) or open
    link,      \* per tab: closed, hello, replay (registered, gap not sent), live
    backlog,   \* what agent_socket has still to replay
    unsent,    \* messages a send() has still to write to the tab
    wire,      \* frames on their way to the tab
    last,      \* lastSeq
    seen,      \* the messages a tab has applied or been sent a snapshot of
    overtaken, \* history: written to the connection after a newer message was,
               \* since it was opened or last sent a snapshot
    drops      \* connections lost so far

socketVars == <<session, seq, outbox, cookie, tab, link, backlog, unsent, wire, last, seen,
                overtaken, drops>>

Msg(n) == [session |-> session, seq |-> n]

\* A frame is a message, or a snapshot: what is true once the first n are sent.
IsSnapshot(f) == "upto" \in DOMAIN f

SocketInit ==
    /\ session = 0 /\ seq = 0 /\ outbox = <<>> /\ cookie = FALSE
    /\ tab = [t \in Tabs |-> "closed"]
    /\ link = [t \in Tabs |-> "closed"]
    /\ backlog = [t \in Tabs |-> <<>>]
    /\ unsent = [t \in Tabs |-> {}]
    /\ wire = [t \in Tabs |-> <<>>]
    /\ last = [t \in Tabs |-> 0]
    /\ seen = [t \in Tabs |-> {}]
    /\ overtaken = [t \in Tabs |-> {}]
    /\ drops = 0

Registered == {t \in Tabs : link[t] \in {"replay", "live"}}

OthersClosed(t) == \A u \in Tabs \ {t} : tab[u] = "closed"

Covered(s, n) == {[session |-> s, seq |-> i] : i \in 1 .. n}

-----------------------------------------------------------------------------
(* The hub.                                                                *)

Reset ==
    /\ session' = session + 1
    /\ seq' = 0
    /\ outbox' = <<>>

\* The connections in `late` are written to after one that is slow.
Send(late) ==
    /\ session > 0
    /\ seq < MaxSeq
    /\ late = {} \/ (late \subseteq Registered /\ late # Registered)
    /\ "overtake" \in Habits \/ \A t \in Tabs : unsent[t] = {}
    /\ seq' = seq + 1
    /\ LET kept == Append(outbox, Msg(seq + 1)) IN
           outbox' = IF Len(kept) > OutboxLimit THEN Tail(kept) ELSE kept
    /\ unsent' = [t \in Tabs |-> IF t \in late THEN unsent[t] \cup {Msg(seq + 1)} ELSE unsent[t]]
    /\ wire' = [t \in Tabs |->
                   IF t \in Registered \ late
                   THEN Append(wire[t], Msg(seq + 1)) ELSE wire[t]]
    /\ UNCHANGED <<session, cookie, tab, link, backlog, last, seen, overtaken, drops>>

\* A newer message than m has been written to the tab.
Newer(t, m) == \E n \in m.seq + 1 .. seq : Msg(n) \notin unsent[t]

Deliver(t) ==
    \E m \in unsent[t] :
        /\ unsent' = [unsent EXCEPT ![t] = @ \ {m}]
        /\ wire' = [wire EXCEPT ![t] = Append(@, m)]
        /\ overtaken' = [overtaken EXCEPT ![t] = IF Newer(t, m) THEN @ \cup {m} ELSE @]
        /\ UNCHANGED <<session, seq, outbox, cookie, tab, link, backlog, last, seen, drops>>

\* What is newer than n: the outbox is in order, so what was passed comes first.
Passed(n) == {i \in DOMAIN outbox : outbox[i].seq <= n}

Gap(n) == SubSeq(outbox, Cardinality(Passed(n)) + 1, Len(outbox))

-----------------------------------------------------------------------------
(* agent_socket: one handler per connection.                               *)

\* Registering and the first write of the replay happen without an await
\* that waits, so nothing comes between them.
Connect(t) ==
    /\ link[t] = "hello"
    /\ link' = [link EXCEPT ![t] = "replay"]
    /\ LET gap == Gap(last[t]) IN
       IF gap = <<>>
       THEN UNCHANGED <<wire, backlog>>
       ELSE /\ wire' = [wire EXCEPT ![t] = Append(@, Head(gap))]
            /\ backlog' = [backlog EXCEPT ![t] = Tail(gap)]
    /\ UNCHANGED <<session, seq, outbox, cookie, unsent, tab, last, seen, overtaken, drops>>

Replay(t) ==
    /\ backlog[t] # <<>>
    /\ wire' = [wire EXCEPT ![t] = Append(@, Head(backlog[t]))]
    /\ backlog' = [backlog EXCEPT ![t] = Tail(@)]
    /\ UNCHANGED <<session, seq, outbox, cookie, unsent, tab, link, last, seen, overtaken, drops>>

\* A slip: going live after the replay without the snapshot.
SendSnapshotNever(t) ==
    /\ link[t] = "replay" /\ backlog[t] = <<>>
    /\ link' = [link EXCEPT ![t] = "live"]
    /\ UNCHANGED <<session, seq, outbox, cookie, tab, backlog, unsent, wire, last, seen, overtaken, drops>>

SendSnapshot(t) ==
    /\ link[t] = "replay" /\ backlog[t] = <<>>
    /\ link' = [link EXCEPT ![t] = "live"]
    /\ wire' = [wire EXCEPT ![t] = Append(@, [upto |-> seq, session |-> session])]
    /\ overtaken' = [overtaken EXCEPT ![t] = {}]
    /\ UNCHANGED <<session, seq, outbox, cookie, unsent, tab, backlog, last, seen, drops>>

-----------------------------------------------------------------------------
(* The client and the person at it.                                        *)

Hangs(t) ==
    /\ link' = [link EXCEPT ![t] = "closed"]
    /\ backlog' = [backlog EXCEPT ![t] = <<>>]
    /\ unsent' = [unsent EXCEPT ![t] = {}]
    /\ wire' = [wire EXCEPT ![t] = <<>>]
    /\ overtaken' = [overtaken EXCEPT ![t] = {}]

SignIn(t) ==
    /\ tab[t] = "closed"
    /\ session < MaxSessions
    /\ OthersClosed(t) \/ "left_open" \in Habits
    /\ Reset
    /\ cookie' = TRUE
    /\ tab' = [tab EXCEPT ![t] = "starting"]
    /\ UNCHANGED <<link, backlog, unsent, wire, last, seen, overtaken, drops>>

\* A second tab finds the cookie and needs no sign-in.
OpenTab(t) ==
    /\ tab[t] = "closed" /\ cookie
    /\ tab' = [tab EXCEPT ![t] = "starting"]
    /\ UNCHANGED <<session, seq, outbox, cookie, link, backlog, unsent, wire, last, seen, overtaken, drops>>

\* The effect of useSocket when `enabled` flips: the numbers start at zero.
Start(t) ==
    /\ tab[t] = "starting"
    /\ tab' = [tab EXCEPT ![t] = "open"]
    /\ last' = [last EXCEPT ![t] = 0]
    /\ seen' = [seen EXCEPT ![t] = {}]
    /\ link' = [link EXCEPT ![t] = "hello"]
    /\ UNCHANGED <<session, seq, outbox, cookie, backlog, unsent, wire, overtaken, drops>>

SignOut(t) ==
    /\ tab[t] = "open"
    /\ OthersClosed(t) \/ "left_open" \in Habits
    /\ cookie' = FALSE
    /\ tab' = [tab EXCEPT ![t] = "closed"]
    /\ Hangs(t)
    /\ UNCHANGED <<session, seq, outbox, last, seen, drops>>

CloseTab(t) ==
    /\ tab[t] = "open"
    /\ tab' = [tab EXCEPT ![t] = "closed"]
    /\ Hangs(t)
    /\ UNCHANGED <<session, seq, outbox, cookie, last, seen, drops>>

Drop(t) ==
    /\ link[t] # "closed"
    /\ drops < MaxDrops
    /\ drops' = drops + 1
    /\ Hangs(t)
    /\ UNCHANGED <<session, seq, outbox, cookie, tab, last, seen>>

Reconnect(t) ==
    /\ tab[t] = "open" /\ link[t] = "closed" /\ cookie
    /\ link' = [link EXCEPT ![t] = "hello"]
    /\ UNCHANGED <<session, seq, outbox, cookie, tab, backlog, unsent, wire, last, seen, overtaken, drops>>

ReceiveSnapshot(t) ==
    /\ wire[t] # <<>> /\ IsSnapshot(Head(wire[t]))
    /\ seen' = [seen EXCEPT ![t] =
                   @ \cup Covered(Head(wire[t]).session, Head(wire[t]).upto)]
    /\ wire' = [wire EXCEPT ![t] = Tail(@)]
    /\ UNCHANGED <<session, seq, outbox, cookie, unsent, tab, link, backlog, last, overtaken, drops>>

Receive(t) ==
    /\ wire[t] # <<>> /\ ~IsSnapshot(Head(wire[t]))
    /\ LET m == Head(wire[t]) IN
           IF m.seq <= last[t]
           THEN UNCHANGED <<last, seen>>
           ELSE /\ last' = [last EXCEPT ![t] = m.seq]
                /\ seen' = [seen EXCEPT ![t] = @ \cup {m}]
    /\ wire' = [wire EXCEPT ![t] = Tail(@)]
    /\ UNCHANGED <<session, seq, outbox, cookie, unsent, tab, link, backlog, overtaken, drops>>

-----------------------------------------------------------------------------
SocketNext ==
    \/ \E late \in SUBSET Tabs : Send(late)
    \/ \E t \in Tabs :
          \/ Deliver(t) \/ Connect(t) \/ Replay(t) \/ SendSnapshot(t)
          \/ SignIn(t) \/ OpenTab(t) \/ Start(t) \/ SignOut(t) \/ CloseTab(t)
          \/ Drop(t) \/ Reconnect(t) \/ ReceiveSnapshot(t) \/ Receive(t)

-----------------------------------------------------------------------------
(* What must hold.                                                         *)

\* Shown, but for what a newer message overtook on this connection.
UpToDate(t) == \A n \in 1 .. seq : Msg(n) \in seen[t] \cup overtaken[t]

\* A tab that is live with nothing on its way shows everything this session
\* has sent, however often the socket drops and however far the outbox rolled,
\* whatever send overtakes another.  All that overtaking can cost is the older
\* message, which the tab ignores; the newest is always shown, a slow tab costs
\* another tab nothing, and the snapshot of a reconnect makes up for it.
ViewIsCurrent ==
    \A t \in Tabs :
        link[t] = "live" /\ unsent[t] = {} /\ wire[t] = <<>> => UpToDate(t)

\* What a tab shows belongs to the session that is signed in: a new sign-in is
\* never replayed the messages of the one before (B27).
NobodyElsesMessages ==
    \A t \in Tabs : tab[t] = "open" => \A m \in seen[t] : m.session = session
=============================================================================
