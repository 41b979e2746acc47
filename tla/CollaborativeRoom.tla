-------------------------- MODULE CollaborativeRoom --------------------------
(***************************************************************************)
(* One collaborative room: the browser tabs that show it                   *)
(* (useCollaborativeRoom and App), one websocket_collaborative_room per    *)
(* connection, and the Redis channel between them.                         *)
(*                                                                         *)
(*   tab      a document, a list of members, and socketRef; an edit sends  *)
(*            the whole document, a received document replaces it          *)
(*   session  publishes "joined", SUBSCRIBEs, relays both ways, and        *)
(*            publishes "left" in its finally block, if it gets that far   *)
(*            and Redis answers                                            *)
(*   Redis    Pub/Sub: the sessions subscribed at that moment get it       *)
(*                                                                         *)
(* A tab ignores what its own user sent.  It clears its list of members    *)
(* when the user leaves the room, not when a socket closes.  Cursor, chat  *)
(* and run frames travel like documents and change nothing kept here; the  *)
(* snapshot room.current_code is never updated by any tab.                 *)
(***************************************************************************)
EXTENDS Naturals, Sequences, FiniteSets

CONSTANTS
    Tabs,       \* browser tabs
    Users,      \* who may be signed in
    MaxSockets, \* bound: connections opened
    MaxEdits,   \* bound: edits and picks, each a new text
    MaxDrops    \* bound: connections that break, departures not published

ASSUME BoundsAssumption == {MaxSockets, MaxEdits, MaxDrops} \subseteq Nat

VARIABLES
    user,      \* [Tabs -> Users], fixed
    socketRef, \* [Tabs -> index of socks, 0 for null]
    doc,       \* [Tabs -> text shown]: 0 is the room's snapshot
    members,   \* [Tabs -> users listed]
    remote,    \* tabs within 50 ms of a remote change (isRemoteUpdateRef)
    socks,     \* connections, in the order they were opened
    edits,     \* texts so far, edited or picked: the newest one
    drops,     \* broken connections and departures not published so far
    stale,     \* history: tabs that lost a socket while listing members
    unheard,   \* history: users whose last departure was not published
    rushed,    \* history: tabs that opened a socket over an unclosed one
    last       \* history: the newest edit and who has to show it

tabVars == <<socketRef, doc, members, remote>>
history == <<stale, unheard, rushed, last>>
roomVars == <<user, tabVars, socks, edits, drops, history>>

RoomInit ==
    /\ user \in [Tabs -> Users]
    /\ socketRef = [t \in Tabs |-> 0]
    /\ doc = [t \in Tabs |-> 0]
    /\ members = [t \in Tabs |-> {}]
    /\ remote = {}
    /\ socks = << >>
    /\ edits = 0
    /\ drops = 0
    /\ stale = {}
    /\ unheard = {}
    /\ rushed = {}
    /\ last = [text |-> 0, clean |-> FALSE, audience |-> {}]

Sockets == DOMAIN socks
Of(t) == {k \in Sockets : socks[k].tab = t}
IsOpen(k) == socks[k].client \in {"connecting", "open"}
Subscribed(k) == socks[k].session = "live"

\* Messages: presence ("joined", "left") and documents ("code").
Message(kind, t, text) == [kind |-> kind, user |-> user[t], text |-> text]

\* PUBLISH on the room's channel: the subscribed sessions get the message;
\* what a closed tab or one of the same user (isSelf) would drop is left out.
Published(ss, m) ==
    [k \in DOMAIN ss |-> IF /\ ss[k].session = "live"
                            /\ ss[k].client = "open"
                            /\ user[ss[k].tab] # m.user
                         THEN [ss[k] EXCEPT !.down = Append(@, m)] ELSE ss[k]]

\* The tab's end of connection k is gone: what it was sent is lost with it.
Gone(ss, k) == [ss EXCEPT ![k].client = "closing", ![k].down = << >>]

\* What a tab loses when its socket goes: its place in the audience of the
\* last edit, and the guarantee that its list will be corrected.
Detached(t) ==
    /\ stale' = IF members[t] = {} THEN stale ELSE stale \cup {t}
    /\ last' = [last EXCEPT !.audience = @ \ {t}]

-----------------------------------------------------------------------------
(* The tab *)

\* disconnectSocket.
Disconnected(t) ==
    IF socketRef[t] # 0 /\ IsOpen(socketRef[t]) THEN Gone(socks, socketRef[t]) ELSE socks

\* handleSelectRoom, and the restoration after a reload: connectToRoom, which
\* leaves the list of members alone, and then the room's stored snapshot unless
\* that is empty.
ConnectToRoom(t) ==
    /\ Len(socks) < MaxSockets
    /\ socks' = Append(Disconnected(t),
                       [tab |-> t, client |-> "connecting", session |-> "none",
                        up |-> << >>, down |-> << >>])
    /\ socketRef' = [socketRef EXCEPT ![t] = Len(socks) + 1]
    /\ \E text \in {0, doc[t]} : doc' = [doc EXCEPT ![t] = text]
    /\ rushed' = IF \E k \in Of(t) : socks[k].client # "closed" THEN rushed \cup {t} ELSE rushed
    /\ Detached(t)
    /\ UNCHANGED <<user, members, remote, edits, drops, unheard>>

\* A bug: the room is left, the socket is not closed.
LeaveRoomOpen(t) ==
    /\ Of(t) # {}
    /\ socketRef' = [socketRef EXCEPT ![t] = 0]
    /\ members' = [members EXCEPT ![t] = {}]
    /\ stale' = stale \ {t}
    /\ last' = [last EXCEPT !.audience = @ \ {t}]
    /\ UNCHANGED <<user, socks, doc, remote, edits, drops, unheard, rushed>>

LeaveRoom(t) ==
    /\ Of(t) # {}
    /\ socks' = Disconnected(t)
    /\ socketRef' = [socketRef EXCEPT ![t] = 0]
    /\ members' = [members EXCEPT ![t] = {}]
    /\ stale' = stale \ {t}
    /\ last' = [last EXCEPT !.audience = @ \ {t}]
    /\ UNCHANGED <<user, doc, remote, edits, drops, unheard, rushed>>

\* Documents between tabs: sent and not yet shown.
InFlight == \E k \in Sockets : \/ socks[k].up # << >>
                               \/ \E i \in DOMAIN socks[k].down : socks[k].down[i].kind = "code"

\* Who is connected to see an edit made now: the editor, and the tabs of
\* other users with an open, subscribed current socket.
Audience(t) ==
    {t} \cup {u \in Tabs : /\ user[u] # user[t]
                           /\ \E k \in Of(u) : /\ socketRef[u] = k
                                               /\ socks[k].client = "open"
                                               /\ Subscribed(k)}

\* handleCodeChange and sendCodeDelta: the text changes; it is sent unless a
\* remote change came less than 50 ms ago or the current socket is not open.
Edit(t) ==
    LET k == socketRef[t]
        sends == t \notin remote /\ k # 0 /\ socks[k].client = "open"
    IN  /\ edits < MaxEdits
        /\ edits' = edits + 1
        /\ doc' = [doc EXCEPT ![t] = edits + 1]
        /\ socks' = IF sends THEN [socks EXCEPT ![k].up = Append(@, edits + 1)] ELSE socks
        /\ last' = [text |-> edits + 1, clean |-> sends /\ ~InFlight,
                    audience |-> Audience(t)]
        /\ UNCHANGED <<user, socketRef, members, remote, drops, stale, unheard, rushed>>

\* handleSelectHistoricalSubmission: an old submission's text replaces the
\* document and goes to nobody, room or not.  (The editor reports no change that
\* comes from outside it, unless a run has made it read-only: then it is an Edit.)
PickFromHistory(t) ==
    /\ edits < MaxEdits
    /\ edits' = edits + 1
    /\ doc' = [doc EXCEPT ![t] = edits + 1]
    /\ last' = [last EXCEPT !.audience = @ \ {t}]
    /\ UNCHANGED <<user, socketRef, members, remote, socks, drops, stale, unheard, rushed>>

\* The 50 ms are over.
RemoteWindowEnds(t) ==
    /\ t \in remote
    /\ remote' = remote \ {t}
    /\ UNCHANGED <<user, socketRef, doc, members, socks, edits, drops, history>>

\* A bug: a document that arrives in the 50 ms is taken for the tab's own.
OnMessageQuiet(t, m) ==
    \/ /\ m.kind = "joined"
       /\ members' = [members EXCEPT ![t] = @ \cup {m.user}]
       /\ UNCHANGED <<doc, remote>>
    \/ /\ m.kind = "left"
       /\ members' = [members EXCEPT ![t] = @ \ {m.user}]
       /\ UNCHANGED <<doc, remote>>
    \/ /\ m.kind = "code"
       /\ doc' = IF t \in remote THEN doc ELSE [doc EXCEPT ![t] = m.text]
       /\ remote' = remote \cup {t}
       /\ UNCHANGED members

\* onmessage, of another user's message.
OnMessage(t, m) ==
    \/ /\ m.kind = "joined"
       /\ members' = [members EXCEPT ![t] = @ \cup {m.user}]
       /\ UNCHANGED <<doc, remote>>
    \/ /\ m.kind = "left"
       /\ members' = [members EXCEPT ![t] = @ \ {m.user}]
       /\ UNCHANGED <<doc, remote>>
    \/ /\ m.kind = "code"
       /\ doc' = [doc EXCEPT ![t] = m.text]
       /\ remote' = remote \cup {t}
       /\ UNCHANGED members

\* onclose, of whichever socket: socketRef becomes null.
OnClose(k) ==
    /\ socks[k].client = "closing"
    /\ socks' = [socks EXCEPT ![k].client = "closed"]
    /\ socketRef' = [socketRef EXCEPT ![socks[k].tab] = 0]
    /\ UNCHANGED <<user, doc, members, remote, edits, drops, history>>

\* A connection breaks: the network does, or its session, when a pump's call of
\* Redis raises or the gateway's process dies.  Leave may lose what the tab sent
\* last.
Break(k) ==
    /\ drops < MaxDrops
    /\ IsOpen(k)
    /\ drops' = drops + 1
    /\ socks' = Gone(socks, k)
    /\ Detached(socks[k].tab)
    /\ UNCHANGED <<user, tabVars, edits, unheard, rushed>>

-----------------------------------------------------------------------------
(* The session *)

\* accept, and "joined", before the session subscribes: it hears neither its
\* own arrival nor anything published before Subscribe.
Announce(k) ==
    /\ socks[k].session = "none"
    /\ socks[k].client = "connecting"
    /\ socks' = [Published(socks, Message("joined", socks[k].tab, 0))
                 EXCEPT ![k].session = "announced", ![k].client = "open"]
    /\ UNCHANGED <<user, tabVars, edits, drops, history>>

Subscribe(k) ==
    /\ socks[k].session = "announced"
    /\ socks' = [socks EXCEPT ![k].session = "live"]
    /\ UNCHANGED <<user, tabVars, edits, drops, history>>

\* room_upstream_pump relays one document, under the session's own user.
RelayUp(k) ==
    /\ Subscribed(k)
    /\ socks[k].up # << >>
    /\ socks' = Published([socks EXCEPT ![k].up = Tail(@)],
                          Message("code", socks[k].tab, Head(socks[k].up)))
    /\ UNCHANGED <<user, tabVars, edits, drops, history>>

\* room_downstream_pump relays one message, and the tab handles it.
RelayDown(k) ==
    /\ Subscribed(k)
    /\ socks[k].client = "open"
    /\ socks[k].down # << >>
    /\ OnMessage(socks[k].tab, Head(socks[k].down))
    /\ socks' = [socks EXCEPT ![k].down = Tail(@)]
    /\ UNCHANGED <<user, socketRef, edits, drops, history>>

\* Session k is over, and what it had not relayed is lost.
Ended(ss, k) == [ss EXCEPT ![k].session = "gone", ![k].up = << >>]

Departed(k) ==
    /\ ~IsOpen(k)
    /\ last' = [last EXCEPT !.clean = @ /\ socks[k].up = << >>]
    /\ UNCHANGED <<user, tabVars, edits, stale, rushed>>

\* A bug: a session that is cut short announces nothing.
LeaveQuietly(k) ==
    /\ Subscribed(k)
    /\ Departed(k)
    /\ socks' = Ended(IF socks[k].up = << >> THEN Published(socks, Message("left", socks[k].tab, 0))
                      ELSE socks, k)
    /\ unheard' = unheard \ {user[socks[k].tab]}
    /\ UNCHANGED drops

\* The tab is gone: a receive says so once the frames before it are relayed,
\* or a send fails first and takes them along.  finally: "left", unsubscribe.
Leave(k) ==
    /\ Subscribed(k)
    /\ Departed(k)
    /\ socks' = Ended(Published(socks, Message("left", socks[k].tab, 0)), k)
    /\ unheard' = unheard \ {user[socks[k].tab]}
    /\ UNCHANGED drops

\* The session ends and nobody hears of it: the publication of "left" fails,
\* which is suppressed, or the gateway's process is dead.
LeaveUnheard(k) ==
    /\ drops < MaxDrops
    /\ socks[k].session \in {"announced", "live"}
    /\ Departed(k)
    /\ drops' = drops + 1
    /\ socks' = Ended(socks, k)
    /\ unheard' = unheard \cup {user[socks[k].tab]}

-----------------------------------------------------------------------------
Session(k) == \/ Announce(k) \/ Subscribe(k) \/ RelayUp(k) \/ RelayDown(k)
              \/ Leave(k) \/ LeaveUnheard(k)

RoomNext == \/ \E t \in Tabs : \/ ConnectToRoom(t) \/ LeaveRoom(t)
                           \/ Edit(t) \/ PickFromHistory(t) \/ RemoteWindowEnds(t)
        \/ \E k \in Sockets : Session(k) \/ OnClose(k) \/ Break(k)

RoomSpec == RoomInit /\ [][RoomNext]_roomVars

-----------------------------------------------------------------------------
(* Properties *)

\* A listed member is in the room, or word that they left is on its way, or
\* their last departure was never published: but for that one cause the list
\* corrects itself for as long as the tab loses no socket over it, and a ghost
\* goes with the user's next departure that is published.
NoGhosts ==
    \A t \in Tabs \ stale : \A u \in members[t] :
        \/ \E k \in Sockets : /\ user[socks[k].tab] = u
                              /\ socks[k].session \in {"announced", "live"}
        \/ \E k \in Of(t) : \E i \in DOMAIN socks[k].down :
              socks[k].down[i].kind = "left" /\ socks[k].down[i].user = u
        \/ u \in unheard

\* An edit that was sent while no other document was on its way is shown, once
\* it has arrived, by every tab that was connected then, still is and has picked
\* nothing from the history since; edits that cross leave each tab with the
\* other's text.
AudienceAgrees ==
    last.clean /\ ~InFlight => \A t \in last.audience : doc[t] = last.text

\* A tab that waits for its socket's close before it opens another never has
\* an open socket that socketRef does not hold: what it leaves, it closes.
NoOrphanSocket ==
    \A t \in Tabs \ rushed : \A k \in Of(t) : IsOpen(k) => socketRef[t] = k
=============================================================================
