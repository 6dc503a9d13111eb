------------------------------ MODULE ClientLink ------------------------------
(***************************************************************************)
(* The phone and the PC: the connection logic of the page (app-core.js),   *)
(* its locks and its tap-and-drag (app-touchpad.js), and what the server   *)
(* holds down for each connection (protocol.py, win32.py).                 *)
(*                                                                         *)
(* A slot stands for one websocket, seen from both ends.  The page has one *)
(* current websocket; an older one may live on at the server until it      *)
(* reads the close, or its ping tells it that the phone is gone.  Each     *)
(* direction is a queue; a handler of the page and the dispatch of one     *)
(* message by the server are atomic.                                       *)
(***************************************************************************)
EXTENDS Naturals, Sequences, SequencesExt

CONSTANTS
  Slots, NoSlot,
  Wss,            (* the page was loaded over https                        *)
  Keys,           (* modifiers that can be locked                          *)
  Button,         (* the left mouse button                                 *)
  MaxReconnects,  (* MAX_RECONNECTS                                        *)
  MaxInFlight,    (* bound: messages of the user on one websocket          *)
  MaxTimers,      (* bound: no gesture while so many timers are pending    *)
  MaxTouchTimers  (* bound: nothing is touched while so many are pending   *)

ASSUME LinkAssumption ==
  /\ NoSlot \notin Slots /\ Wss \in BOOLEAN /\ Button \notin Keys
  /\ MaxReconnects \in Nat /\ MaxInFlight \in Nat
  /\ MaxTimers \in Nat /\ MaxTouchTimers \in Nat

VARIABLES
  page,      (* variables of the page; `valid`: its field holds an address *)
             (* connectServer() takes; `refused` is history: it refused    *)
             (* the one of a load or of a wake, and has made no websocket  *)
             (* since                                                      *)
  srv,       (* where handler() is, for each websocket                     *)
  held,      (* ClientConnection.held_keys                                 *)
  toServer,  (* messages, and the end of the websocket, on their way       *)
  toPage,
  pressed    (* what is down on the PC                                     *)

server == <<srv, held, pressed>>
linkVars == <<page, server, toServer, toPage>>

Inputs == Keys \cup {Button}
Msg(kind, arg) == [kind |-> kind, arg |-> arg]
Auth == Msg("auth", Button)
End  == Msg("end", Button)   (* the page closed the websocket, or the      *)
                             (* ping timeout will tell that it is gone     *)

(* What the page sends, unless the websocket has come to its end. *)
Sent(c, m) ==
  IF srv[c] = "gone" \/ (toServer[c] # <<>> /\ Last(toServer[c]) = End)
  THEN toServer ELSE [toServer EXCEPT ![c] = Append(@, m)]

LinkInit ==
  /\ page = [loaded |-> FALSE, ws |-> NoSlot, rs |-> "closed", timeout |-> FALSE,
             retries |-> 0, attempts |-> 0, handled |-> FALSE, failed |-> FALSE,
             panel |-> FALSE, valid |-> FALSE, refused |-> FALSE, locks |-> {},
             dragging |-> FALSE]
  /\ srv = [c \in Slots |-> "gone"] /\ held = [c \in Slots |-> {}]
  /\ toServer = [c \in Slots |-> <<>>] /\ toPage = [c \in Slots |-> <<>>]
  /\ pressed = {}

-----------------------------------------------------------------------------
(* The functions of the page, as what they make of its variables.          *)

(* closeWS(): its handlers are removed, so that nothing the old websocket  *)
(* gets reaches the page any more.                                         *)
ToServerClosed == IF page.ws = NoSlot THEN toServer ELSE Sent(page.ws, End)
ToPageClosed == [c \in Slots |-> IF page.ws = c THEN <<>> ELSE toPage[c]]
CloseWS == toServer' = ToServerClosed /\ toPage' = ToPageClosed

(* connectServer() with a valid address, on the fresh websocket c. *)
Connecting(p, c) ==
  [p EXCEPT !.ws = c, !.rs = "connecting", !.timeout = TRUE, !.handled = FALSE,
            !.refused = FALSE]
Connect(p, c) ==
  /\ srv[c] = "gone" /\ page.ws # c
  /\ page' = Connecting(p, c)
  /\ CloseWS
  /\ srv' = [srv EXCEPT ![c] = "knocking"]
  /\ UNCHANGED <<held, pressed>>

(* Variant: one attempt too many. *)
DisconnectedLate(p) ==
  IF p.attempts <= MaxReconnects
  THEN [p EXCEPT !.locks = {}, !.attempts = @ + 1, !.retries = @ + 1]
  ELSE [p EXCEPT !.locks = {}, !.panel = TRUE]

(* Variant: the panel is not shown when the attempts are over. *)
GivingUpSilently(p) ==
  IF p.attempts < MaxReconnects
  THEN [p EXCEPT !.locks = {}, !.attempts = @ + 1, !.retries = @ + 1]
  ELSE [p EXCEPT !.locks = {}]

(* handleDisconnect(): another timer, or the panel after the last attempt. *)
Disconnected(p) ==
  IF p.attempts < MaxReconnects
  THEN [p EXCEPT !.locks = {}, !.attempts = @ + 1, !.retries = @ + 1]
  ELSE [p EXCEPT !.locks = {}, !.panel = TRUE]

StopWithError(p) ==
  /\ page' = [p EXCEPT !.handled = TRUE, !.timeout = FALSE, !.ws = NoSlot, !.rs = "closed",
                       !.locks = {}, !.panel = TRUE]
  /\ CloseWS

Received(c) == toPage' = [toPage EXCEPT ![c] = Tail(@)]

(* sendAuth() on the open websocket.  Whether a PIN was typed or saved,    *)
(* and whether it is the right one, is left open.                          *)
SendAuth(p) ==
  \/ StopWithError(p)
  \/ page' = p /\ toServer' = Sent(p.ws, Auth) /\ Received(p.ws)

Incoming(c, kinds) == page.ws = c /\ toPage[c] # <<>> /\ Head(toPage[c]) \in kinds
-----------------------------------------------------------------------------
(* Events of the page.                                                     *)

(* The load handler: connect to the host of the page, if it is known.  A   *)
(* host that is none for connectServer(), as [::1], goes to the field, and *)
(* no further: an alert, and neither a websocket nor the panel.            *)
Load ==
  /\ ~page.loaded
  /\ LET p == [page EXCEPT !.loaded = TRUE]
     IN  \/ /\ \/ page' = [p EXCEPT !.panel = TRUE]
               \/ page' = [p EXCEPT !.refused = TRUE]
            /\ UNCHANGED <<server, toServer, toPage>>
         \/ \E c \in Slots : Connect([p EXCEPT !.valid = TRUE], c)

(* onopen: over wss the PIN goes first, on the LAN the page is served. *)
OnOpen(c) ==
  /\ Incoming(c, {"open"})
  /\ LET p == [page EXCEPT !.rs = "open", !.timeout = FALSE, !.handled = FALSE,
                           !.attempts = 0]
     IN  IF Wss THEN SendAuth(p)
         ELSE page' = [p EXCEPT !.panel = FALSE] /\ Received(c) /\ UNCHANGED toServer
  /\ UNCHANGED <<server>>

OnAuthRequired(c) ==
  /\ Incoming(c, {"auth_required"})
  /\ SendAuth(page)
  /\ UNCHANGED <<server>>

OnAuthOk(c) ==
  /\ Incoming(c, {"auth_ok"})
  /\ page' = [page EXCEPT !.panel = FALSE]
  /\ Received(c)
  /\ UNCHANGED <<server, toServer>>

(* auth_fail and auth_blocked. *)
OnRefused(c) ==
  /\ Incoming(c, {"auth_fail", "auth_blocked"})
  /\ StopWithError([page EXCEPT !.failed = TRUE])
  /\ UNCHANGED <<server>>

(* onerror and onclose, after which the websocket has no more events. *)
OnClose(c) ==
  /\ Incoming(c, {"close"})
  /\ LET p == [page EXCEPT !.ws = NoSlot, !.rs = "closed", !.timeout = FALSE]
     IN  page' = IF p.handled THEN p ELSE Disconnected([p EXCEPT !.handled = TRUE])
  /\ toPage' = [toPage EXCEPT ![c] = <<>>]
  /\ UNCHANGED <<server, toServer>>

(* The connection did not open within three seconds. *)
ConnectionTimeout ==
  /\ page.timeout
  /\ IF page.rs # "open" /\ ~page.handled
     THEN /\ page' = Disconnected([page EXCEPT !.timeout = FALSE, !.handled = TRUE,
                                               !.ws = NoSlot, !.rs = "closed"])
          /\ CloseWS
     ELSE page' = [page EXCEPT !.timeout = FALSE] /\ UNCHANGED <<toServer, toPage>>
  /\ UNCHANGED <<server>>

(* The timer of handleDisconnect(), which nothing cancels. *)
Reconnect ==
  /\ page.retries > 0
  /\ \E c \in Slots : Connect([page EXCEPT !.retries = @ - 1], c)

-----------------------------------------------------------------------------
(* Gestures.                                                               *)

MayAct == page.loaded /\ page.retries < MaxTimers

ClickConnect ==
  /\ MayAct /\ page.panel
  /\ LET p == [page EXCEPT !.failed = FALSE, !.attempts = 0]
     IN  \/ page.valid /\ \E c \in Slots : Connect(p, c)
         \/ ~page.valid /\ page' = p /\ UNCHANGED <<server, toServer, toPage>>

(* The panel holds the only field of the address. *)
EditAddress ==
  /\ page.loaded /\ page.panel
  /\ page' = [page EXCEPT !.valid = ~page.valid]
  /\ UNCHANGED <<server, toServer, toPage>>

EditPin ==
  /\ page.loaded /\ page.panel
  /\ page' = [page EXCEPT !.failed = FALSE]
  /\ UNCHANGED <<server, toServer, toPage>>

(* visibilitychange: the phone wakes up.  An empty field is replaced by    *)
(* the address saved, if there is one.                                     *)
Wake ==
  /\ MayAct /\ ~page.failed
  /\ \E c \in Slots : Connect([page EXCEPT !.attempts = 0], c)

(* The same, when the field holds what is no address: the websocket has    *)
(* been closed before connectServer() sees it.                             *)
WakeRefused ==
  /\ MayAct /\ ~page.failed /\ ~page.valid
  /\ page' = [page EXCEPT !.attempts = 0, !.ws = NoSlot, !.rs = "closed", !.refused = TRUE]
  /\ CloseWS
  /\ UNCHANGED <<server>>

(* Any message of the user is sent only on an open websocket. *)
Sends(kind, input) ==
  IF page.rs = "open" THEN toServer' = Sent(page.ws, Msg(kind, input))
  ELSE UNCHANGED toServer
HasRoom == page.rs = "open" => Len(toServer[page.ws]) < MaxInFlight
(* The panel, when it is shown, covers the touchpad and the menu. *)
MayTouch ==
  page.loaded /\ ~page.panel /\ HasRoom /\ page.retries < MaxTouchTimers

ToggleLock(i) ==
  /\ MayTouch
  /\ page' = [page EXCEPT !.locks = IF i \in @ THEN @ \ {i} ELSE @ \cup {i}]
  /\ Sends(IF i \in page.locks THEN "up" ELSE "down", i)
  /\ UNCHANGED <<server, toPage>>

StartDrag ==
  /\ MayTouch /\ ~page.dragging /\ Button \notin page.locks
  /\ page' = [page EXCEPT !.dragging = TRUE]
  /\ Sends("down", Button)
  /\ UNCHANGED <<server, toPage>>

(* Variant: touchcancel forgets the drag without releasing the button. *)
CancelDrag ==
  /\ HasRoom /\ page.dragging
  /\ page' = [page EXCEPT !.dragging = FALSE]
  /\ UNCHANGED <<server, toServer, toPage>>

(* endTapDrag(): the finger is lifted, a second one comes, or the touch is *)
(* cancelled.                                                              *)
EndDrag ==
  /\ HasRoom /\ page.dragging
  /\ page' = [page EXCEPT !.dragging = FALSE]
  /\ Sends("up", Button)
  /\ UNCHANGED <<server, toPage>>

(* A click, a key or a combination that presses and releases the input. *)
Tap(i) ==
  /\ page.rs = "open" /\ MayTouch
  /\ Sends("tap", i)
  /\ UNCHANGED <<page, server, toPage>>

-----------------------------------------------------------------------------
(* The server.                                                             *)

Pending(c, kinds) == toServer[c] # <<>> /\ Head(toServer[c]).kind \in kinds
Read(c) == toServer' = [toServer EXCEPT ![c] = Tail(@)]
Answer(c, msgs) == toPage' = IF page.ws = c THEN [toPage EXCEPT ![c] = @ \o msgs] ELSE toPage

(* The server is done with the websocket: nobody reads the rest. *)
Gone(c) == srv' = [srv EXCEPT ![c] = "gone"] /\ toServer' = [toServer EXCEPT ![c] = <<>>]

(* The page has the wrong Origin or Host for the addresses the PC has at   *)
(* this moment: the websocket is refused before any handler runs.          *)
NotUpgraded(c) == Gone(c) /\ Answer(c, <<"close">>)

(* The upgrade and authorize(), up to the wait for the PIN: who is let in, *)
(* refused or blocked is the business of Authorization.                    *)
Accept(c) ==
  /\ srv[c] = "knocking"
  /\ \/ /\ srv' = [srv EXCEPT ![c] = "asking"]
        /\ Answer(c, IF Wss THEN <<"open">> ELSE <<"open", "auth_required">>)
        /\ UNCHANGED toServer
     \/ /\ ~Wss
        /\ srv' = [srv EXCEPT ![c] = "serving"] /\ Answer(c, <<"open">>)
        /\ UNCHANGED toServer
     \/ NotUpgraded(c)
     \/ /\ Gone(c)
        /\ \/ Answer(c, <<"open", "auth_blocked", "close">>)
           \/ ~Wss /\ Answer(c, <<"open", "close">>)           (* whitelist *)
  /\ UNCHANGED <<page, held, pressed>>

CheckPin(c) ==
  /\ srv[c] = "asking" /\ Pending(c, {"auth"})
  /\ \/ srv' = [srv EXCEPT ![c] = "serving"] /\ Read(c) /\ Answer(c, <<"auth_ok">>)
     \/ Gone(c) /\ Answer(c, <<"auth_fail", "close">>)
  /\ UNCHANGED <<page, held, pressed>>

(* _recv_auth(): what is not an auth is discarded on the LAN. *)
Discard(c) ==
  /\ srv[c] = "asking" /\ ~Wss /\ Pending(c, {"down", "up", "tap"})
  /\ Read(c)
  /\ UNCHANGED <<page, server, toPage>>

(* The wait for the PIN times out, or too much is discarded. *)
GiveUpAsking(c) ==
  /\ srv[c] = "asking"
  /\ Gone(c) /\ Answer(c, <<"close">>)
  /\ UNCHANGED <<page, held, pressed>>

(* What SendInput makes of the PC: it knows no counts, and a tap presses   *)
(* and releases what somebody else may be holding.                         *)
Down(i)   == pressed' = pressed \cup {i}
Up(i)     == pressed' = pressed \ {i}
Tapped(i) == pressed' = (pressed \cup {i}) \ {i}

(* _drag and _key_toggle, _click, _key and _hotkey. *)
Handle(c) ==
  /\ srv[c] = "serving" /\ Pending(c, {"down", "up", "tap"})
  /\ LET kind == Head(toServer[c]).kind
         i == Head(toServer[c]).arg
     IN  /\ CASE kind = "down" -> Down(i) [] kind = "up" -> Up(i) [] OTHER -> Tapped(i)
         /\ held' = IF i = Button \/ kind = "tap" THEN held
                    ELSE [held EXCEPT ![c] = IF kind = "down" THEN @ \cup {i} ELSE @ \ {i}]
  /\ Read(c)
  /\ UNCHANGED <<page, srv, toPage>>

(* Variant: only the keys are released. *)
ReleasedKeysOnly(c) == pressed' = pressed \ held[c]

(* release_all(): the button, and the keys this connection holds. *)
ReleaseAll(c) == pressed' = pressed \ (held[c] \cup {Button})

(* handler() comes to its end. *)
HandlerEnds(c) ==
  /\ IF srv[c] = "serving" THEN ReleaseAll(c) ELSE UNCHANGED pressed
  /\ Gone(c) /\ held' = [held EXCEPT ![c] = {}]
  /\ UNCHANGED <<page>>

(* It reads the close, or the ping timeout tells that the client is gone. *)
HandlerReturns(c) ==
  /\ srv[c] \in {"asking", "serving"} /\ Pending(c, {"end"})
  /\ HandlerEnds(c)
  /\ UNCHANGED toPage

(* The server closes: the PIN changed, a frame is too long, it shuts down. *)
ServerCloses(c) ==
  /\ srv[c] = "serving"
  /\ HandlerEnds(c) /\ Answer(c, <<"close">>)

(* The network is lost with all that was on its way; sooner or later the   *)
(* page is told, unless it closes the websocket first.                     *)
Drop(c) ==
  /\ srv[c] \in {"asking", "serving"} /\ page.ws = c
  /\ toServer' = [toServer EXCEPT ![c] = <<End>>]
  /\ toPage' = [toPage EXCEPT ![c] = <<"close">>]
  /\ UNCHANGED <<page, server>>

LinkNext ==
  \/ Load \/ ConnectionTimeout \/ Reconnect \/ ClickConnect \/ EditPin
  \/ EditAddress \/ Wake \/ WakeRefused
  \/ \E i \in Inputs : ToggleLock(i) \/ Tap(i)
  \/ StartDrag \/ EndDrag
  \/ \E c \in Slots :
       \/ OnOpen(c) \/ OnAuthRequired(c) \/ OnAuthOk(c) \/ OnRefused(c) \/ OnClose(c)
       \/ Accept(c) \/ CheckPin(c) \/ Discard(c) \/ GiveUpAsking(c) \/ Handle(c)
       \/ HandlerReturns(c) \/ ServerCloses(c) \/ Drop(c)

LinkSpec == LinkInit /\ [][LinkNext]_linkVars

-----------------------------------------------------------------------------
(* Types. *)
PageType == [loaded : BOOLEAN, ws : Slots \cup {NoSlot}, rs : {"connecting", "open", "closed"},
             timeout : BOOLEAN, retries : Nat, attempts : 0 .. MaxReconnects, handled : BOOLEAN,
             failed : BOOLEAN, panel : BOOLEAN, valid : BOOLEAN, refused : BOOLEAN,
             locks : SUBSET Inputs, dragging : BOOLEAN]
MessageType == [kind : {"auth", "down", "up", "tap", "end"}, arg : Inputs]
NewsType == {"open", "auth_required", "auth_ok", "auth_fail", "auth_blocked", "close"}

LinkTypeOK ==
  /\ page \in PageType
  /\ srv \in [Slots -> {"gone", "knocking", "asking", "serving"}]
  /\ held \in [Slots -> SUBSET Keys]
  /\ toServer \in [Slots -> Seq(MessageType)]
  /\ toPage \in [Slots -> Seq(NewsType)]
  /\ pressed \subseteq Inputs

(* "Senza questo, un client che si disconnette con Ctrl premuto lascia il  *)
(* modificatore giu' sul PC" (handler): whatever is down on the PC is held *)
(* by a connection that is still being served, and will release it.        *)
NothingStaysDown ==
  \A i \in pressed : \E c \in Slots : srv[c] = "serving" /\ (i = Button \/ i \in held[c])

(* When the phone's websocket is the only one served, what is down on the  *)
(* PC is what the page shows as locked or dragged, or its release is on    *)
(* its way: the user always sees what there is to let go.                  *)
DownIsShown ==
  \A i \in pressed :
    (page.rs = "open" /\ {c \in Slots : srv[c] = "serving"} = {page.ws}) =>
      \/ i \in page.locks \/ (i = Button /\ page.dragging)
      \/ \E n \in DOMAIN toServer[page.ws] :
           LET m == toServer[page.ws][n]
           IN  m = End \/ (m.kind \in {"up", "tap"} /\ m.arg = i)

(* The page never waits for nothing: it is connected, or trying to with    *)
(* its timeout armed, or a reconnection is due, or it shows the panel.     *)
(* Excepted is the page that was loaded from, or woke up with, what its    *)
(* own connectServer() refuses as an address: an alert is all it leaves.   *)
NeverStuck ==
  page.loaded =>
    \/ page.rs = "open"
    \/ page.rs = "connecting" /\ page.timeout
    \/ page.retries > 0
    \/ page.panel
    \/ page.refused

-----------------------------------------------------------------------------
(* What a comment promises and the code does not keep.                     *)

(* "Dopo un PIN errato o un blocco nessuna riconnessione automatica (timer *)
(* o risveglio del telefono) deve rimandare lo stesso PIN" (app-core.js):  *)
(* once a PIN was refused no PIN is sent before a gesture of the user.  A  *)
(* timer armed by an earlier disconnection still fires.                    *)
NoBlindRetry ==
  [][\A c \in Slots :
       (toServer'[c] # <<>> /\ Last(toServer'[c]).kind = "auth" /\ toServer'[c] # toServer[c])
         => ~page.failed]_linkVars
=============================================================================
