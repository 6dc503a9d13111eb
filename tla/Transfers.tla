------------------------------- MODULE Transfers -------------------------------
(***************************************************************************)
(* The file manager: SFTP connections of the clients (sftp.py), tickets    *)
(* for the transfers (transfers.py), the sftp_ messages that ask for both  *)
(* (protocol.py), and the HTTP threads that carry a file (server.py).      *)
(*                                                                         *)
(* One remote host with one file, as its directory sees it: the name of    *)
(* the file, its partial name and one name more that a user can give a     *)
(* file each lead to an inode or to none, and an open handle keeps the     *)
(* inode whatever happens to the names.  A message                         *)
(* is dispatched when the one before it has been: what a client does is    *)
(* one handler at a time, which awaits a thread of the SFTP pool.  The     *)
(* HTTP threads run beside all that.                                       *)
(***************************************************************************)
EXTENDS Integers, FiniteSets

CONSTANTS
  Owners,      (* id(websocket): an id is used again by a later connection *)
  Requests,    (* HTTP threads                                             *)
  Tokens,      (* bound: the tickets that can be issued                    *)
  TicketsMax,  (* TICKETS_MAX                                              *)
  Blocks,      (* blocks of an uploaded file                               *)
  Original,    (* the inode, and the content, found on the host            *)
  Nothing

ASSUME TransfersAssumption ==
  /\ Blocks \in Nat \ {0} /\ TicketsMax \in Nat /\ IsFiniteSet(Tokens)
  /\ Original \notin Tokens /\ Nothing \notin Tokens \cup {Original}

VARIABLES
  link,     (* the websocket of each owner: "closed", "open" or "lost"     *)
  doing,    (* the handler that is being awaited                           *)
  session,  (* owners with an entry in SftpManager._sessions               *)
  ticket,   (* TransferRegistry._tickets, and what became of the others    *)
  req,      (* the HTTP threads                                            *)
  dest,     (* the inode the name of the file leads to                     *)
  part,     (* the inode its partial name leads to                         *)
  other,    (* the inode another name in the directory leads to            *)
  data,     (* the content of the inodes: who wrote each block             *)
  clashed,  (* history: two uploads wrote at the same time                 *)
  moved,    (* history: a user renamed them from or to the partial name    *)
  litter    (* history: the last upload to end could not remove its partial *)

clients == <<link, doing, session>>
entries == <<dest, part, other>>
host == <<entries, data, clashed, moved, litter>>
vars == <<clients, ticket, req, host>>

Inodes == Tokens \cup {Original}
Idle == [state |-> "idle", dir |-> "dl", token |-> Nothing, owner |-> Nothing, inode |-> Nothing, sent |-> 0, alive |-> FALSE]
Ticket(state, o, dir) == [state |-> state, owner |-> o, dir |-> dir]
NoTicket == Ticket("new", Nothing, "dl")
Spent == Ticket("spent", Nothing, "dl")
Empty == [b \in 1 .. Blocks |-> Nothing]

Init ==
  /\ link = [o \in Owners |-> "closed"] /\ doing = [o \in Owners |-> "nothing"]
  /\ session = {}
  /\ ticket = [t \in Tokens |-> NoTicket]
  /\ req = [r \in Requests |-> Idle]
  /\ part = Nothing
  /\ \/ dest = Original /\ other = Nothing
     \/ dest = Nothing /\ other = Original
  /\ data = [i \in Inodes |-> [b \in 1 .. Blocks |-> IF i = Original THEN i ELSE Nothing]]
  /\ clashed = FALSE /\ moved = {} /\ litter = FALSE

Uploading == {r \in Requests : req[r].state = "writing"}

-----------------------------------------------------------------------------
(* Messages of the clients.                                                *)

Open(o) ==
  /\ link[o] = "closed"
  /\ link' = [link EXCEPT ![o] = "open"]
  /\ UNCHANGED <<doing, session, ticket, req, host>>

Ready(o) == link[o] = "open" /\ doing[o] = "nothing"
Does(o, what) == doing' = [doing EXCEPT ![o] = what]

(* close_owner(): the files opened through the connection are dead; of a   *)
(* download it is enough that it may end at any point.                     *)
CloseOwner(o) ==
  /\ session' = session \ {o}
  /\ req' = [r \in Requests |->
               IF req[r].state = "writing" /\ req[r].owner = o
               THEN [req[r] EXCEPT !.alive = FALSE] ELSE req[r]]

(* sftp_connect: the old connection is closed before the new one is made. *)
ConnectBegins(o) ==
  /\ Ready(o)
  /\ Does(o, "connect") /\ CloseOwner(o)
  /\ UNCHANGED <<link, ticket, host>>

ConnectEnds(o) ==
  /\ doing[o] = "connect"
  /\ Does(o, "nothing") /\ session' \in {session, session \cup {o}}
  /\ UNCHANGED <<link, ticket, req, host>>

SftpDisconnect(o) ==
  /\ Ready(o)
  /\ CloseOwner(o)
  /\ UNCHANGED <<link, doing, ticket, host>>

(* sftp_delete, of whatever there is. *)
Delete(o) ==
  /\ Ready(o) /\ o \in session
  /\ \/ dest' = Nothing /\ UNCHANGED <<part, other>>
     \/ part' = Nothing /\ UNCHANGED <<dest, other>>
     \/ other' = Nothing /\ UNCHANGED <<dest, part>>
  /\ UNCHANGED <<clients, ticket, req, data, clashed, moved, litter>>

(* sftp_rename, of any file to any name, the partial one included.         *)
(* Whether the name is free is asked before, and settled by the host.      *)
Moves(from, to) == from # Nothing /\ to = Nothing /\ to' = from /\ from' = Nothing
Rename(o) ==
  /\ Ready(o) /\ o \in session
  /\ \/ (Moves(dest, other) \/ Moves(other, dest)) /\ UNCHANGED <<part, moved>>
     \/ (Moves(part, dest) \/ Moves(dest, part)) /\ UNCHANGED other
        /\ moved' = moved \cup {IF part = Nothing THEN dest ELSE part}
     \/ (Moves(part, other) \/ Moves(other, part)) /\ UNCHANGED dest
        /\ moved' = moved \cup {IF part = Nothing THEN other ELSE part}
  /\ UNCHANGED <<clients, ticket, req, data, clashed, litter>>

(* _issue_ticket(), the questions to the host: there is something to       *)
(* download, or nothing to overwrite unless the user agreed.               *)
TicketAsked(o, dir, overwrite) ==
  /\ Ready(o) /\ o \in session
  /\ IF dir = "dl" THEN dest # Nothing ELSE overwrite \/ dest = Nothing
  /\ Does(o, dir)
  /\ UNCHANGED <<link, session, ticket, req, host>>

Held == {t \in Tokens : ticket[t].state \in {"live", "expired"}}
Purged == [t \in Tokens |-> IF ticket[t].state = "expired" THEN Spent ELSE ticket[t]]

(* issue(): what expired is purged, and there is room or an error. *)
TicketIssued(o) ==
  /\ doing[o] \in {"dl", "up"}
  /\ Does(o, "nothing")
  /\ IF o \in session
     THEN \E t \in Tokens :
            /\ ticket[t].state = "new"
            /\ ticket' = IF Cardinality({u \in Tokens : ticket[u].state = "live"}) < TicketsMax
                         THEN [Purged EXCEPT ![t] = Ticket("live", o, doing[o])]
                         ELSE Purged
     ELSE UNCHANGED ticket
  /\ UNCHANGED <<link, session, req, host>>

(* The tokens of the instance are used up: the handler fails.              *)
TicketRefused(o) ==
  /\ doing[o] \in {"dl", "up"}
  /\ Does(o, "nothing")
  /\ UNCHANGED <<link, session, ticket, req, host>>

Lose(o) ==
  /\ link[o] = "open"
  /\ link' = [link EXCEPT ![o] = "lost"]
  /\ UNCHANGED <<doing, session, ticket, req, host>>

Revoked(o) == [t \in Tokens |-> IF t \in Held /\ ticket[t].owner = o
                                THEN Spent ELSE ticket[t]]

(* Variant: the handler in progress is not waited for. *)
ReleaseAtOnce(o) ==
  /\ link[o] = "lost"
  /\ link' = [link EXCEPT ![o] = "closed"]
  /\ CloseOwner(o) /\ ticket' = Revoked(o)
  /\ UNCHANGED <<doing, host>>

(* release_all(), once the loop over the messages has ended. *)
Release(o) ==
  /\ link[o] = "lost" /\ doing[o] = "nothing"
  /\ link' = [link EXCEPT ![o] = "closed"]
  /\ CloseOwner(o) /\ ticket' = Revoked(o)
  /\ UNCHANGED <<doing, host>>

Expire(t) ==
  /\ ticket[t].state = "live"
  /\ ticket' = [ticket EXCEPT ![t].state = "expired"]
  /\ UNCHANGED <<clients, req, host>>

-----------------------------------------------------------------------------
(* The HTTP threads.                                                       *)

Becomes(r, state) == req' = [req EXCEPT ![r] = state]

(* redeem(): a ticket is burnt even by a request it is not good for. *)
Redeem(r, t, dir) ==
  /\ req[r] = Idle /\ t \in Held
  /\ ticket' = [ticket EXCEPT ![t] = Spent]
  /\ IF ticket[t].state = "live" /\ ticket[t].dir = dir
     THEN Becomes(r, [Idle EXCEPT !.state = "redeemed", !.dir = dir, !.token = t,
                                   !.owner = ticket[t].owner])
     ELSE UNCHANGED req
  /\ UNCHANGED <<clients, host>>

(* A redeemed ticket that cannot be used: no connection, no such file, or  *)
(* no body (410, 411).                                                     *)
OpenFails(r) ==
  /\ req[r].state = "redeemed"
  /\ Becomes(r, Idle)
  /\ UNCHANGED <<clients, ticket, host>>

CanOpen(r, dir) ==
  /\ req[r].state = "redeemed" /\ req[r].dir = dir
  /\ req[r].owner \in session

OpenRead(r) ==
  /\ CanOpen(r, "dl") /\ dest # Nothing
  /\ Becomes(r, [Idle EXCEPT !.state = "reading", !.inode = dest])
  /\ UNCHANGED <<clients, ticket, host>>

(* open_write(): "wb" creates the partial file, or truncates the one that  *)
(* is there.                                                               *)
OpenWrite(r) ==
  /\ CanOpen(r, "up")
  /\ LET i == IF part = Nothing THEN req[r].token ELSE part
     IN  /\ part' = i /\ data' = [data EXCEPT ![i] = Empty]
         /\ Becomes(r, [req[r] EXCEPT !.state = "writing", !.inode = i, !.alive = TRUE])
  /\ litter' = FALSE /\ clashed' = (clashed \/ Uploading # {})
  /\ UNCHANGED <<clients, ticket, dest, other, moved>>

(* Variant: the file grows beyond what was announced. *)
WriteOn(r) ==
  /\ r \in Uploading /\ req[r].alive
  /\ data' = [data EXCEPT ![req[r].inode] = [@ EXCEPT ![1] = req[r].token]]
  /\ Becomes(r, [req[r] EXCEPT !.sent = @ + 1])
  /\ UNCHANGED <<clients, ticket, entries, clashed, moved, litter>>

(* One block arrives from the phone. *)
Write(r) ==
  /\ r \in Uploading /\ req[r].alive /\ req[r].sent < Blocks
  /\ data' = [data EXCEPT ![req[r].inode][req[r].sent + 1] = req[r].token]
  /\ Becomes(r, [req[r] EXCEPT !.sent = @ + 1])
  /\ UNCHANGED <<clients, ticket, entries, clashed, moved, litter>>

(* Variant: an upload is closed, not aborted, whatever came of it. *)
PublishAnyway(r) ==
  /\ r \in Uploading /\ req[r].alive /\ part # Nothing
  /\ dest' = part /\ part' = Nothing
  /\ Becomes(r, Idle)
  /\ UNCHANGED <<clients, ticket, other, data, clashed, moved, litter>>

(* _ScritturaAtomica.close(): the partial name replaces the file. *)
Publish(r) ==
  /\ r \in Uploading /\ req[r].alive /\ req[r].sent = Blocks /\ part # Nothing
  /\ dest' = part /\ part' = Nothing
  /\ Becomes(r, Idle)
  /\ UNCHANGED <<clients, ticket, other, data, clashed, moved, litter>>

(* abort(), or a close() that fails: the phone went away, the host refused *)
(* or the connection to it is dead, and then nothing can be removed;       *)
(* _rimuovi() says nothing when the host refuses that too.                 *)
GiveUp(r) ==
  /\ r \in Uploading
  /\ Becomes(r, Idle)
  /\ \/ req[r].alive /\ part' = Nothing /\ litter' = FALSE
     \/ litter' = (part # Nothing) /\ UNCHANGED part
  /\ UNCHANGED <<clients, ticket, dest, other, data, clashed, moved>>

ReadEnds(r) ==
  /\ req[r].state = "reading"
  /\ Becomes(r, Idle)
  /\ UNCHANGED <<clients, ticket, host>>

Next ==
  \/ \E o \in Owners :
       \/ Open(o) \/ ConnectBegins(o) \/ ConnectEnds(o) \/ SftpDisconnect(o)
       \/ Delete(o) \/ Rename(o)
       \/ \E dir \in {"dl", "up"}, overwrite \in BOOLEAN : TicketAsked(o, dir, overwrite)
       \/ TicketIssued(o) \/ TicketRefused(o) \/ Lose(o) \/ Release(o)
  \/ \E t \in Tokens : Expire(t)
  \/ \E r \in Requests :
       \/ \E t \in Tokens, dir \in {"dl", "up"} : Redeem(r, t, dir)
       \/ OpenFails(r) \/ OpenRead(r) \/ ReadEnds(r)
       \/ OpenWrite(r) \/ Write(r) \/ Publish(r) \/ GiveUp(r)

Spec == Init /\ [][Next]_vars

-----------------------------------------------------------------------------
(* Types. *)
TypeOK ==
  /\ link \in [Owners -> {"closed", "open", "lost"}]
  /\ doing \in [Owners -> {"nothing", "connect", "dl", "up"}]
  /\ session \subseteq Owners
  /\ ticket \in [Tokens -> [state : {"new", "live", "expired", "spent"},
                            owner : Owners \cup {Nothing}, dir : {"dl", "up"}]]
  /\ req \in [Requests -> [state : {"idle", "redeemed", "writing", "reading"}, dir : {"dl", "up"},
                           token : Tokens \cup {Nothing},
                           owner : Owners \cup {Nothing}, inode : Inodes \cup {Nothing},
                           sent : 0 .. Blocks, alive : BOOLEAN]]
  /\ {dest, part, other} \subseteq Inodes \cup {Nothing}
  /\ data \in [Inodes -> [1 .. Blocks -> Inodes \cup {Nothing}]]
  /\ clashed \in BOOLEAN /\ litter \in BOOLEAN /\ moved \subseteq Inodes

(* A client that has gone leaves neither a connection to the host nor a    *)
(* ticket behind, not even one its last message was still asking for: the  *)
(* id of its websocket may be the next client's.                           *)
ReleasedHasNothing ==
  \A o \in Owners : link[o] = "closed" =>
    /\ o \notin session /\ doing[o] = "nothing"
    /\ \A t \in Held : ticket[t].owner # o

Whole(i) == \E w \in Inodes : \A b \in 1 .. Blocks : data[i][b] = w

(* "Un upload interrotto non deve lasciare un file troncato al posto       *)
(* dell'originale" (_sftp_upload): as long as no two uploads of the same   *)
(* file were under way at once, the file is whole, and so is the one that  *)
(* anybody reads, wherever an upload is interrupted, a connection is       *)
(* closed, or a file is deleted or renamed under a transfer.  Only a file  *)
(* that a user himself renamed from or to the partial name is not spoken   *)
(* of: sftp_rename knows nothing of uploads, and lets him give a partial   *)
(* file the name of the file, or the file the name an upload truncates.    *)
PublishedIsWhole ==
  ~clashed =>
    /\ dest \notin moved \cup {Nothing} => Whole(dest)
    /\ \A r \in Requests :
         req[r].state = "reading" /\ req[r].inode \notin moved => Whole(req[r].inode)

(* Something lies under the partial name only while somebody uploads, or   *)
(* because the last upload could not remove it, or because a user put it   *)
(* there.                                                                  *)
PartIsTemporary == part # Nothing => (Uploading # {} \/ litter \/ part \in moved)

(* What the temporary file of an upload is for: nothing partial is ever    *)
(* under the file's own name, nor under the partial one for longer than    *)
(* the upload.                                                             *)
UploadsAreAtomic == PublishedIsWhole /\ PartIsTemporary
=============================================================================
