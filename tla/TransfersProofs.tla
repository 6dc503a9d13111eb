---------------------------- MODULE TransfersProofs ----------------------------
(***************************************************************************)
(* Proofs about Transfers, for every set of clients, HTTP threads and      *)
(* tickets and every number of blocks: the types, that a client that has   *)
(* gone leaves nothing behind, and that uploads are atomic.                *)
(***************************************************************************)
EXTENDS Transfers, TLAPS

USE TransfersAssumption

(* The kinds of state a step can disturb, each with its types. *)
ClientsTyped ==
  /\ link \in [Owners -> {"closed", "open", "lost"}]
  /\ doing \in [Owners -> {"nothing", "connect", "dl", "up"}]
  /\ session \subseteq Owners
TicketType == [state : {"new", "live", "expired", "spent"},
               owner : Owners \cup {Nothing}, dir : {"dl", "up"}]
TicketsTyped == ticket \in [Tokens -> TicketType]
RequestType == [state : {"idle", "redeemed", "writing", "reading"}, dir : {"dl", "up"},
                token : Tokens \cup {Nothing},
                owner : Owners \cup {Nothing}, inode : Inodes \cup {Nothing},
                sent : 0 .. Blocks, alive : BOOLEAN]
RequestsTyped == req \in [Requests -> RequestType]
HostTyped ==
  /\ {dest, part, other} \subseteq Inodes \cup {Nothing}
  /\ data \in [Inodes -> [1 .. Blocks -> Inodes \cup {Nothing}]]
  /\ moved \subseteq Inodes
HistoryTyped == clashed \in BOOLEAN /\ litter \in BOOLEAN

LEMMA TypeParts ==
  TypeOK <=> ClientsTyped /\ TicketsTyped /\ RequestsTyped /\ HostTyped /\ HistoryTyped
  BY DEF TypeOK, ClientsTyped, TicketsTyped, TicketType, RequestsTyped, RequestType,
         HostTyped, HistoryTyped

(* What the actions do to the clients. *)
LEMMA ClientsStep ==
  ASSUME TypeOK, [Next]_vars
  PROVE  ClientsTyped'
  <1> USE DEF TypeOK, ClientsTyped
  <1>1. CASE UNCHANGED vars
    BY <1>1 DEF vars, clients
  <1>2. ASSUME NEW o \in Owners, Open(o) \/ Lose(o) PROVE ClientsTyped'
    BY <1>2 DEF Open, Lose
  <1>3. ASSUME NEW o \in Owners, ConnectBegins(o) \/ ConnectEnds(o) \/ SftpDisconnect(o)
        PROVE  ClientsTyped'
    BY <1>3 DEF ConnectBegins, ConnectEnds, SftpDisconnect, CloseOwner, Does
  <1>4. ASSUME NEW o \in Owners, NEW dir \in {"dl", "up"}, NEW overwrite \in BOOLEAN,
               TicketAsked(o, dir, overwrite)
        PROVE  ClientsTyped'
    BY <1>4 DEF TicketAsked, Does
  <1>5. ASSUME NEW o \in Owners, TicketIssued(o) \/ TicketRefused(o) PROVE ClientsTyped'
    BY <1>5 DEF TicketIssued, TicketRefused, Does
  <1>6. ASSUME NEW o \in Owners, Release(o) \/ Delete(o) \/ Rename(o) PROVE ClientsTyped'
    BY <1>6 DEF Release, CloseOwner, Delete, Rename, clients
  <1>7. ASSUME NEW t \in Tokens, Expire(t) PROVE ClientsTyped'
    BY <1>7 DEF Expire, clients
  <1>8. ASSUME NEW r \in Requests, NEW t \in Tokens, NEW dir \in {"dl", "up"}, Redeem(r, t, dir)
        PROVE  ClientsTyped'
    BY <1>8 DEF Redeem, clients
  <1>9. ASSUME NEW r \in Requests, OpenFails(r) \/ OpenRead(r) \/ ReadEnds(r) \/ GiveUp(r)
        PROVE  ClientsTyped'
    BY <1>9 DEF OpenFails, OpenRead, ReadEnds, GiveUp, clients
  <1>10. ASSUME NEW r \in Requests, OpenWrite(r) \/ Write(r) \/ Publish(r)
         PROVE  ClientsTyped'
    BY <1>10 DEF OpenWrite, Write, Publish, clients
  <1> QED
    BY <1>1, <1>2, <1>3, <1>4, <1>5, <1>6, <1>7, <1>8, <1>9, <1>10 DEF Next

(* ... and to the tickets. *)
LEMMA TicketsStep ==
  ASSUME TypeOK, [Next]_vars
  PROVE  TicketsTyped'
  <1>t. TicketsTyped /\ ClientsTyped
    BY TypeParts
  <1>a. ASSUME NEW t \in Tokens, NEW k \in TicketType, ticket' = [ticket EXCEPT ![t] = k]
        PROVE  TicketsTyped'
    BY <1>t, <1>a DEF TicketsTyped
  <1>b. Spent \in TicketType
        /\ \A o \in Owners, dir \in {"dl", "up"} : Ticket("live", o, dir) \in TicketType
    BY DEF Spent, Ticket, TicketType
  <1>1. CASE UNCHANGED vars
    BY <1>t, <1>1 DEF vars, TicketsTyped
  <1>2. ASSUME NEW o \in Owners,
               Open(o) \/ Lose(o) \/ ConnectBegins(o) \/ ConnectEnds(o) \/ SftpDisconnect(o)
        PROVE  TicketsTyped'
    BY <1>t, <1>2 DEF Open, Lose, ConnectBegins, ConnectEnds, SftpDisconnect, TicketsTyped
  <1>3. ASSUME NEW o \in Owners, NEW dir \in {"dl", "up"}, NEW overwrite \in BOOLEAN,
               TicketAsked(o, dir, overwrite)
        PROVE  TicketsTyped'
    BY <1>t, <1>3 DEF TicketAsked, TicketsTyped
  <1>4. ASSUME NEW o \in Owners, TicketIssued(o) PROVE TicketsTyped'
    <2>1. Purged \in [Tokens -> TicketType]
      BY <1>t, <1>b DEF Purged, TicketsTyped
    <2>2. doing[o] \in {"dl", "up"}
      BY <1>4 DEF TicketIssued
    <2>3. \A t \in Tokens : [Purged EXCEPT ![t] = Ticket("live", o, doing[o])] \in [Tokens -> TicketType]
      BY <1>b, <2>1, <2>2
    <2>4. ticket' = ticket \/ ticket' = Purged
          \/ \E t \in Tokens : ticket' = [Purged EXCEPT ![t] = Ticket("live", o, doing[o])]
      BY <1>4 DEF TicketIssued
    <2> QED
      BY <1>t, <2>1, <2>3, <2>4 DEF TicketsTyped
  <1>5. ASSUME NEW o \in Owners, TicketRefused(o) \/ Delete(o) \/ Rename(o) PROVE TicketsTyped'
    BY <1>t, <1>5 DEF TicketRefused, Delete, Rename, TicketsTyped
  <1>6. ASSUME NEW o \in Owners, Release(o) PROVE TicketsTyped'
    <2>1. Revoked(o) \in [Tokens -> TicketType]
      BY <1>t, <1>b DEF Revoked, TicketsTyped
    <2>2. ticket' = Revoked(o)
      BY <1>6 DEF Release
    <2> QED
      BY <2>1, <2>2 DEF TicketsTyped
  <1>7. ASSUME NEW t \in Tokens, Expire(t) PROVE TicketsTyped'
    <2>1. [ticket[t] EXCEPT !.state = "expired"] \in TicketType
      BY <1>t DEF TicketsTyped, TicketType
    <2>2. ticket' = [ticket EXCEPT ![t] = [ticket[t] EXCEPT !.state = "expired"]]
      BY <1>7 DEF Expire
    <2> QED
      BY <1>a, <2>1, <2>2
  <1>8. ASSUME NEW r \in Requests, NEW t \in Tokens, NEW dir \in {"dl", "up"}, Redeem(r, t, dir)
        PROVE  TicketsTyped'
    <2>1. ticket' = [ticket EXCEPT ![t] = Spent]
      BY <1>8 DEF Redeem
    <2> QED
      BY <1>a, <1>b, <2>1
  <1>9. ASSUME NEW r \in Requests, OpenFails(r) \/ OpenRead(r) \/ ReadEnds(r) \/ GiveUp(r)
        PROVE  TicketsTyped'
    BY <1>t, <1>9 DEF OpenFails, OpenRead, ReadEnds, GiveUp, TicketsTyped
  <1>10. ASSUME NEW r \in Requests, OpenWrite(r) \/ Write(r) \/ Publish(r)
         PROVE  TicketsTyped'
    BY <1>t, <1>10 DEF OpenWrite, Write, Publish, TicketsTyped
  <1> QED
    BY <1>1, <1>2, <1>3, <1>4, <1>5, <1>6, <1>7, <1>8, <1>9, <1>10 DEF Next

(* The changes of a request are requests. *)
LEMMA RequestChanges ==
  ASSUME NEW q \in RequestType
  PROVE  /\ \A t \in Tokens, o \in Owners \cup {Nothing}, dir \in {"dl", "up"} :
              [q EXCEPT !.state = "redeemed", !.dir = dir, !.token = t, !.owner = o] \in RequestType
         /\ \A i \in Inodes \cup {Nothing} :
              /\ [q EXCEPT !.state = "writing", !.inode = i, !.alive = TRUE] \in RequestType
              /\ [q EXCEPT !.state = "reading", !.inode = i] \in RequestType
         /\ q.sent < Blocks => [q EXCEPT !.sent = @ + 1] \in RequestType
         /\ [q EXCEPT !.alive = FALSE] \in RequestType
  <1> USE DEF RequestType
  <1>1. ASSUME NEW t \in Tokens, NEW o \in Owners \cup {Nothing}, NEW dir \in {"dl", "up"}
        PROVE  [q EXCEPT !.state = "redeemed", !.dir = dir, !.token = t, !.owner = o] \in RequestType
    OBVIOUS
  <1>2. ASSUME NEW i \in Inodes \cup {Nothing}
        PROVE  /\ [q EXCEPT !.state = "writing", !.inode = i, !.alive = TRUE] \in RequestType
               /\ [q EXCEPT !.state = "reading", !.inode = i] \in RequestType
    OBVIOUS
  <1>3. ASSUME q.sent < Blocks PROVE [q EXCEPT !.sent = @ + 1] \in RequestType
    BY <1>3
  <1>4. [q EXCEPT !.alive = FALSE] \in RequestType
    OBVIOUS
  <1> HIDE DEF RequestType
  <1> QED
    BY <1>1, <1>2, <1>3, <1>4

LEMMA IdleTyped == Idle \in RequestType
  BY DEF Idle, RequestType

(* ... to the HTTP threads. *)
LEMMA RequestsStep ==
  ASSUME TypeOK, [Next]_vars
  PROVE  RequestsTyped'
  <1> USE DEF RequestsTyped
  <1>t. RequestsTyped /\ TicketsTyped /\ HostTyped
    BY TypeParts
  <1>a. ASSUME NEW r \in Requests, NEW q \in RequestType, Becomes(r, q) PROVE RequestsTyped'
    BY <1>t, <1>a DEF Becomes
  <1>0. ASSUME NEW o \in Owners, CloseOwner(o) PROVE RequestsTyped'
    BY <1>t, <1>0, RequestChanges DEF CloseOwner
  <1>1. CASE UNCHANGED vars
    BY <1>t, <1>1 DEF vars
  <1>2. ASSUME NEW o \in Owners,
               \/ Open(o) \/ Lose(o) \/ ConnectEnds(o) \/ Delete(o) \/ Rename(o)
               \/ TicketIssued(o) \/ TicketRefused(o)
        PROVE  RequestsTyped'
    BY <1>t, <1>2 DEF Open, Lose, ConnectEnds, Delete, Rename, TicketIssued, TicketRefused
  <1>3. ASSUME NEW o \in Owners, ConnectBegins(o) \/ SftpDisconnect(o) \/ Release(o)
        PROVE  RequestsTyped'
    BY <1>0, <1>3 DEF ConnectBegins, SftpDisconnect, Release
  <1>4. ASSUME NEW o \in Owners, NEW dir \in {"dl", "up"}, NEW overwrite \in BOOLEAN,
               TicketAsked(o, dir, overwrite)
        PROVE  RequestsTyped'
    BY <1>t, <1>4 DEF TicketAsked
  <1>5. ASSUME NEW t \in Tokens, Expire(t) PROVE RequestsTyped'
    BY <1>t, <1>5 DEF Expire
  <1>6. ASSUME NEW r \in Requests, NEW t \in Tokens, NEW dir \in {"dl", "up"}, Redeem(r, t, dir)
        PROVE  RequestsTyped'
    <2> DEFINE q == [Idle EXCEPT !.state = "redeemed", !.dir = dir, !.token = t,
                                 !.owner = ticket[t].owner]
    <2>1. ticket[t].owner \in Owners \cup {Nothing}
      BY <1>t DEF TicketsTyped, TicketType
    <2>2. q \in RequestType
      BY <2>1, IdleTyped, RequestChanges
    <2>3. Becomes(r, q) \/ UNCHANGED req
      BY <1>6 DEF Redeem
    <2> HIDE DEF q
    <2> QED
      BY <1>t, <1>a, <2>2, <2>3
  <1>7. ASSUME NEW r \in Requests, OpenFails(r) \/ ReadEnds(r) \/ GiveUp(r) \/ Publish(r)
        PROVE  RequestsTyped'
    <2>1. Becomes(r, Idle)
      BY <1>7 DEF OpenFails, ReadEnds, GiveUp, Publish
    <2> QED
      BY <1>a, <2>1, IdleTyped
  <1>8. ASSUME NEW r \in Requests, OpenRead(r) PROVE RequestsTyped'
    <2> DEFINE q == [Idle EXCEPT !.state = "reading", !.inode = dest]
    <2>1. q \in RequestType
      BY <1>t, IdleTyped, RequestChanges DEF HostTyped
    <2>2. Becomes(r, q)
      BY <1>8 DEF OpenRead
    <2> HIDE DEF q
    <2> QED
      BY <1>a, <2>1, <2>2
  <1>9. ASSUME NEW r \in Requests, OpenWrite(r) PROVE RequestsTyped'
    <2> DEFINE i == IF part = Nothing THEN req[r].token ELSE part
               q == [req[r] EXCEPT !.state = "writing", !.inode = i, !.alive = TRUE]
    <2>1. i \in Inodes \cup {Nothing}
      BY <1>t DEF Inodes, RequestType, HostTyped
    <2>2. Becomes(r, q)
      BY <1>9 DEF OpenWrite
    <2> HIDE DEF i
    <2>3. q \in RequestType
      BY <1>t, <2>1, RequestChanges
    <2> HIDE DEF q
    <2> QED
      BY <1>a, <2>2, <2>3
  <1>10. ASSUME NEW r \in Requests, Write(r) PROVE RequestsTyped'
    <2> DEFINE q == [req[r] EXCEPT !.sent = @ + 1]
    <2>1. q \in RequestType
      BY <1>t, <1>10, RequestChanges DEF Write
    <2>2. Becomes(r, q)
      BY <1>10 DEF Write
    <2> HIDE DEF q
    <2> QED
      BY <1>a, <2>1, <2>2
  <1> QED
    BY <1>1, <1>2, <1>3, <1>4, <1>5, <1>6, <1>7, <1>8, <1>9, <1>10 DEF Next

(* ... and to the host. *)
LEMMA HostStep ==
  ASSUME TypeOK, [Next]_vars
  PROVE  HostTyped'
  <1> USE DEF TypeOK, HostTyped, host, entries
  <1>1. CASE UNCHANGED vars
    BY <1>1 DEF vars
  <1>2. ASSUME NEW o \in Owners,
               \/ Open(o) \/ Lose(o) \/ ConnectBegins(o) \/ ConnectEnds(o) \/ SftpDisconnect(o)
               \/ TicketIssued(o) \/ TicketRefused(o) \/ Release(o)
        PROVE  HostTyped'
    BY <1>2 DEF Open, Lose, ConnectBegins, ConnectEnds, SftpDisconnect, TicketIssued,
                TicketRefused, Release
  <1>3. ASSUME NEW o \in Owners, Delete(o) PROVE HostTyped'
    BY <1>3 DEF Delete
  <1>11. ASSUME NEW o \in Owners, Rename(o) PROVE HostTyped'
    BY <1>11 DEF Rename, Moves
  <1>4. ASSUME NEW o \in Owners, NEW dir \in {"dl", "up"}, NEW overwrite \in BOOLEAN,
               TicketAsked(o, dir, overwrite)
        PROVE  HostTyped'
    BY <1>4 DEF TicketAsked
  <1>5. ASSUME NEW t \in Tokens, Expire(t) PROVE HostTyped'
    BY <1>5 DEF Expire
  <1>6. ASSUME NEW r \in Requests, NEW t \in Tokens, NEW dir \in {"dl", "up"}, Redeem(r, t, dir)
        PROVE  HostTyped'
    BY <1>6 DEF Redeem
  <1>7. ASSUME NEW r \in Requests, OpenFails(r) \/ OpenRead(r) \/ ReadEnds(r) PROVE HostTyped'
    BY <1>7 DEF OpenFails, OpenRead, ReadEnds
  <1>8. ASSUME NEW r \in Requests, GiveUp(r) \/ Publish(r) PROVE HostTyped'
    BY <1>8 DEF GiveUp, Publish
  <1>9. ASSUME NEW r \in Requests, OpenWrite(r) PROVE HostTyped'
    <2> DEFINE i == IF part = Nothing THEN req[r].token ELSE part
    <2>1. i \in Inodes \cup {Nothing}
      BY DEF Inodes
    <2>2. /\ part' = i /\ data' = [data EXCEPT ![i] = Empty]
          /\ UNCHANGED <<dest, other, moved>>
      BY <1>9 DEF OpenWrite
    <2> HIDE DEF i
    <2> QED
      BY <2>1, <2>2 DEF Empty
  <1>10. ASSUME NEW r \in Requests, Write(r) PROVE HostTyped'
    BY <1>10 DEF Write, Inodes
  <1> HIDE DEF TypeOK, HostTyped, host, entries
  <1> QED
    BY <1>1, <1>2, <1>3, <1>4, <1>5, <1>6, <1>7, <1>8, <1>9, <1>10, <1>11 DEF Next

LEMMA HistoryStep ==
  ASSUME TypeOK, [Next]_vars
  PROVE  HistoryTyped'
  <1>t. HistoryTyped
    BY TypeParts
  <1> USE DEF host
  <1>1. CASE UNCHANGED vars
    BY <1>t, <1>1, Zenon DEF HistoryTyped, vars
  <1>2. ASSUME NEW o \in Owners,
               \/ Open(o) \/ Lose(o) \/ ConnectBegins(o) \/ ConnectEnds(o) \/ SftpDisconnect(o)
               \/ TicketIssued(o) \/ TicketRefused(o) \/ Release(o) \/ Delete(o) \/ Rename(o)
        PROVE  HistoryTyped'
    BY <1>t, <1>2, Zenon DEF HistoryTyped, Open, Lose, ConnectBegins, ConnectEnds, SftpDisconnect, TicketIssued,
                TicketRefused, Release, Delete, Rename
  <1>3. ASSUME NEW o \in Owners, NEW dir \in {"dl", "up"}, NEW overwrite \in BOOLEAN,
               TicketAsked(o, dir, overwrite)
        PROVE  HistoryTyped'
    BY <1>t, <1>3, Zenon DEF HistoryTyped, TicketAsked
  <1>4. ASSUME NEW t \in Tokens, Expire(t) PROVE HistoryTyped'
    BY <1>t, <1>4, Zenon DEF HistoryTyped, Expire
  <1>5. ASSUME NEW r \in Requests, NEW t \in Tokens, NEW dir \in {"dl", "up"}, Redeem(r, t, dir)
        PROVE  HistoryTyped'
    BY <1>t, <1>5, Zenon DEF HistoryTyped, Redeem
  <1>6. ASSUME NEW r \in Requests, OpenFails(r) \/ OpenRead(r) \/ ReadEnds(r) PROVE HistoryTyped'
    BY <1>t, <1>6, Zenon DEF HistoryTyped, OpenFails, OpenRead, ReadEnds
  <1>7. ASSUME NEW r \in Requests, GiveUp(r) \/ Publish(r) PROVE HistoryTyped'
    BY <1>t, <1>7, Zenon DEF HistoryTyped, GiveUp, Publish
  <1>8. ASSUME NEW r \in Requests, OpenWrite(r) \/ Write(r) PROVE HistoryTyped'
    BY <1>t, <1>8, Zenon DEF HistoryTyped, OpenWrite, Write
  <1> QED
    BY <1>1, <1>2, <1>3, <1>4, <1>5, <1>6, <1>7, <1>8 DEF Next

LEMMA TypeStep ==
  ASSUME TypeOK, [Next]_vars
  PROVE  TypeOK'
  <1>1. ClientsTyped' /\ TicketsTyped' /\ RequestsTyped' /\ HostTyped' /\ HistoryTyped'
    BY ClientsStep, TicketsStep, RequestsStep, HostStep, HistoryStep
  <1> QED
    BY <1>1, TypeParts, PTL

-----------------------------------------------------------------------------
(* Nothing is left of a client. *)
HasNothing(o) ==
  /\ o \notin session /\ doing[o] = "nothing"
  /\ \A t \in Tokens : ticket[t].state \in {"live", "expired"} => ticket[t].owner # o

LEMMA ReleasedParts ==
  ReleasedHasNothing <=> \A o \in Owners : link[o] = "closed" => HasNothing(o)
  BY DEF ReleasedHasNothing, HasNothing, Held

(* A client that has gone does nothing more, and nobody does it for him. *)
LEMMA ReleasedStep ==
  ASSUME TypeOK, ReleasedHasNothing, [Next]_vars, NEW p \in Owners, link'[p] = "closed"
  PROVE  HasNothing(p)'
  <1>t. ClientsTyped /\ TicketsTyped
    BY TypeParts
  <1>l. ASSUME link[p] = "closed" PROVE HasNothing(p)
    BY <1>l, ReleasedParts
  <1>1. CASE UNCHANGED vars
    BY <1>1, <1>l DEF vars, clients, HasNothing
  <1>2. ASSUME NEW o \in Owners, Open(o) \/ Lose(o) PROVE HasNothing(p)'
    BY <1>2, <1>l, <1>t DEF Open, Lose, HasNothing, ClientsTyped
  <1>3. ASSUME NEW o \in Owners, ConnectBegins(o) \/ SftpDisconnect(o) PROVE HasNothing(p)'
    BY <1>3, <1>l, <1>t DEF ConnectBegins, SftpDisconnect, Ready, Does, CloseOwner, HasNothing,
                            ClientsTyped
  <1>4. ASSUME NEW o \in Owners, ConnectEnds(o) PROVE HasNothing(p)'
    BY <1>4, <1>l, <1>t DEF ConnectEnds, Does, HasNothing, ClientsTyped
  <1>5. ASSUME NEW o \in Owners, Delete(o) \/ Rename(o) PROVE HasNothing(p)'
    BY <1>5, <1>l DEF Delete, Rename, clients, HasNothing
  <1>6. ASSUME NEW o \in Owners, NEW dir \in {"dl", "up"}, NEW overwrite \in BOOLEAN,
               TicketAsked(o, dir, overwrite)
        PROVE  HasNothing(p)'
    BY <1>6, <1>l, <1>t DEF TicketAsked, Ready, Does, HasNothing, ClientsTyped
  <1>7. ASSUME NEW o \in Owners, TicketRefused(o) PROVE HasNothing(p)'
    BY <1>7, <1>l, <1>t DEF TicketRefused, Does, HasNothing, ClientsTyped
  <1>8. ASSUME NEW o \in Owners, TicketIssued(o) PROVE HasNothing(p)'
    <2>1. HasNothing(p) /\ p # o
      BY <1>8, <1>l DEF TicketIssued, HasNothing
    <2>2. session' = session /\ doing'[p] = doing[p]
      BY <1>8, <1>t, <2>1 DEF TicketIssued, Does, ClientsTyped
    <2>3. \A t \in Tokens : Purged[t].state \in {"live", "expired"} => Purged[t].owner # p
      BY <2>1 DEF HasNothing, Purged, Spent, Ticket
    <2>4. ticket' = ticket \/ ticket' = Purged
          \/ \E t \in Tokens : ticket' = [Purged EXCEPT ![t] = Ticket("live", o, doing[o])]
      BY <1>8 DEF TicketIssued
    <2>5. ASSUME NEW t \in Tokens, ticket' = [Purged EXCEPT ![t] = Ticket("live", o, doing[o])]
          PROVE  \A u \in Tokens : ticket'[u].state \in {"live", "expired"} => ticket'[u].owner # p
      <3>1. Ticket("live", o, doing[o]).owner # p
        BY <2>1 DEF Ticket
      <3>2. \A u \in Tokens : ticket'[u] = IF u = t THEN Ticket("live", o, doing[o]) ELSE Purged[u]
        BY <2>5 DEF Purged
      <3> QED
        BY <2>3, <3>1, <3>2
    <2>6. \A u \in Tokens : ticket'[u].state \in {"live", "expired"} => ticket'[u].owner # p
      BY <2>1, <2>3, <2>4, <2>5 DEF HasNothing
    <2> QED
      BY <2>1, <2>2, <2>6 DEF HasNothing
  <1>9. ASSUME NEW o \in Owners, Release(o) PROVE HasNothing(p)'
    <2>1. /\ session' = session \ {o} /\ doing' = doing /\ ticket' = Revoked(o)
          /\ link' = [link EXCEPT ![o] = "closed"] /\ doing[o] = "nothing"
      BY <1>9 DEF Release, CloseOwner
    <2>2. \A t \in Tokens : Revoked(o)[t].state \in {"live", "expired"} =>
            Revoked(o)[t] = ticket[t] /\ ticket[t].owner # o
      BY DEF Revoked, Held, Spent, Ticket
    <2> QED
      BY <1>l, <1>t, <2>1, <2>2 DEF HasNothing, ClientsTyped
  <1>10. ASSUME NEW t \in Tokens, Expire(t) PROVE HasNothing(p)'
    <2>1. /\ UNCHANGED clients /\ ticket[t].state = "live"
          /\ \A u \in Tokens : ticket'[u].owner = ticket[u].owner
                               /\ (ticket'[u].state = ticket[u].state \/ u = t)
      BY <1>10, <1>t DEF Expire, TicketsTyped, TicketType
    <2> QED
      BY <1>l, <2>1 DEF clients, HasNothing
  <1>11. ASSUME NEW r \in Requests, NEW t \in Tokens, NEW dir \in {"dl", "up"}, Redeem(r, t, dir)
         PROVE  HasNothing(p)'
    <2>1. /\ UNCHANGED clients
          /\ \A u \in Tokens : ticket'[u] = ticket[u] \/ ticket'[u].state = "spent"
      BY <1>11, <1>t DEF Redeem, TicketsTyped, Spent, Ticket
    <2> QED
      BY <1>l, <2>1 DEF clients, HasNothing
  <1>12. ASSUME NEW r \in Requests,
                \/ OpenFails(r) \/ OpenRead(r) \/ ReadEnds(r) \/ OpenWrite(r)
                \/ Write(r) \/ Publish(r) \/ GiveUp(r)
         PROVE  HasNothing(p)'
    <2>1. UNCHANGED <<clients, ticket>>
      BY <1>12 DEF OpenFails, OpenRead, ReadEnds, OpenWrite, Write, Publish, GiveUp
    <2> QED
      BY <1>l, <2>1 DEF clients, HasNothing
  <1> QED
    BY <1>1, <1>2, <1>3, <1>4, <1>5, <1>6, <1>7, <1>8, <1>9, <1>10, <1>11, <1>12 DEF Next

-----------------------------------------------------------------------------
(* A ticket that has not opened anything yet. *)
Unopened(t) ==
  \/ ticket[t].state # "spent"
  \/ \E r \in Requests : req[r].state = "redeemed" /\ req[r].token = t

(* The inode it would make is nowhere on the host. *)
InodesAreFresh ==
  \A t \in Tokens : Unopened(t) =>
    /\ dest # t /\ part # t /\ other # t
    /\ \A r \in Requests : req[r].inode # t

(* Two requests never have the same ticket, nor one that is still good. *)
TokensDiffer ==
  \A r \in Requests : req[r].state = "redeemed" =>
    /\ req[r].token \in Tokens /\ req[r].sent = 0
    /\ ticket[req[r].token].state = "spent"
    /\ \A q \in Requests : req[q].state = "redeemed" /\ req[q].token = req[r].token => q = r

(* What a request that has opened something works on. *)
OpenIsBound ==
  \A r \in Requests :
    /\ req[r].state \in {"reading", "writing"} => req[r].inode \in Inodes
    /\ req[r].state = "writing" => req[r].token \in Tokens

(* No two names lead to the same inode. *)
EntriesDiffer ==
  /\ dest # Nothing => dest # part /\ dest # other
  /\ part # Nothing => part # other

(* Nobody downloads the partial file, unless a user renamed it. *)
PartIsApart ==
  part \notin moved \cup {Nothing} =>
    \A q \in Requests : req[q].state = "reading" => req[q].inode # part

(* The only upload writes where nobody reads, unless a user renamed the    *)
(* file, and what it has written is there.                                 *)
WritesAlone(r) ==
  /\ \A q \in Requests : req[q].state = "writing" => q = r
  /\ dest = req[r].inode \/ other = req[r].inode => req[r].inode \in moved
  /\ part \in {Nothing, req[r].inode} \cup moved
  /\ \A q \in Requests : req[q].state = "reading" /\ req[q].inode = req[r].inode =>
       req[r].inode \in moved
  /\ \A b \in 1 .. req[r].sent : data[req[r].inode][b] = req[r].token
UploadIsAlone ==
  ~clashed => \A r \in Requests : req[r].state = "writing" => WritesAlone(r)

(* What a user can give the name of the file is as whole as the file. *)
OtherIsWhole == ~clashed => (other \notin moved \cup {Nothing} => Whole(other))

Apart == InodesAreFresh /\ TokensDiffer /\ OpenIsBound /\ EntriesDiffer /\ PartIsApart
         /\ UploadIsAlone /\ OtherIsWhole /\ PublishedIsWhole /\ PartIsTemporary

(* The steps that touch neither the host nor what the requests are about. *)
SameRequest(r) ==
  /\ req'[r].state = req[r].state /\ req'[r].token = req[r].token
  /\ req'[r].inode = req[r].inode /\ req'[r].sent = req[r].sent
Quiet ==
  /\ UNCHANGED host
  /\ \A r \in Requests : SameRequest(r)
  /\ \A t \in Tokens : ticket[t].state = "spent" => ticket'[t].state = "spent"

LEMMA QuietKeeps ==
  ASSUME Apart, Quiet
  PROVE  Apart'
  <1> USE DEF Apart, Quiet, host, entries, SameRequest
  <1>1. InodesAreFresh'
    BY DEF InodesAreFresh, Unopened
  <1>2. TokensDiffer'
    BY DEF TokensDiffer
  <1>3. OpenIsBound'
    BY DEF OpenIsBound
  <1>4. EntriesDiffer' /\ PartIsApart'
    BY DEF EntriesDiffer, PartIsApart
  <1>5. UploadIsAlone'
    BY DEF UploadIsAlone, WritesAlone
  <1>6. PublishedIsWhole' /\ OtherIsWhole'
    BY DEF PublishedIsWhole, OtherIsWhole, Whole
  <1>7. PartIsTemporary'
    BY DEF PartIsTemporary, Uploading
  <1> QED
    BY <1>1, <1>2, <1>3, <1>4, <1>5, <1>6, <1>7

(* Which steps these are. *)
LEMMA QuietSteps ==
  ASSUME TypeOK,
         \/ UNCHANGED vars
         \/ \E o \in Owners :
              \/ Open(o) \/ ConnectBegins(o) \/ ConnectEnds(o) \/ SftpDisconnect(o)
              \/ \E dir \in {"dl", "up"}, overwrite \in BOOLEAN : TicketAsked(o, dir, overwrite)
              \/ TicketIssued(o) \/ TicketRefused(o) \/ Lose(o) \/ Release(o)
         \/ \E t \in Tokens : Expire(t)
  PROVE  Quiet
  <1>t. RequestsTyped /\ TicketsTyped
    BY TypeParts
  <1>1. ASSUME UNCHANGED <<ticket, req, host>> PROVE Quiet
    BY <1>1 DEF Quiet, SameRequest
  <1>2. ASSUME NEW o \in Owners, CloseOwner(o) PROVE \A r \in Requests : SameRequest(r)
    BY <1>2, <1>t DEF CloseOwner, SameRequest, RequestsTyped, RequestType
  <1>3. CASE UNCHANGED vars
    BY <1>1, <1>3 DEF vars
  <1>4. ASSUME NEW o \in Owners, Open(o) \/ ConnectEnds(o) \/ TicketRefused(o) \/ Lose(o)
        PROVE  Quiet
    BY <1>1, <1>4 DEF Open, ConnectEnds, TicketRefused, Lose
  <1>5. ASSUME NEW o \in Owners, NEW dir \in {"dl", "up"}, NEW overwrite \in BOOLEAN,
               TicketAsked(o, dir, overwrite)
        PROVE  Quiet
    BY <1>1, <1>5 DEF TicketAsked
  <1>6. ASSUME NEW o \in Owners, ConnectBegins(o) \/ SftpDisconnect(o) PROVE Quiet
    BY <1>2, <1>6 DEF ConnectBegins, SftpDisconnect, Quiet
  <1>7. ASSUME NEW o \in Owners, Release(o) PROVE Quiet
    <2>1. \A t \in Tokens : ticket[t].state = "spent" => Revoked(o)[t].state = "spent"
      BY DEF Revoked, Spent, Ticket
    <2> QED
      BY <1>2, <1>7, <2>1 DEF Release, Quiet
  <1>8. ASSUME NEW o \in Owners, TicketIssued(o) PROVE Quiet
    <2>1. ticket' = ticket \/ ticket' = Purged
          \/ \E t \in Tokens : ticket[t].state = "new"
                               /\ ticket' = [Purged EXCEPT ![t] = Ticket("live", o, doing[o])]
      BY <1>8 DEF TicketIssued
    <2>2. \A t \in Tokens : ticket[t].state = "spent" => ticket'[t].state = "spent"
      BY <2>1 DEF Purged, Spent, Ticket
    <2> QED
      BY <1>8, <2>2 DEF TicketIssued, Quiet, SameRequest
  <1>9. ASSUME NEW t \in Tokens, Expire(t) PROVE Quiet
    BY <1>9, <1>t DEF Expire, Quiet, SameRequest, TicketsTyped, TicketType
  <1> QED
    BY <1>3, <1>4, <1>5, <1>6, <1>7, <1>8, <1>9

LEMMA DeleteKeeps ==
  ASSUME Apart, NEW o \in Owners, Delete(o)
  PROVE  Apart'
  <1> USE DEF Apart
  <1>1. /\ dest' \in {dest, Nothing} /\ part' \in {part, Nothing} /\ other' \in {other, Nothing}
        /\ UNCHANGED <<ticket, req, data, clashed, moved, litter>>
    BY DEF Delete
  <1>2. InodesAreFresh'
    BY <1>1 DEF InodesAreFresh, Unopened
  <1>3. TokensDiffer'
    BY <1>1 DEF TokensDiffer
  <1>4. OpenIsBound'
    BY <1>1 DEF OpenIsBound
  <1>5. EntriesDiffer' /\ PartIsApart'
    BY <1>1 DEF EntriesDiffer, PartIsApart
  <1>6. UploadIsAlone'
    <2> SUFFICES ASSUME ~clashed', NEW r \in Requests, req'[r].state = "writing"
                 PROVE  WritesAlone(r)'
      BY DEF UploadIsAlone
    <2>1. WritesAlone(r) /\ req[r].inode # Nothing
      BY <1>1 DEF UploadIsAlone, OpenIsBound, Inodes
    <2> QED
      BY <1>1, <2>1 DEF WritesAlone
  <1>7. PublishedIsWhole' /\ OtherIsWhole'
    BY <1>1 DEF PublishedIsWhole, OtherIsWhole, Whole
  <1>8. PartIsTemporary'
    BY <1>1 DEF PartIsTemporary, Uploading
  <1> QED
    BY <1>2, <1>3, <1>4, <1>5, <1>6, <1>7, <1>8

(* What a rename does to the names: what comes from or to the partial one  *)
(* is known to have been renamed.                                          *)
LEMMA Renamed ==
  ASSUME EntriesDiffer, NEW o \in Owners, Rename(o)
  PROVE  /\ UNCHANGED <<ticket, req, data, clashed, litter>>
         /\ moved \subseteq moved' /\ EntriesDiffer'
         /\ dest' \in {Nothing, dest, other} \/ (dest' = part /\ part \in moved')
         /\ other' \in {Nothing, dest, other} \/ (other' = part /\ part \in moved')
         /\ part' \in {Nothing, part} \/ (part' \in {dest, other} /\ part' \in moved')
  <1> USE DEF EntriesDiffer, Moves
  <1>1. UNCHANGED <<ticket, req, data, clashed, litter>>
    BY DEF Rename
  <1>2. CASE Moves(dest, other) /\ UNCHANGED <<part, moved>>
    BY <1>1, <1>2
  <1>3. CASE Moves(other, dest) /\ UNCHANGED <<part, moved>>
    BY <1>1, <1>3
  <1>4. CASE Moves(part, dest) /\ UNCHANGED other /\ moved' = moved \cup {part}
    BY <1>1, <1>4
  <1>5. CASE Moves(dest, part) /\ UNCHANGED other /\ moved' = moved \cup {dest}
    BY <1>1, <1>5
  <1>6. CASE Moves(part, other) /\ UNCHANGED dest /\ moved' = moved \cup {part}
    BY <1>1, <1>6
  <1>7. CASE Moves(other, part) /\ UNCHANGED dest /\ moved' = moved \cup {other}
    BY <1>1, <1>7
  <1> QED
    BY <1>2, <1>3, <1>4, <1>5, <1>6, <1>7 DEF Rename

LEMMA RenameKeeps ==
  ASSUME Apart, NEW o \in Owners, Rename(o)
  PROVE  Apart'
  <1> USE DEF Apart
  <1>1. /\ UNCHANGED <<ticket, req, data, clashed, litter>>
        /\ moved \subseteq moved' /\ EntriesDiffer'
        /\ dest' \in {Nothing, dest, other} \/ (dest' = part /\ part \in moved')
        /\ other' \in {Nothing, dest, other} \/ (other' = part /\ part \in moved')
        /\ part' \in {Nothing, part} \/ (part' \in {dest, other} /\ part' \in moved')
    BY Renamed
  <1>2. InodesAreFresh'
    <2> SUFFICES ASSUME NEW t \in Tokens, Unopened(t)'
                 PROVE  (/\ dest # t /\ part # t /\ other # t
                         /\ \A r \in Requests : req[r].inode # t)'
      BY DEF InodesAreFresh
    <2>1. Unopened(t)
      BY <1>1 DEF Unopened
    <2> QED
      BY <1>1, <2>1 DEF InodesAreFresh
  <1>3. TokensDiffer'
    BY <1>1 DEF TokensDiffer
  <1>4. OpenIsBound'
    BY <1>1 DEF OpenIsBound
  <1>5. PartIsApart'
    BY <1>1 DEF PartIsApart
  <1>6. UploadIsAlone'
    <2> SUFFICES ASSUME ~clashed', NEW r \in Requests, req'[r].state = "writing"
                 PROVE  WritesAlone(r)'
      BY DEF UploadIsAlone
    <2>1. WritesAlone(r) /\ req[r].inode # Nothing
      BY <1>1 DEF UploadIsAlone, OpenIsBound, Inodes
    <2> QED
      BY <1>1, <2>1 DEF WritesAlone
  <1>7. PublishedIsWhole' /\ OtherIsWhole'
    BY <1>1 DEF PublishedIsWhole, OtherIsWhole, Whole
  <1>8. PartIsTemporary'
    BY <1>1 DEF PartIsTemporary, Uploading
  <1> QED
    BY <1>1, <1>2, <1>3, <1>4, <1>5, <1>6, <1>7, <1>8

(* A request that goes on or comes to its end, as far as it matters. *)
Turns(r, state, token, inode, sent) ==
  \A q \in Requests :
    IF q = r
    THEN req'[q].state = state /\ req'[q].token = token
         /\ req'[q].inode = inode /\ req'[q].sent = sent
    ELSE req'[q] = req[q]

LEMMA RedeemKeeps ==
  ASSUME TypeOK, Apart, NEW r \in Requests, NEW t \in Tokens, NEW dir \in {"dl", "up"},
         Redeem(r, t, dir)
  PROVE  Apart'
  <1> USE DEF Apart
  <1>t. RequestsTyped /\ TicketsTyped
    BY TypeParts
  <1>1. /\ ticket[t].state # "spent" /\ req[r].state = "idle"
        /\ \A u \in Tokens : ticket'[u].state = IF u = t THEN "spent" ELSE ticket[u].state
        /\ UNCHANGED <<dest, part, other, data, clashed, moved, litter>>
    BY <1>t DEF Redeem, Held, Idle, Spent, Ticket, TicketsTyped, host, entries
  <1>2. CASE UNCHANGED req
    BY <1>1, <1>2, QuietKeeps DEF Quiet, SameRequest, host, entries
  <1>3. CASE Turns(r, "redeemed", t, Nothing, 0)
    <2>1. InodesAreFresh'
      BY <1>1, <1>3 DEF Turns, InodesAreFresh, Unopened
    <2>2. TokensDiffer'
      BY <1>1, <1>3 DEF Turns, TokensDiffer
    <2>3. OpenIsBound'
      BY <1>3 DEF Turns, OpenIsBound
    <2>4. EntriesDiffer' /\ PartIsApart'
      BY <1>1, <1>3 DEF Turns, EntriesDiffer, PartIsApart
    <2>5. UploadIsAlone'
      BY <1>1, <1>3 DEF Turns, UploadIsAlone, WritesAlone
    <2>6. PublishedIsWhole' /\ OtherIsWhole'
      BY <1>1, <1>3 DEF Turns, PublishedIsWhole, OtherIsWhole, Whole
    <2>7. PartIsTemporary'
      BY <1>1, <1>3 DEF Turns, PartIsTemporary, Uploading
    <2> QED
      BY <2>1, <2>2, <2>3, <2>4, <2>5, <2>6, <2>7
  <1>4. UNCHANGED req \/ Turns(r, "redeemed", t, Nothing, 0)
    <2> DEFINE k == [Idle EXCEPT !.state = "redeemed", !.dir = dir, !.token = t,
                                 !.owner = ticket[t].owner]
    <2>1. k.state = "redeemed" /\ k.token = t /\ k.inode = Nothing /\ k.sent = 0
      BY DEF Idle
    <2>2. UNCHANGED req \/ Becomes(r, k)
      BY DEF Redeem
    <2> HIDE DEF k
    <2> QED
      BY <1>t, <2>1, <2>2 DEF Becomes, Turns, RequestsTyped
  <1> QED
    BY <1>2, <1>3, <1>4

(* A request that ends without having published anything. *)
LEMMA EndKeeps ==
  ASSUME TypeOK, Apart, NEW r \in Requests, OpenFails(r) \/ ReadEnds(r) \/ GiveUp(r)
  PROVE  Apart'
  <1> USE DEF Apart
  <1>t. RequestsTyped
    BY TypeParts
  <1>1. /\ Turns(r, "idle", Nothing, Nothing, 0)
        /\ UNCHANGED <<ticket, dest, other, data, clashed, moved>> /\ part' \in {part, Nothing}
    BY <1>t DEF OpenFails, ReadEnds, GiveUp, Becomes, Idle, Turns, RequestsTyped, host, entries
  <1>2. InodesAreFresh'
    BY <1>1 DEF Turns, InodesAreFresh, Unopened
  <1>3. TokensDiffer'
    BY <1>1 DEF Turns, TokensDiffer
  <1>4. OpenIsBound'
    BY <1>1 DEF Turns, OpenIsBound
  <1>5. EntriesDiffer' /\ PartIsApart'
    BY <1>1 DEF Turns, EntriesDiffer, PartIsApart
  <1>6. UploadIsAlone'
    BY <1>1 DEF Turns, UploadIsAlone, WritesAlone
  <1>7. PublishedIsWhole' /\ OtherIsWhole'
    <2>1. PublishedIsWhole'
      BY <1>1 DEF Turns, PublishedIsWhole, Whole
    <2>2. OtherIsWhole'
      BY <1>1 DEF OtherIsWhole, Whole
    <2> QED
      BY <2>1, <2>2
  <1>8. PartIsTemporary'
    <2>1. CASE GiveUp(r)
      BY <2>1 DEF GiveUp, PartIsTemporary
    <2>2. CASE OpenFails(r) \/ ReadEnds(r)
      BY <1>1, <2>2 DEF OpenFails, ReadEnds, Turns, PartIsTemporary, Uploading, host, entries
    <2> QED
      BY <2>1, <2>2
  <1> QED
    BY <1>2, <1>3, <1>4, <1>5, <1>6, <1>7, <1>8

LEMMA OpenReadKeeps ==
  ASSUME TypeOK, Apart, NEW r \in Requests, OpenRead(r)
  PROVE  Apart'
  <1> USE DEF Apart
  <1>t. RequestsTyped /\ HostTyped
    BY TypeParts
  <1>1. /\ req[r].state = "redeemed" /\ dest # Nothing /\ dest \in Inodes
        /\ Turns(r, "reading", Nothing, dest, 0)
        /\ UNCHANGED <<ticket, dest, part, other, data, clashed, moved, litter>>
    BY <1>t DEF OpenRead, CanOpen, Idle, Becomes, Turns, RequestsTyped, RequestType, HostTyped, host, entries
  <1>2. InodesAreFresh'
    BY <1>1 DEF Turns, InodesAreFresh, Unopened
  <1>3. TokensDiffer'
    BY <1>1 DEF Turns, TokensDiffer
  <1>4. OpenIsBound'
    BY <1>1 DEF Turns, OpenIsBound
  <1>5. EntriesDiffer' /\ PartIsApart'
    BY <1>1 DEF Turns, EntriesDiffer, PartIsApart
  <1>6. UploadIsAlone'
    BY <1>1 DEF Turns, UploadIsAlone, WritesAlone
  <1>7. PublishedIsWhole' /\ OtherIsWhole'
    BY <1>1 DEF Turns, PublishedIsWhole, OtherIsWhole, Whole
  <1>8. PartIsTemporary'
    BY <1>1 DEF Turns, PartIsTemporary, Uploading
  <1> QED
    BY <1>2, <1>3, <1>4, <1>5, <1>6, <1>7, <1>8

(* The inode of a partial file is a new one, or that of a partial file     *)
(* which an upload has left: in both cases nobody else is interested.      *)
LEMMA OpenWriteKeeps ==
  ASSUME TypeOK, Apart, NEW r \in Requests, OpenWrite(r)
  PROVE  Apart'
  <1> USE DEF Apart
  <1>t. RequestsTyped /\ HostTyped
    BY TypeParts
  <1> DEFINE t == req[r].token
             i == IF part = Nothing THEN t ELSE part
  <1>1. /\ req[r].state = "redeemed" /\ Turns(r, "writing", t, i, req[r].sent)
        /\ UNCHANGED <<ticket, dest, other, moved>> /\ part' = i
        /\ data' = [data EXCEPT ![i] = Empty] /\ clashed' = (clashed \/ Uploading # {})
    BY <1>t DEF OpenWrite, CanOpen, Becomes, Turns, RequestsTyped, RequestType
  <1>2. /\ t \in Tokens /\ req[r].sent = 0 /\ ticket[t].state = "spent" /\ Unopened(t)
        /\ \A q \in Requests : req[q].state = "redeemed" /\ req[q].token = t => q = r
    BY <1>1 DEF TokensDiffer, Unopened
  <1>3. /\ i \in Inodes /\ i # Nothing /\ dest # i /\ other # i
        /\ i \notin moved => \A q \in Requests : req[q].state = "reading" => req[q].inode # i
    BY <1>t, <1>2 DEF Inodes, HostTyped, InodesAreFresh, EntriesDiffer, PartIsApart
  <1>4. \A u \in Tokens : u # t /\ Unopened(u) => u # i
    BY <1>t DEF InodesAreFresh
  <1>5. \A u \in Tokens : Unopened(u)' => u # t /\ Unopened(u)
    BY <1>1, <1>2 DEF Turns, Unopened
  <1>6. \A j \in Inodes : j # i => data'[j] = data[j]
    BY <1>1, <1>t DEF HostTyped
  <1> HIDE DEF i, t
  <1>7. InodesAreFresh'
    BY <1>1, <1>4, <1>5 DEF Turns, InodesAreFresh
  <1>8. TokensDiffer'
    BY <1>1 DEF Turns, TokensDiffer
  <1>9. OpenIsBound'
    BY <1>1, <1>2, <1>3 DEF Turns, OpenIsBound
  <1>10. EntriesDiffer' /\ PartIsApart'
    BY <1>1, <1>3 DEF Turns, EntriesDiffer, PartIsApart
  <1>11. UploadIsAlone'
    <2> SUFFICES ASSUME ~clashed', NEW q \in Requests, req'[q].state = "writing"
                 PROVE  WritesAlone(q)'
      BY DEF UploadIsAlone
    <2>1. \A p \in Requests : req[p].state # "writing"
      BY <1>1 DEF Uploading
    <2>2. \A p \in Requests : req'[p].state = "writing" => p = r
      BY <1>1, <2>1 DEF Turns
    <2>3. \A p \in Requests :
            req'[p].state = "reading" /\ req'[p].inode = i => i \in moved
      BY <1>1, <1>3 DEF Turns
    <2>4. req'[r].inode = i /\ req'[r].sent = 0 /\ q = r
      BY <1>1, <1>2, <2>2 DEF Turns
    <2> QED
      BY <1>1, <1>3, <2>2, <2>3, <2>4 DEF WritesAlone
  <1>12. PublishedIsWhole' /\ OtherIsWhole'
    <2>1. dest \in Inodes \cup {Nothing} /\ other \in Inodes \cup {Nothing}
      BY <1>t DEF HostTyped
    <2>2. \A q \in Requests : req'[q].state = "reading" =>
            /\ req'[q] = req[q] /\ req[q].inode \in Inodes
            /\ req[q].inode \notin moved => req[q].inode # i
      BY <1>1, <1>3 DEF Turns, OpenIsBound
    <2>3. ~clashed' => ~clashed
      BY <1>1
    <2> QED
      BY <1>1, <1>3, <1>6, <2>1, <2>2, <2>3 DEF PublishedIsWhole, OtherIsWhole, Whole
  <1>13. PartIsTemporary'
    BY <1>1 DEF Turns, PartIsTemporary, Uploading
  <1> QED
    BY <1>7, <1>8, <1>9, <1>10, <1>11, <1>12, <1>13

LEMMA WriteKeeps ==
  ASSUME TypeOK, Apart, NEW r \in Requests, Write(r)
  PROVE  Apart'
  <1> USE DEF Apart
  <1>t. RequestsTyped /\ HostTyped
    BY TypeParts
  <1> DEFINE i == req[r].inode
             n == req[r].sent
  <1>1. /\ req[r].state = "writing" /\ Turns(r, "writing", req[r].token, i, n + 1)
        /\ UNCHANGED <<ticket, dest, part, other, clashed, moved, litter>>
        /\ data' = [data EXCEPT ![i][n + 1] = req[r].token]
        /\ n \in 0 .. Blocks /\ n < Blocks
    BY <1>t DEF Write, Uploading, Becomes, Turns, RequestsTyped, RequestType, entries
  <1>2. i \in Inodes
    BY <1>1 DEF OpenIsBound
  <1>3. /\ \A j \in Inodes : j # i => data'[j] = data[j]
        /\ data'[i][n + 1] = req[r].token
        /\ \A b \in 1 .. n : data'[i][b] = data[i][b]
    BY <1>1, <1>2, <1>t DEF HostTyped
  <1> HIDE DEF i, n
  <1>4. InodesAreFresh'
    <2>1. \A u \in Tokens : Unopened(u)' => Unopened(u)
      BY <1>1 DEF Turns, Unopened
    <2> QED
      BY <1>1, <2>1 DEF Turns, InodesAreFresh, i
  <1>5. TokensDiffer'
    BY <1>1 DEF Turns, TokensDiffer
  <1>6. OpenIsBound'
    BY <1>1, <1>2 DEF Turns, OpenIsBound
  <1>7. EntriesDiffer' /\ PartIsApart'
    BY <1>1 DEF Turns, EntriesDiffer, PartIsApart
  <1>8. UploadIsAlone'
    <2> SUFFICES ASSUME ~clashed', NEW q \in Requests, req'[q].state = "writing"
                 PROVE  WritesAlone(q)'
      BY DEF UploadIsAlone
    <2>1. WritesAlone(r) /\ q = r
      BY <1>1 DEF Turns, UploadIsAlone, WritesAlone
    <2>2. \A b \in 1 .. n + 1 : data'[i][b] = req[r].token
      <3> SUFFICES ASSUME NEW b \in 1 .. n + 1 PROVE data'[i][b] = req[r].token
        OBVIOUS
      <3>1. b \in 1 .. n \/ b = n + 1
        BY <1>1
      <3> QED
        BY <1>3, <2>1, <3>1 DEF WritesAlone, i, n
    <2> QED
      BY <1>1, <2>1, <2>2 DEF Turns, WritesAlone, i
  <1>9. PublishedIsWhole' /\ OtherIsWhole'
    <2> SUFFICES ASSUME ~clashed PROVE PublishedIsWhole' /\ OtherIsWhole'
      BY <1>1 DEF PublishedIsWhole, OtherIsWhole
    <2>1. WritesAlone(r) /\ {dest, other} \subseteq Inodes \cup {Nothing}
      BY <1>1, <1>t DEF UploadIsAlone, HostTyped
    <2>2. \A q \in Requests : req'[q].state = "reading" =>
            /\ req'[q] = req[q] /\ req[q].inode \in Inodes
            /\ req[q].inode \notin moved => req[q].inode # i
      BY <1>1, <2>1 DEF Turns, OpenIsBound, WritesAlone, i
    <2> QED
      BY <1>1, <1>3, <2>1, <2>2 DEF PublishedIsWhole, OtherIsWhole, Whole, WritesAlone, i
  <1>10. PartIsTemporary'
    BY <1>1 DEF Turns, PartIsTemporary, Uploading
  <1> QED
    BY <1>4, <1>5, <1>6, <1>7, <1>8, <1>9, <1>10

LEMMA PublishKeeps ==
  ASSUME TypeOK, Apart, NEW r \in Requests, Publish(r)
  PROVE  Apart'
  <1> USE DEF Apart
  <1>t. RequestsTyped
    BY TypeParts
  <1>1. /\ req[r].state = "writing" /\ req[r].sent = Blocks /\ part # Nothing
        /\ Turns(r, "idle", Nothing, Nothing, 0)
        /\ UNCHANGED <<ticket, other, data, clashed, moved, litter>> /\ dest' = part /\ part' = Nothing
    BY <1>t DEF Publish, Uploading, Becomes, Idle, Turns, RequestsTyped
  <1>2. InodesAreFresh'
    BY <1>1 DEF Turns, InodesAreFresh, Unopened
  <1>3. TokensDiffer'
    BY <1>1 DEF Turns, TokensDiffer
  <1>4. OpenIsBound'
    BY <1>1 DEF Turns, OpenIsBound
  <1>5. EntriesDiffer' /\ PartIsApart'
    BY <1>1 DEF EntriesDiffer, PartIsApart
  <1>6. UploadIsAlone'
    <2> SUFFICES ASSUME ~clashed', NEW q \in Requests, req'[q].state = "writing"
                 PROVE  FALSE
      BY DEF UploadIsAlone
    <2> QED
      BY <1>1 DEF Turns, UploadIsAlone, WritesAlone
  <1>7. PublishedIsWhole' /\ OtherIsWhole'
    <2> SUFFICES ASSUME ~clashed PROVE PublishedIsWhole' /\ OtherIsWhole'
      BY <1>1 DEF PublishedIsWhole, OtherIsWhole
    <2>1. /\ WritesAlone(r) /\ req[r].token \in Inodes
          /\ part \notin moved => part = req[r].inode
      BY <1>1 DEF UploadIsAlone, WritesAlone, OpenIsBound, Inodes
    <2>2. part \notin moved => Whole(part)
      BY <1>1, <2>1 DEF Whole, WritesAlone
    <2> QED
      BY <1>1, <2>2 DEF Turns, PublishedIsWhole, OtherIsWhole, Whole
  <1>8. PartIsTemporary'
    BY <1>1 DEF PartIsTemporary
  <1> QED
    BY <1>2, <1>3, <1>4, <1>5, <1>6, <1>7, <1>8

-----------------------------------------------------------------------------
TransfersInv == TypeOK /\ ReleasedHasNothing /\ Apart

LEMMA InitHolds == Init => TransfersInv
  <1> SUFFICES ASSUME Init PROVE TransfersInv
    OBVIOUS
  <1>1. ClientsTyped
    BY DEF Init, ClientsTyped
  <1>2. TicketsTyped
    BY DEF Init, TicketsTyped, TicketType, NoTicket, Ticket
  <1>3. RequestsTyped
    BY IdleTyped DEF Init, RequestsTyped
  <1>4. HostTyped
    BY DEF Init, HostTyped, Inodes
  <1>5. HistoryTyped
    BY DEF Init, HistoryTyped
  <1>6. ReleasedHasNothing
    BY DEF Init, ReleasedHasNothing, Held, NoTicket, Ticket
  <1>7. \A r \in Requests : req[r].state = "idle" /\ req[r].inode = Nothing
    BY DEF Init, Idle
  <1>8. InodesAreFresh /\ TokensDiffer /\ OpenIsBound /\ EntriesDiffer /\ PartIsApart
        /\ UploadIsAlone
    BY <1>7 DEF Init, InodesAreFresh, TokensDiffer, OpenIsBound, EntriesDiffer, PartIsApart,
                UploadIsAlone
  <1>9. PublishedIsWhole /\ OtherIsWhole
    <2>1. \A b \in 1 .. Blocks : data[Original][b] = Original
      BY DEF Init, Inodes
    <2> QED
      BY <1>7, <2>1 DEF Init, PublishedIsWhole, OtherIsWhole, Whole, Inodes
  <1>10. PartIsTemporary
    BY DEF Init, PartIsTemporary
  <1> QED
    BY <1>1, <1>2, <1>3, <1>4, <1>5, <1>6, <1>8, <1>9, <1>10, TypeParts
       DEF TransfersInv, Apart

LEMMA StepKeeps == TransfersInv /\ [Next]_vars => TransfersInv'
  <1> SUFFICES ASSUME TransfersInv, [Next]_vars PROVE TransfersInv'
    OBVIOUS
  <1> USE DEF TransfersInv
  <1>1. TypeOK'
    BY TypeStep
  <1>2. ReleasedHasNothing'
    <2>1. \A o \in Owners : link'[o] = "closed" => HasNothing(o)'
      BY ReleasedStep
    <2> QED
      BY <2>1 DEF ReleasedHasNothing, HasNothing, Held
  <1>3. Apart'
    <2>1. ASSUME NEW o \in Owners, Delete(o) PROVE Apart'
      BY <2>1, DeleteKeeps
    <2>8. ASSUME NEW o \in Owners, Rename(o) PROVE Apart'
      BY <2>8, RenameKeeps
    <2>2. ASSUME NEW r \in Requests, NEW t \in Tokens, NEW dir \in {"dl", "up"}, Redeem(r, t, dir)
          PROVE  Apart'
      BY <2>2, RedeemKeeps
    <2>3. ASSUME NEW r \in Requests, OpenFails(r) \/ ReadEnds(r) \/ GiveUp(r) PROVE Apart'
      BY <2>3, EndKeeps
    <2>4. ASSUME NEW r \in Requests, OpenRead(r) PROVE Apart'
      BY <2>4, OpenReadKeeps
    <2>5. ASSUME NEW r \in Requests, OpenWrite(r) PROVE Apart'
      BY <2>5, OpenWriteKeeps
    <2>6. ASSUME NEW r \in Requests, Write(r) PROVE Apart'
      BY <2>6, WriteKeeps
    <2>7. ASSUME NEW r \in Requests, Publish(r) PROVE Apart'
      BY <2>7, PublishKeeps
    <2> QED
      BY <2>1, <2>2, <2>3, <2>4, <2>5, <2>6, <2>7, <2>8, QuietSteps, QuietKeeps DEF Next
  <1> QED
    BY <1>1, <1>2, <1>3

(* The invariant of the three properties below. *)
THEOREM TransfersInvariant == Spec => []TransfersInv
  BY InitHolds, StepKeeps, PTL DEF Spec

(* Every variable has its type. *)
THEOREM TypeCorrect == Spec => []TypeOK
  BY TransfersInvariant, PTL DEF TransfersInv

(* A client that has gone leaves neither a connection to the host, nor a   *)
(* ticket, nor a handler that could still get it one: release_all() runs   *)
(* when the loop over the messages has ended.                              *)
THEOREM ReleasedLeavesNothing == Spec => []ReleasedHasNothing
  BY TransfersInvariant, PTL DEF TransfersInv

(* Uploads that do not meet are atomic, where no user renames the partial  *)
(* file itself: what has the file's name is whole, and the partial file    *)
(* goes with the upload unless it cannot be removed.                       *)
THEOREM Atomic == Spec => []UploadsAreAtomic
  <1>1. TransfersInv => UploadsAreAtomic
    BY DEF TransfersInv, Apart, UploadsAreAtomic
  <1> QED
    BY <1>1, TransfersInvariant, PTL
=============================================================================
