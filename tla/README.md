# LiquidMouse: formal models, checks and proofs

LiquidMouse turns a phone into a touchpad, keyboard, terminal and file browser
for a Windows PC. A Python process on the PC (asyncio server, thread pools, Tk
window, tray) serves web pages and websockets to the phone, on the LAN, through
a router port opened with UPnP, or through a Cloudflare tunnel. This directory
holds TLA+ models of the parts whose correctness depends on interleavings,
ordering, limits and failures, the TLC runs that check them, and the TLAPS proofs
that extend some of the results to every size.

All paths below are relative to the root of the repository; line numbers of each
translated definition are in `PROJECT.json` (`map`).

## 1. The system

### 1.1 Threads

* one thread runs the **asyncio event loop**: websockets, sessions, pumps,
  attach, authorization, keepalive. Its code is atomic between two `await`s;
* **thread pools** (`executors.py`): 12 workers for blocking PTY reads, 8 for
  PTY writes, 6 for SFTP, 2 for the network;
* the **Tk thread** and the **tray thread** read the sessions, change the PIN,
  the LAN option and the whitelist, and save the configuration;
* the **tunnel thread** supervises `cloudflared`; ConPTY adds a thread per
  session that waits for the exit of the process.

### 1.2 Components

| Component | State it keeps | Operations | Hard behaviours | What makes it correct |
|---|---|---|---|---|
| Ring buffer (`terminal/ringbuffer.py`) | bytearray, dead prefix, byte counter | append, snapshot, since, clear | lazy compaction, overrun offsets | keeps exactly the last `maxsize` bytes; `since` is exact; bounded memory; amortised cost |
| Session output (`terminal/sessions.py`) | subscribers, viewers catching up, one queue and task per viewer | attach, detach, fan-out, evict, kill, end, flush | output during a replay, slow or dead viewers, end during a replay | every viewer gets the stream in order, without holes or repetitions; the session always ends |
| Session input (`terminal/sessions.py`) | pending writes, their size, writer task | send, writer task | lost wake-up, failed write, bound | order of arrival, nothing left in a queue nobody serves |
| Session pool (`terminal/sessions.py`, `executors.py`) | dictionary of sessions, workers in use | create, kill, resize, list | killed sessions whose read still blocks | a live session is eventually read |
| Authorization (`net/server.py`, `security/auth.py`, `net/addresses.py`) | failures and open handshakes per address, whitelist, tracked connections | authorize, handler, revoke, GUI changes | parallel handshakes, expiry, GUI thread at every point | guesses rationed, one whitelisted address, revoke reaches everybody |
| Connection (`net/protocol.py`) | held keys, subscriptions, owner of tickets | dispatch, release_all | disconnect with keys down, several clients | nothing is held for a client that left |
| Browser client (`static/app-core.js`, `app-terminal.js`, ...) | websocket, auth gate, reconnect timer, screen | connect, authenticate, reconnect, attach, draw | timer against a late answer, re-attach | one link at a time, stops when refused, screen equals stream |
| Tunnel (`net/tunnel.py`, `net/procguard.py`) | supervising thread, process, url, job object | start, stop, run, download, sweep | stop while it starts, stale callback, exit or crash at any point | no url after stop, no `cloudflared` left behind |
| UPnP and remote mode (`net/upnp.py`, `net/server.py`) | mapped port, remote mode, url | setup, cleanup, refresh, keepalive | exit during setup, mappings of others | mapping removed at exit; the mode shown is the one in use |
| Configuration (`config.py`) | dictionary, file | load, set_pin, save | crash while saving, concurrent saves | the file always holds a consistent pair |
| Transfers (`net/transfers.py`, `net/sftp.py`) | tickets, SFTP connections, `.part` files | issue, redeem, upload, close | expiry, reuse, failed upload | a ticket works once and only for its owner |
| PTY backends (`terminal/conpty.py`) | handles, closed flag | read, write, close, exit watcher | close against a blocked read | each handle closed once |
| Input injection (`input/win32.py`) | keys and buttons down on the PC | press, release, tap | the PC has one keyboard, the phones share it | what is down is held by somebody |
| TLS, static assets, origins, frames, GUI, build | | | | see `PROJECT.json` |

Interactions: the browser sends messages to the connection's task, which calls
the session manager and the input layer; the session manager calls the PTY
through the pools and sends frames back through one task per viewer; the GUI
threads call the configuration, the whitelist and the server; the tunnel thread
calls back into the server, which calls back into the GUI.

The hazards of this code, each at its line, are listed in `PROJECT.json`
(`hazards`) with the properties that cover them, or why none does.

## 2. Modules

| Module | What it is | Source |
|---|---|---|
| `LastBytes` | abstract ring: the last MaxSize bytes | what `attach()` relies on |
| `RingBuffer` | the implementation, refines `LastBytes` | `terminal/ringbuffer.py` |
| `ViewerStream` | abstract screen of a viewer: a run of the output | |
| `TermSession` | one session and its viewers, refines `ViewerStream` for each | `terminal/sessions.py`, `static/app-terminal.js` |
| `TermSessionProofs` | its proofs | |
| `PtyWriter` | the input side of a session | `terminal/sessions.py` |
| `SessionBytesProofs` | proofs of `RingBuffer` and `PtyWriter` | |
| `AuthGuard` | operators of the guard | `security/auth.py` |
| `Authorization` | connections, guard, whitelist, revoke, GUI thread | `net/server.py`, `net/addresses.py`, `server.pyw`, `gui/window.py` |
| `UpnpMapper` | the mapping of the remote port, its renewal and cleanup | `net/upnp.py`, `net/server.py` (keepalive) |
| `UpnpMapperProofs` | its proofs | |
| `RemoteAccess` | the choice between UPnP and tunnel, the tunnel's thread, the mode shown, the life of the program and what outlives it | `net/server.py`, `net/tunnel.py`, `net/procguard.py`, `server.pyw` |
| `RemoteAccessProofs` | its proofs | |
| `SessionPool` | creation, kill and end of the sessions, their pseudoconsoles and the reading threads | `terminal/sessions.py`, `terminal/conpty.py`, `executors.py` |
| `SessionPoolProofs` | its proofs | |
| `ClientLink` | the page's connection, locks and drags, and what the server holds down for it | `static/app-core.js`, `static/app-touchpad.js`, `net/protocol.py`, `net/server.py`, `input/win32.py` |
| `ConnectionProofs` | proofs of `Authorization` and `ClientLink` | |
| `Transfers` | tickets, SFTP connections, uploads and downloads | `net/transfers.py`, `net/sftp.py`, `net/protocol.py`, `net/server.py` |
| `TransfersProofs` | its proofs | |
| `ConfigStore` | the configuration, its file, and what is kept in it | `config.py`, `security/dpapi.py`, `security/tls.py`, `net/sftp.py` |
| `ConfigStoreProofs` | its proofs | |
| `MC...` | instances for TLC, one `.cfg` per run | |

Operators whose comment begins with "Variant" are wrong versions of the
definition that follows them, the way a plausible bug would make it; they are
used only to see that the properties notice. No action refers to them. Two modules
that are proved about together have names of their own (`WriterInit`, `WriterSpec`,
`LinkNext`, `LinkSpec`, `LinkTypeOK`); everywhere else they are `Init`, `Next`, `Spec`, `TypeOK`.

### 2.1 RingBuffer

`buf`, `start`, `total` are `_buf`, `_start`, `_total`. `Write` is the whole of
`append`, the compaction included; `Since` and `Snapshot` are the reads.
`written`, `clearedAt` and `movedAt` are history and are read by no action.

### 2.2 TermSession

One session, any number of viewers. A viewer is a websocket: when a phone
reconnects it is another viewer. A byte of output is its position in the stream,
so a frame is an interval and the ring is the interval of length at most RingSize
that ends at `total`; that the real ring is such an interval is what
`RingBuffer` shows.

* `AttachBegin` is `attach()` up to its first `await`: snapshot, counter,
  registration and first send together. `AttachDelta` and `AttachLive` are the
  two outcomes of the code after a send has completed, `AttachFails` its
  `except`/`finally`. A connection dispatches one message at a time, so a client's
  next request waits (`request`) until its attach has ended.
* `ReadOutput` is one turn of `_read_loop` with `_fan_out`, `_enqueue` and
  `_evict` of every viewer whose queue would overflow. `LeaveLoop` is everything
  from the end of the loop to the wait of `_flush_pumps`; `ReadEnd` and
  `ReadError` are the ways to get there.
* A pump task is `run`, `sending` (in `ws.send`), `waiting` (for `wake`) or
  `finished`. `PumpSends` puts a frame on the wire, `PumpSent` is the return of
  `ws.send`; while a client does not read, that return may be delayed for ever.
* `Disconnect`, `Release`: the connection drops, and later its task runs
  `release_all()`. Between the two the session still knows the viewer.
* `Kill` removes the session at once; the read loop notices later.

Abstracted: the length of an output frame is its payload's, `term_closed` has
length one; the session id and the JSON of messages; xterm's own buffering.

### 2.3 PtyWriter

Characters are numbered as they are accepted. `Send` is `send()` with
`_queue_write()`; the refusals change nothing and are no action. `WriterTakes`,
`WriterEnds`, `WriteReturns`, `WriteRaises` are the parts of `_write_loop()`
between its awaits. The end of the loop, the final clear and the task's being
done happen without an await in between: `WriterEnds` is one step. A write that
raises may have delivered any prefix.

### 2.4 Authorization

Each element of Conns is a slot for one websocket at a time. `closed`, `asked`
(waiting for the PIN), `refused` and `parting` (sending the refusal and the
close), `welcoming` (sending `auth_ok`) and `in` (served) are the awaits of
`authorize()` and `handler()`. The address stays in `inProgress` until the
`finally` of `_authorize_remote()`, which runs after the refusal was sent, or
before `auth_ok` is.

The GUI thread really is concurrent with the event loop: changing the PIN and
collecting the tracked connections are two actions. A connection that was asked
to close (`kicked`) is served until it leaves. The kinds of address
(`loopback`, `lan`, `remote`) stand for `is_loopback` and `is_private_ip`; a
client behind the tunnel is a remote one whose address is that of the header.
`pin` is the number of times the PIN changed; which PIN a client gives is a
choice (`RightPin`, `WrongPin`).

### 2.5 UpnpMapper

`router` is the mapping table as the router keeps it; `ext`, `swept`, `ip` are
`external_port`, `_residui_controllati` and the server's `local_ip`. A setup is
`Begin`, `DiscoveryFails` or `DiscoveryWorks`, one `SweepPort` for each port in the
first setup of a process, one `Map` or `NotMapped` for each port tried, and
`MoveDroppingOld` or `StayOnPort`. The router, the other devices (`OtherTakes`,
`OtherLeaves`, `RouterLoses`), and the kill of the process (`Crash`) come between
any two of these; `NotMapped` includes the mapping that was made though its answer
was lost. `Exit` is `cleanup()`: at the end of the process the pool is joined
before, so no setup is in progress.

Abstracted: a look at a mapping and the delete that follows are one step, and so
are the two calls of `_add` to a router that answers 725 (`permanentOnly`, which
the model fixes at the start: the process meets one router). Time passes only
between setups, in periods of the keepalive (600 s). That a router refuses to map over
another client's mapping is the router's doing, not the code's.

The code tells mappings apart by their description alone (`Named`), and so does the
model: a `Foreign` one carries another description, whether its application is on this PC
or elsewhere, and a `Twin` is that of the LiquidMouse of another PC, which carries ours and
which `SweepPort`, `Map` and `NotMapped` delete like one of our own; and its sweep does
the same to ours (`RouterLoses`). The port in use can be lost in two ways, which two
history variables keep apart: `disturbed`, when the router or another PC dropped it, and
`dropped`, when a renewal deleted it itself and its second try failed.

### 2.6 RemoteAccess

Two threads: `refresh` is where `_refresh_remote()` stands on the event loop, `thread`
where `CloudflareTunnel._run()` stands in its own; `callback` is, for each, where it is
in `_on_tunnel_change()`, which reads the mode, evaluates the url and writes the mode
and can be preempted between any two of these. `before` and `fresh` are `precedente`
and `nuovo`. `stop()` is three steps (`StopSetsFlag`, `StopTerminates`,
`StopClearsUrl`), the start of `cloudflared` four (`PopenWorks`, `ProcKnown`,
`BindToJob` or `BindFails`, `CheckStop`), after a download when there is no binary. What `UpnpMapper` models in detail is here one step that works or not
(`SetupWorks`, `SetupFails`), together with the certificate.

The program has a life: `Start` binds the ports, with a certificate or without, or finds
none free, and then never chooses a road; `ExitBegins`, `ExitStops` and `ExitEnds` are the
window being closed, with the `stop()` that `start()` has registered with `atexit` while the
daemon threads go on; `Crash` is the end at any point. `Gone` is what either leaves: nothing but
the binary in `bin`, and a `cloudflared` that was alive outside the job object joins the
`orphans`. `CloseStale` is the sweep at the start of the first tunnel of a process: it
closes the orphans whose image is the one in `bin`, while a `cloudflared` found in the PATH
may be the user's and is left alone. It may also close none or not all of them, for want of the list of
processes, of a handle or of the right to (`SweepFails`): nobody is told, it is not tried
again in that process, and `spared` remembers it.

Abstracted: the texts of `status` to the four that are told apart; the download to its
outcome, as its file takes its name only when its hash was verified; the comparison and the two
assignments of `_set` to one step; the end of the program to one `stop()`, that of
`atexit`, as the services' own `finally` runs only when no port could be bound; the waits of the supervisor and of the keepalive to
steps that may come at any time. The url is a flag: that of an earlier `cloudflared`
is cleared before the next one starts. That `terminate()` of the program's own child does end it
is taken for granted.

### 2.7 SessionPool

Four parties share a ConPTY. The event loop creates it (`Create`), submits a read
when it is the turn of the read loop (`Submit`, `ReadLoopGoesOn`, `ReadLoopEnds`), and
closes it in `kill()` or at the end of the loop: `loop` is where it is in `close()`,
which takes the handle (`LoopTakesConsole`), calls `ClosePseudoConsole`
(`LoopClosesConsole`) and closes the pipes (`CloseEnds`), and the other threads
run in between. A worker of PTY_READ takes the first queued read and stays in
`ReadFile` until there is output or the pipe ends. The waiter thread sees the exit of
the process and closes the pseudoconsole unless somebody has taken it. `hpc` is the
handle as the object keeps it, `console` what Windows knows of it: the field of a
closed handle must be empty, but a handle may be taken and not closed yet.

`Drains` says whether this Windows waits, in `ClosePseudoConsole`, until the output
has been read. The runs have the one that does not; the proofs cover both.

Abstracted: what is read, the size of the window, the other handles of the
process, which go with the pipes. A constructor that fails half way is not modelled.

### 2.8 ClientLink

A slot is one websocket, seen from both ends: `page` are the variables of
`app-core.js` and `app-touchpad.js`, `srv` is where `handler()` is for the slot. The
page has one current websocket; an older one lives on at the server until it has
read the close, or the ping timeout has found it dead (`HandlerReturns`); `ServerCloses` and `Drop` are
the server's close and the loss of the network. After its `onclose` a websocket has no
more events (`OnClose` empties its queue), so a slot can be used again. Each
direction is a queue; a handler of the page and the dispatch of a message are atomic,
as in JavaScript and on the event loop. `Connect` is `connectServer()` with the close
of the websocket before it; `OnOpen`, `OnAuthRequired`, `OnAuthOk`, `OnRefused`,
`OnClose` are its callbacks, `ConnectionTimeout` and `Reconnect` its timers, of which
`retries` counts those pending. `ClickConnect`, `EditPin`, `EditAddress`, `Wake` are what the
user does, `ToggleLock`, `StartDrag`, `EndDrag`, `Tap` what the touchpad
sends. `connectServer()` returns at once from what it takes for no address: `valid` says
whether the field has one, and `Load` and `WakeRefused` have the page that is left with
neither websocket nor timer nor panel (`refused`). At the server `Accept`, `CheckPin`, `GiveUpAsking`, `Handle` and `HandlerEnds` are the
stages of `handler()`, and `NotUpgraded` is a handshake refused for its Origin or Host; `ReleaseAll` is `release_all()`, which lets go of the keys of the
connection, and of the mouse button whoever holds it. `pressed` is what Windows
has down (`Down`, `Up`, `Tapped` are the calls of `input/win32.py`): there is one keyboard, and a key that two phones hold is up as soon
as one lets go.

Abstracted: the address the page connects to, but for whether it is taken for one; which gesture was recognized; the
movements; ordinary keys, which go down and up within one message; whether the PIN
is right, which is a choice.

### 2.9 Transfers

One remote host with one file, as its directory sees it: the entry of the file
(`dest`), that of its partial name (`part`) and that of any third name (`other`) each lead to an inode, `data` is the
content of each, and an open handle keeps its inode whatever becomes of the entries.
A client awaits one handler at a time (`doing`), which awaits a thread of the SFTP
pool; when the connection is lost, `release_all()` runs after that handler
(`Release`). HTTP threads (`req`) run beside: `Redeem` takes a ticket from the store,
`OpenRead` and `OpenWrite` open on the client's connection, `Write` sends a block,
`Publish` is the `posix_rename`, `GiveUp` the `except` that removes the partial file:
that may fail too, also while the connection is there, and is not told to anybody. `CloseOwner` closes the connection under the transfers that use
it. `Delete` removes any of the three entries and `Rename` gives any of them a name that is free, the
partial one included, under all this: `sftp_rename` knows nothing of uploads. Tickets expire at any moment, and are purged by the next `issue()`.

A client from outside the LAN gets no tickets for uploads and reads a file in one go
(`_remote_download`): its steps are `Redeem`, `OpenRead` and `ReadEnds` too, and what it may
not do is among what any client may leave undone.

Abstracted: content to "the block of this upload", sizes to one; names to three; the password
and host key, which are in `ConfigStore`. `clashed` remembers that two uploads were
under way at once, `litter` that the last upload to end could not remove its partial file,
`moved` the files a user renamed from or to the partial name.

### 2.10 ConfigStore

`mem` is the dictionary of `Config`. Writers change it one key at a time, and nothing
but saves exclude each other: `MakePair` is the first of the two assignments of
`set_pin()` or of the certificate, `EndPair` the second. PINs and certificates are
numbered as they are made. Profiles are objects (`obj`): a thread of the SFTP pool that has
found one keeps it while it connects (`Dial`, `Answers`, `Trust`, `DialEnds`), whatever takes
its place in the list (`EditProfile`, `ReplaceList`). A save takes the lock and a
shallow copy (`SaveBegins`), then writes another file and puts it in place
(`SaveEnds`), or fails; what the profiles say is read when it is written.
`MigrationBegins`, `MigrationEnds`, `MigrationFails` and `Load` are the start, `Crash` the end of the
process at any point, `OtherUser` the file moved to a user whose DPAPI key is another.
Each of them may fail and the start goes on: the copy of an older file, with none, a part or all of
it written; the reading of a file that is whole; the deciphering of any of the secrets, also by
the user they are of. `misread` remembers that the last start did not get at a PIN that was there.

A host may show another key than it used to (`KeyChanges`): a key is trusted when it is the
first one, and `DialEnds` has the connections that are refused among its cases. That the
profile has no key (`Answers`) and giving it one (`Trust`) are two steps, since no lock is held and
the pool has several threads; `raced` has the profiles for which two threads came between the
two at once.

Abstracted: ciphering to whether it can be undone (`Unprotected`); the other options, which are single
keys and go the same way (`load()` also fills in one that is missing, `lan_require_pin`, which the
next save writes).

## 3. Runs

| Run | Module, config | Checks | Bounds and why they are enough |
|---|---|---|---|
| `ring` | `MCRingBuffer` | `SinceIsExact`; `CompactionIsCheap`; refinement of `LastBytes` | ring of 3, chunks of 0 to 4 of two byte values, 11 bytes in all: a chunk longer than the ring, two compactions and a clear at any point |
| `session` | `MCTermSession.cfg` | types; `StreamIsComplete`; `ViewersAreAccounted`; `NothingAfterClosed`; refinement of `ViewerStream` | one viewer (viewers meet only in the fan-out), ring, chunk and queue of 2, 4 bytes, two attaches: overrun while catching up, eviction, re-attach, end during a replay |
| `session_live` | `MCTermSessionLive.cfg` | `SessionEnds`, `ResponsiveSeesAll` | two viewers, of which `window` may never read; sizes of 1 so that a second frame overflows |
| `writer` | `MCPtyWriter` | `KeysInOrder`; `KeysReachTheShell` | limit of 3, inputs of up to 2, 7 characters: the limit is hit, the writer ends and is restarted, a write fails with a full queue behind it |
| `auth` | `MCAuthorization` | types; `GuessesAreRationed`; `AdmissionIsSound`; `RevokeReachesTheServed` | two connections of one LAN address, which are interchangeable, one of another, one local; threshold and block of 2, 2 ticks, one PIN change or reset: a block expires while a handshake is open |
| `upnp` | `MCUpnpMapper` | types; `NoStrayMapping`; `LeaseBoundsExposure`; `OpenPortStays`; `SetupsDisturbNobody` | three ports, two addresses, a lease of three periods as in the code: the port in use may be the middle one, two renewals may fail before it expires; kills and restarts at every step, and another PC with the same description that comes and goes; nothing else bounded |
| `remote` | `MCRemoteAccess` | `OneRoad`; `StopEndsTunnel`; `ModeBecomesRight`; `FewOrphans` | UPnP changes twice, one failure of the sweep, the download, the start, the job or `cloudflared`, two lives of the program, at any moment; with or without a certificate, with a binary in `bin`, in the PATH or none: stop during a start, a restart while the old thread ends, callbacks across two refreshes, an exit or a crash at every step of a start and the sweep of the next program |
| `client` | `MCClientLink.cfg` | types; `NothingStaysDown`; `DownIsShown`; `NeverStuck` | a page on the LAN, two websockets (a new one beside the old one), one modifier and the button, two messages of the user in flight, one automatic reconnection, two timers, an address that is one or not: a press and its release are both under way when the connection ends, the page reconnects while the server still serves, and releases for, the connection before |
| `client_pin` | `MCClientLinkPin.cfg` | violation of `NoBlindRetry` | the same with a page loaded over https, which must give the PIN, and one message in flight |
| `transfers` | `MCTransfers` | types; `ReleasedHasNothing`; `UploadsAreAtomic` | two clients, two HTTP threads, two tickets in all, a store with room for one, files of two blocks, three names: an upload may break before, between and after its blocks, beside a download or another upload; a client leaves during its request and one with the same id takes its place, and the partial file is renamed to the file, and back, at any moment |
| `config` | `MCConfigStore` | types; `DiskCatchesUp`; `PairsMatch`; `SecretsStayHome`; `PinSurvives` | the GUI, the thread of the certificate and two SFTP threads; one profile name, two hosts, two users, three profile objects; three PINs and certificates, three changes, one crash, one host that changes its key: a profile is replaced twice under a connection, two first connections meet, two saves overlap, each pair is cut by a crash, a file is read in vain. The SFTP threads, hosts and users are interchangeable in every definition; the objects, which are taken in order, are not |
| `pool` | `MCSessionPool` | `HandlesReturned`; `ExitEndsSession`; `ReadsAreServed` | two session ids used again and again, one session allowed and one reading thread: the second session waits for the thread that the first, killed, still holds |

`CompactionIsCheap` joins `MemoryBounded` and `MovesAreAmortised`;
`ViewersAreAccounted` joins `SleepIsSound`, `BytesAreCounted` and `ReleasedIsForgotten`;
`AdmissionIsSound` joins `OneHandshakePerIp`, `WhitelistIsExclusive` and
`ServedIsTracked`; `SetupsDisturbNobody` joins `TriesSpareOthers` and
`PortChangesOnlyIfRefused`; `UploadsAreAtomic` joins `PublishedIsWhole` and
`PartIsTemporary`.

Deadlock is checked in `upnp`, `client`, `transfers` and `pool`: the other
models may stop, because the session is over, its bytes are used up, the
changes that are explored have been made, or, in `remote`, the services have ended in a
program that stays open.

### What the violation shows

**`client_pin`**: `handleDisconnect()` arms a timer that calls `connectServer()` without
asking `authGate.canAutoReconnect()`, and nothing disarms it. The connection is lost, the
phone wakes up and connects before the timer fires, its PIN is refused (it was changed
at the PC), then the timer fires: it connects again and `onopen` sends the refused PIN a
second time, without any gesture. The comment on the gate excludes just that, because
wrong PINs count towards the block of the address.

### What was observed and is not a run

The models also show, when asked, behaviours about which the source says nothing
or which it accepts:

* `_fan_out` skips the viewers that `attach()` is still replaying to: when the session
  ends during a replay, `term_closed` is never queued for that viewer, which keeps a
  dead session on its screen.
* "riprendi" on a session that is still attached resets the screen and asks for a
  replay while frames of before are still to come: those bytes are drawn twice.
  This is why the stream is promised to viewers that attached once.
* A connection is tracked only after `auth_ok` was sent; one whose PIN is changed
  in between is served on the old PIN until it leaves.
* `cleanup()` and the drop of the old port delete a mapping without looking whose it
  is: after the router has restarted it may be another device's.
* Two PCs that run LiquidMouse behind one router take each other's port, since the sweep and the
  tries look at the description only, though the comment in `_try_map()` says that a mapping
  "di un altro dispositivo" is not touched (`net/upnp.py:170`). `TriesSpareOthers` speaks of
  other descriptions.
* A renewal that finds its own mapping in the way deletes it and maps again; when that
  fails the port that was open is lost, and is shown as closed until the next renewal.
* With `Drains = TRUE` the pool deadlocks: `kill()` runs `ClosePseudoConsole` on the event
  loop, which waits for output that only the event loop would have read.
* Two uploads of the same file at once share one `.part`; what is then renamed may
  mix the two. `UploadsAreAtomic` promises nothing in that case.
* A user may rename the partial file of an upload in progress to the name of the file, or a file to
  the partial name, where the next upload truncates it. An upload whose partial file cannot be
  removed leaves it, and says nothing. `UploadsAreAtomic` excepts both.
* A crash while the configuration of an older version is copied leaves a truncated
  file, and with it the PIN is lost; so it is, without any crash, when the copy fails, or when a
  file that is whole cannot be read or deciphered once: `load()` goes on without it, makes a new PIN
  and saves it over the old one. `PinSurvives` owes no PIN then.
* Two first connections of one profile may both find that it has no host key: the later one
  overwrites the key the other has just learnt. `SecretsStayHome` excepts just that.
* A page loaded from a host that `connectServer()` does not take for an address, or that wakes up
  while the field holds none, shows an alert and is left without websocket, timer or panel, until it
  is loaded, or wakes up, again. `NeverStuck` excepts just that.
* A `cloudflared` that a crash leaves outside the job goes on until a later program starts a
  tunnel: a program that opens the port with UPnP never looks, and one from the PATH is never
  closed. A sweep that fails is not tried again: the new `cloudflared` then runs beside the old
  one. Nor is the one closed that an exit finds between its start and the moment `stop()`
  can know it, or that a refresh in progress starts after `stop()`, when the job has
  failed too. `FewOrphans` says so.
* `onopen` resets `reconnectAttempts` before the server has let the page in, so a page of
  the LAN that is refused connects again for ever.

Read in the code, not modelled:

* any `sftp_error` that comes during the transfer of an upload takes that file off
  `uploadQueue` and goes on with the next, while the first is still on its way
  (`static/app-files.js`);
* a ticket keeps the path of its file and the client it was given to, not the host: once the
  client has connected to another host, its ticket opens the file of the same path there
  (`net/transfers.py`, `net/sftp.py`), though the description of the tickets says that one
  is good only for its file;
* `open_read()` asks for the size before it opens the file: when an upload takes the name in
  between, as many bytes are announced and sent as the file before it had.

## 4. Fairness

* `TermSession`, `FairSpec`: weak fairness of the end of the read (a blocked read
  returns once the process is gone or the PTY was closed), of the final flush (the
  pumps finish or a timer fires), and, for the Responsive viewers only, of their
  pump, of their attach and of their reading. The event loop runs whatever is
  ready; a viewer that is not Responsive may block its pump or its attach for
  ever, and nothing is assumed of the output or of kills.
* `PtyWriter`: weak fairness of the writer task, which the event loop runs, and
  of the end of a write, which holds as long as the shell reads; without the
  latter `KeysReachTheShell` is not claimed.
* `RemoteAccess`, `FairSpec`: weak fairness of the refresh (the timer of the keepalive
  fires and `setup()` returns), of the tunnel's thread and of the callbacks (the system
  schedules every thread), of `cloudflared` printing its url while it runs, of its
  end once terminated, and of an exit that has begun. Nothing is assumed of failures, crashes or the user; their number is bounded, so what
  is shown is that the mode recovers once they stop, in a program that stays open.
* `SessionPool`, `FairSpec`: weak fairness of the threads (a worker takes a queued read,
  a read returns when there is output or the pipe has ended, the waiter goes on) and of a
  `close()` that has begun; strong fairness of the turns of the read loop, since the
  event loop runs whatever callback is ready, however often others are ready
  too. Nothing is assumed of users, of the output, or of the exit of a shell.
* `RingBuffer`, `Authorization`, `UpnpMapper`, `ClientLink`, `Transfers` and `ConfigStore`
  state no liveness.

## 5. Proofs

### 5.1 SessionBytesProofs: the ring

For every MaxSize > 0, every set of chunks over any bytes and every exploration
bound. `RingInv` says that the bytearray is a suffix of what was written, that its
dead prefix is shorter than MaxSize and was filled since the last move, and that
the content has the length min(written since the last clear, MaxSize). None of
the properties is inductive by itself: that the memory is bounded needs the bound
of the dead prefix, that `since()` is exact needs the suffix and the length of the
content, that moves are amortised needs to know when the prefix was filled.
`GrownIsSuffix` describes the result of an append whichever of its three branches
is taken; `WritePreserves` is the inductive step. From the invariant follow
`RingTypeCorrect`, `Memory`, `SinceCorrect`, `Amortised`, `Cheap` and the refinement
`Implements` (`Spec => KeepsLastBytes`). They rest on the three assumptions on the
constants of `RingBuffer`.

### 5.2 SessionBytesProofs: the writer

For every limit, every length of an input and every number of characters.
`Kept` is what the PTY, the thread and the queue hold, one after the other. The
order of arrival is not inductive by itself: characters may still be accepted
after a write has raised, when `Kept` is no longer everything that was accepted, so
`WriterInv` adds that no number in it exceeds `accepted`, and with it the next
character comes last (`NumberedGrows`). A write that raises leaves a beginning of
what was kept (`PartialWrite`, `NumberedPrefix`). `QueueIsServed` is used as well as
proved: that the chunk is empty whenever the task is not writing is what makes
taking the queue keep the order. Theorems: `WriterTypeCorrect`, `Served`, `InOrder`,
from `WriterAssumption`.

### 5.3 ConnectionProofs: who is let in

For any finite or infinite sets of connections and addresses, any threshold of at
least one, any block, and unbounded time. The heart is `Stands(e, g, t)`: what an
entry of the guard means at time t when g are the times of the wrong PINs given
since the last right one. It counts the last of them, all the others are older
than the block, and any MaxFails + 1 in a row span the block. Looking at an entry,
failing, and the passing of time each keep it (`StandsLookedAt`, `StandsFailed`,
`StandsLater`); failing needs that the count was below the threshold, which
`AskedMayFail` carries from the beginning of the handshake to its end, and that
needs `OneHandshakePerIp`. `WhitelistRemembers` makes the exclusivity of the
whitelist inductive, `PinIsForOthers` the tracking. Theorems: `TypeCorrect`,
`OneHandshake`, `Rationed`, `Exclusive`, `Tracked`, `Admission`, and the action
property `RevokeReaches`.

### 5.4 ConnectionProofs: the page and its connections

For any number of websockets, keys, automatic reconnections and messages in flight, on
the LAN and over wss, from `LinkAssumption`. `NothingStaysDown` is nearly inductive: when a handler
ends it lets go of the keys it holds and of the button whoever holds it, and what is
left is held by another one that is served. That needs `ServerWhole`: a connection
that is not served holds nothing, so one that begins brings nothing.

`DownIsShown` is not inductive: it speaks of a page whose websocket is the only one
served, and the one before may still be served when the page presses something, and go
before the press is read. `Accountable` follows the websocket of the page from the time it
opens: every key its connection holds, every press in its queue (`Followed`) and, when
it is the only one served, the button are shown as down by the page or released by
a later message (`Releases`). The messages that follow a press decide: reading the first of a
queue (`QueueReads`), appending one (`QueueAppends`, `FollowedAppends`) and putting the end of
the websocket in place of the rest (`QueueEnds`) each keep it. A lock toggled while
the websocket connects is shown and never sent, so `Accountable` alone would not do
when it opens: `Untouched` says that nothing has been pressed on it until then.

`NeverStuck` needs the page's side of a websocket: `PageWhole` (it has dealt with
the end only of a websocket it has no more) and `NewsInOrder` (while it connects the
first thing to come is that it is open or closed, and nothing comes for a websocket it
has left). A page that is left with none of the four is one that has `refused` an address. A page that closes its websocket is one case (`ClosedKeeps`), one that goes on
with it another (`PageActs`); of the server's steps those of a connection not yet
served (`NotServedKeeps`), those that end one (`GoneKeeps`) and `HandleKeeps`, the dispatch of one
message. Theorems: `LinkInvariant`, `LinkTypeCorrect`, `NothingDown`, `DownShown`,
`PageNeverStuck`.

### 5.5 UpnpMapperProofs

For every number of ports, every set of addresses and every lease of at least one
period. None of the properties is inductive. `Accounted` follows the mappings through
a setup: while the sweep runs they are strays or on ports still to see, while ports
are tried they are on the port in use, and after one was mapped on that one too.
`Leased` bounds the lease of a mapping by the time since the process is gone. `Held`
counts down: the port in use has at least Lease periods left, less one for each failed
renewal and one more while a renewal is due or running. `Told` says that a port which a renewal
has deleted is shown as closed once that renewal is over. `Preferred` says that the
port in use has been refused before another is mapped. `MapperInvariant` joins them
with the types; from it follow `NoStray`, `Bounded`, `Stays` and, for steps,
`PortIsSticky`; `OthersSpared` needs the types only, and `DisturbsNobody` joins the two. All rest on `UpnpAssumption`.

### 5.6 RemoteAccessProofs

For any number of changes and failures. `OneRoad` speaks of the moments between two
refreshes; `RoadInv` says what holds at each stage of one: past the stop the tunnel has
ended or was told to, and while a refresh runs UPnP is shown only if it was shown
when it began, so a refresh that fails takes it away. `OrphanInv` is the one for
`FewOrphans`: past the sweep of a process no orphan is ours unless a sweep was `spared`, before it no `cloudflared` of this
process runs, and after the `stop()` of an exit one that is alive is still between its start
and the check, or the flag has been taken back by a new start. Theorems: `TypeCorrect`,
`OneRoadAtATime`, `OrphansAreFew`, from `RemoteAssumption`.

### 5.7 TermSessionProofs

For any viewers and any sizes, from `SizesAssumption`. `SessionInv` has the types, what
the stages of the end allow (`Ordered`), and for each viewer four parts: a pump
that is not there or has returned has no frames (`Quiet`); `term_closed` is the last
frame wherever it is, and once told nothing follows (`ClosedComesLast`); what is there
for a viewer before its first request is served, and while it catches up
(`AttachedOnce`); and what is on its way goes on from what the screen shows, and ends
where the replay or the read loop has come to (`Continues`). `StreamIsComplete` is not
inductive: it speaks of subscribers, and a viewer may leave and the frames on its
way go on arriving; and without `AttachedOnce` a first attach could find frames that
it has not sent.

The frames are handled by lemmas about sequences of intervals: `Flow` says that they go on
from one another, `Ends` where they end, and `FlowPush`, `FlowPop`, `FlowPrefix` what happens
when one is queued, is drawn, or the rest is lost. A step then leaves a viewer
still, loses its pump, queues one frame for it, or is a step of that very viewer. From
the invariant: `StreamComplete`, `ClosedIsLast`, `ReleasedForgotten`, `SleepSound`, and
`Implements`, the refinement of `ViewerStream` for every viewer.

The byte counts (`BytesCounted`) would be a fold over the queue, and what a fold gives for
every queue needs induction over its length. `BytesAreCounted` asks instead that there
be a running total (`Holds`): for each position of the queue the bytes from there on, each one
the size of its frame more than the next. It is the same number, and a step only has to say how
the running total changes: a frame at the end adds its size to every entry, one
taken from the front drops the first. The limit comes from the guard of the
enqueue. With it `Accounted` has all of `ViewersAreAccounted`, and `TypeCorrect`, with
the bounds of the output, that no count goes below zero.

### 5.8 SessionPoolProofs

For any sessions, any limit and any number of workers, on both kinds of Windows, from
`PoolAssumption`. `PoolInv` adds to the types that the queue of reads has each waiting
session once (`QueueInOrder`), and for each session who is entitled to close its
pseudoconsole (`OneCloser`: as long as the field is set nobody, once it is taken
exactly one) and in which order the session ends (`EndInOrder`). `HandlesReturned`
follows from these, not from itself: it says nothing of a handle that was taken and
not closed yet. Theorems: `PoolInvariant`, `TypeCorrect`, `Returned`.

### 5.9 TransfersProofs

For any clients, HTTP threads and tickets and any number of blocks, from
`TransfersAssumption`. `ReleasedHasNothing` is inductive with the types. `Atomic` needs
`Apart`: inodes are fresh when they are written, two requests never have one ticket, an
open handle has its inode, no two of the three names lead to one inode (`EntriesDiffer`), and, as
long as no two uploads have met, an upload that is under way is alone and its blocks are all its
own (`UploadIsAlone`). That a rename brings a whole file needs `OtherIsWhole`: what is under the
third name is whole unless it has been, or comes from, the partial one, since no upload
ever writes to what has another name than that. `Renamed` is the step of a rename among
the three. Theorems: `TransfersInvariant`, `TypeCorrect`,
`ReleasedLeavesNothing`, `Atomic`.

### 5.10 ConfigStoreProofs

For any SFTP threads, names, hosts, users, profile objects and bounds, from
`ConfigAssumption`: the GUI's thread and the one of the certificate are two, and `Nothing`
is none of the values it stands for the absence of.

None of the properties is inductive. `DiskCatchesUp` says nothing while somebody is
busy: what carries it over is `Current`, that the copy about to be written is what memory
says unless another thread has changed something and will save it (`Working`), and that
only one copy is about to be written is the lock (`Locked`). `PairsMatch` is about
memory, but after a restart memory is what the file had, and the file what the
copy had: `Matched` says of all three that the halves of a pair are of the same making, or some
thread is at work on that pair, or a crash cut it, or, of the file, that the last save
failed. Whichever secrets a start gets at (`Loaded(read, known)`), the halves of each pair come
together or not at all. `PinSurvives` is a step; `Kept`
is the state before it: the file has the PIN that is owed, and as long as the process is up and
nobody is at work on the PIN, the one in memory. `InOrder` says that the hash is never
there without the PIN it was made from, so that a start drops no hash for want of its PIN.

For the secrets, `Homely` follows every profile that is around, those in the list, in the
file and those that a thread has made and not put in the list yet. Objects are
referred to from memory, copies, lists read before and the file: `Referred` and `Shaped` say
that none of them leads to an object that was not made, and `Written` that the file has
each object once, so that a start finds in the objects what the file had. The step part of
`SecretsStayHome`, that a host key once known is not replaced, needs more than the check of
the code, which is made a step before: `Lone` says that a profile about to be given a key has
none yet, unless it is in `raced`: the first of two to write puts it there.

Theorems: `StoreInvariant`, `TypeCorrect`, `FileCatchesUp`, `PairsStayTogether`, and the action
properties `PinComesBack` and `SecretsAtHome`.

### 5.11 Only model-checked

Everything under fairness: `SessionEnds`, `ResponsiveSeesAll`, `KeysReachTheShell`,
`StopEndsTunnel`, `ModeBecomesRight`, `ExitEndsSession`, `ReadsAreServed`. Fairness is
stated with ENABLED, which the prover does not reason about. Every invariant and
every action property of the passing runs is a theorem; `NoBlindRetry` is what the
program does not keep.

## 6. What is not modelled

* The check of the origin, a predicate on headers, but for its outcome; the shells and the window on the
  PC; the static assets and HTTP; the drawing of the GUI; build and tools.
* The jumps of the wall clock the guard reads; the timeout of the wait for the PIN,
  which is one of the ways a handshake aborts.
* `resize` and the listings of sessions, which change nothing the properties see; the
  pywinpty back end and its polling delay; a ConPTY constructor that fails.
* SFTP listings and new folders, and the fallback for hosts without `posix_rename`, which
  deletes before it renames and so promises less.
* The recognition of gestures, the file view and its queue of uploads, xterm's own
  buffering.
* The debounce of backspace and the answers to pings.
* How a release of `cloudflared` is found and its hash compared: the download works or fails.
* More than one session in `TermSession`: sessions share only the pools, which
  `SessionPool` has.

## 7. What could follow

1. `UploadQueue`: the queue of the file view, its tickets and its errors, composed
   with `Transfers`, where the hosts and the sizes of the files would tell two more
   cases apart (end of section 3).
2. `UpnpMapper` with more than one router, for `_solo_permanenti`, which is never reset.
3. Proofs of what the liveness properties rest on, step by step: that what a thread or a
   task waits for stays due until it is done, so that only fairness is left to TLC.
