# LARecomp: a verification project

LARecomp (`src/`) is a native port of *Midnight Club: Los Angeles*, made by
static recompilation, with a new renderer, a mod loader and a set of online
services that replace the ones the game was made for. These modules model the
online services, the part of the program where several machines, files,
clocks and lossy messages meet; TLC checks them on small instances and TLAPS
proves the results that matter most for every instance.

## 1. Inventory

Paths are under `src/src/`; `online/` is `mc_engine/online/`.

| component | state it keeps | operations | what is hard |
|---|---|---|---|
| **Relay: peers and vips** `online/relay_server/relay_server.cpp` | peers by session id, two indexes (by `ip:port`, by vip), the counter `next_vip` and its file | `kRegister`, `kHeartbeat`, `kUnregister`, the sweep, restart | UDP, NAT moves, restarts in the middle of games, a crash while the file is written |
| **Relay: rooms** same file | links with ages, `lan_reach`, `Peer::room` | `kRelay` (unicast, broadcast, LAN reply), `merge_rooms`, `recompute_rooms` | rooms, links and peers out of step between two passes |
| **Relay: nick check** same file | admissions, grace, kicks, bans | hello, proof, refusal, the sweep, the panel's commands | three clocks, sessions that come back, commands from another thread |
| Relay: host lists, browser queries, hints; admin panel, mods HTTP | views, a command queue, download slots | queries, HTTP | hints that race with lists; slots given back on every path |
| **Master: nick registry** `online/master_server/identity_registry.cpp` | nick records, a file, tickets out there | claim, recover, cancel | lost answers, failed writes, restarts, hold and expiry times |
| **Master: listing** `online/master_server/master_server_main.cpp` | listings, announces waiting for a lookup, probes in flight | announce, look up, probe, verify, expire | a resolver thread beside the UDP loop, restarts and dynamic addresses meanwhile, full lists |
| **Identity client** `online/identity/` | key file, ticket, last check | worker's passes, requests from the UI | waits against the admission's end; requests taken before they can be sent |
| **Rate My Ride** `online/rate_my_ride/` | rides, scores, `rmr.db`, uploaded files | upload, overwrite, rate, buy, update | files and database in step through crashes; requests about a ride that has been replaced |
| **Leaderboards** `online/leaderboards/` | rows, `leaderboards.db`; each game's worker and local store | write (aggregate, rank, save), try again, fall back | lost and late answers, failed saves, crashes |
| **Server browser's join** `online/server_browser/` | request, status, phase, deadline, filter | request, cancel, tick, hooks | window, game thread and hooks interleave |
| **Online switch** `online/system_link.cpp` | request, cvar, what the sockets were set up with | request, two hooks in the network update | three askers on several threads, a request taken while another comes |
| Mod downloads `mc_engine/modloader/modsbrowser/` | temporary and final folder | download, swap | crash between two renames |
| Renderer, mod formats, hooks, shader packs, profiles, installer, presence | | | device state, data formats, guest memory: section 7 |

How they interact. A game's SDK sends `kRegister` when it opens or joins a
session and `kHeartbeat` every few seconds; the relay answers with the vip, the
address other games reach it by. Game packets go to the relay as `kRelay` and
come out as `kRelayDeliver`. The identity client claims the gamertag at the
master (HTTP), gets a ticket and proves it to the relay, which trusts the
master's key and never asks it. Relays announce themselves to the master, the
browser reads the list and talks to relays directly. A room picked there becomes a request
that the game thread takes up: it switches the game online, if need be, and steers
the game's own search to that room. Finished races and rides go by HTTP to
`larecomp_rmr_server`, which handles one connection at a time. The relay's main loop is
one thread; its admin panel and the registry's HTTP server are others, behind a
queue and a mutex; the master's resolver is a thread beside its UDP loop.

What makes the components correct:

* relay peers: a running game's vip never changes and is never another's; a
  fresh vip was never anyone's; the three tables agree; a game that keeps
  sending gets in;
* rooms: those who play together hear each other at once, games do not hear
  each other, silent rooms split;
* nick check: who has not proved his nick plays for one grace, who has stays in; a
  proof counts once and soon; a kick holds;
* registry: a nick changes hands only by an uncancelled transfer after its hold
  or by expiry; nothing answered is forgotten; tickets follow the nick;
* listing: who gets listed was found there with the secret he announced; who goes on
  keeps his place; who was kept out by relays that are gone gets in;
* stores: what was acknowledged survives a crash, scores are for the ride they were
  given to, and nobody gets another ride's car;
* online switch: the game ends up wholly online or wholly offline, as asked for last;
* join: the game joins the picked room or none, and the filter goes with the join.

`PROJECT.json` lists every component and, under `hazards`, what is hard to test
in this code, line by line, with the properties that watch it.

## 2. Plan

| step | modules | state |
|---|---|---|
| 1 | `VipOwnership`, `RelayPeers`, `MCRelayPeers`, `RelayPeersProofs` | done |
| 2 | `RoomGraphs`, `RelayRooms`, `RoomUnionFind`, their MC modules, `RelayRoomsProofs`, `RoomUnionFindProofs` | done |
| 3 | `NickOwnership`, `NickRegistry`, `MCNickRegistry`, `NickRegistryProofs` | done |
| 4 | `NickGate`, `ProofCycle`, their MC modules, `ProofCycleProofs` | done |
| 5 | `RideBook`, `RmrProcess`, `RmrStore`, `LeaderboardStore`, `RmrServer`, `MCRmrServer`, `RmrServerProofs` | done |
| 6 | `OnlineSwitch`, `BrowserJoin`, `MCBrowserJoin`, `BrowserJoinProofs` | done |
| 7 | `MasterListing`, `MCMasterListing`, `MasterListingProofs` | done |
| 8 | `ModDownload`: download, swap, crash | open |
| 9 | the rest of the identity client (ticket cache, `HandleRequests`), composed with `NickRegistry` and `NickGate` | open |

Every safety invariant, action property and refinement that a passing run checks
is stated by a theorem (section 5). Still open among the modules that exist is the
composition of `RelayPeers` and `RelayRooms` (rooms on top of the very peers);
`RelayRooms` takes from `RelayPeers` that vips of peers are distinct, which
`RelayPeersProofs` proves.

## 3. Modules

### RelayPeers

`addr_of` and `vip_of` are `Peer::addr` and `Peer::virtual_ip`; `addr_to_sid`,
`vip_to_sid` and `next_vip` are the code's, `disk` is `relay_state.txt` (a
counter or `Torn`). The environment is every running game (`at`, `knows`: where
it is, and the vip it believes it has) and a set of datagrams, requests and
acks, each of which may be lost, may arrive late, and may stay in the network
after it was received, to arrive again (`keep`, `Rest`). `MaxInFlight` bounds how
many there are at once, `MaxMoves` and `MaxRestarts` how often a game changes its
address and the relay dies. One action stands for one datagram handled (`Handle`:
`HandleHello` with `identify` inside, `HandleRefused`, `HandleUnregister`), one
sweep, one crash, one restart.

`SaveFaults` says what may befall a save: `"torn"` is a death between the
`fopen("w")`, which empties the file, and its `fclose`. `MayWrap` lets the
counter run past `VipLast`. `Anonymous` are games that send no session id, for
which the code uses the address. `Enforce` lets any game be refused at any
hello, the nick check's effect on the tables. These are the *switches* the runs
turn: each run states what it assumes.

Three timing facts of the deployment are guards, not code: `Quiet` (a datagram
does not stay in flight longer than the 15 s after which the sweep removes a
silent game), `Free` (an `ip:port` is used again, and a game registers again, only when the packets of its
former user are gone) and the crash, which empties the network (no datagram outlasts the
time a relay needs to start again). With `Free` the model has no `kUnregister` that comes when its address
or its session is in use again; that hazard is listed and not covered.

### VipOwnership

What the relay promises: a vip is nobody's until it is claimed or given fresh,
and then one session's for good. Under the refinement mapping in `RelayPeers`,
`held` is `vip_of` and `owner` is a history variable that no action reads.

### RelayRooms, RoomGraphs, RoomUnionFind

`RelayRooms` has the peers, their `room`, the `links` (and which of them are
`old`, that is, silent for longer than `kLinkTtlMs`) and `reach`. Join is what
`identify` does to rooms, `Leave` what `remove_peer` does (nothing, to links and
rooms: the code leaves them), `Unicast` and `LanReply` the two kinds of `kRelay` to a
vip, `Receivers` whom a broadcast reaches. Time only ages links and permissions.
`Recompute` is a pass of `recompute_rooms` in one step, with the lowest vip of
each component as the room; that its union-find computes that, for any order of
the links and although `root()` rewrites the forest while it is walked, is what
`RoomUnionFind` checks, link by link.

`RoomGraphs` defines connection by the sets that no link leaves. It is the usual
notion without recursion, so that the proofs can use it.

### NickRegistry, NickOwnership

`db` and `disk` are the records in memory and in `identity_db.txt`; `codes` and
`told` count recovery codes and those that reached a player; `tickets` are those
that have not expired. Each request is one action, since the registry serves
them under one mutex; `heard` says whether its answer arrives. Requests that are
refused change nothing and are no steps. `SaveFaults`: `"lost"`, the file cannot
be written or renamed, which `Save` only prints; `"short"`, the buffered end
of the file cannot be written when the stream is closed, after its only test, and a shorter file
becomes the database. The master's clock is taken not to run backwards.

`NickOwnership` is the promise at the head of `identity_registry.h`: a nick goes
to who takes it when it is free or abandoned, or to who asked for it with the
code when the hold has passed and the owner has not refused.

### NickGate

The nick check of the relay, `gate` in short: `enforce`, `admitted`,
`grace_start`, `grace_rate`, `banned`, `kick_until` are the code's, `peers` is where
a peer registers from and its nick, `nonces` the challenges that the relay's present secret has
given out (the relay itself keeps none of them: it computes them again). One
action per message (`Challenge`, `Prove`, `Register` with refusal and the
grace's rate limit), per command of the panel (`Kick`, `Ban`, `Unban`), and `Sweep`,
`LoadIdentity`, `Restart`. `Register` may be sent for any session, from any address, under any
nick. `Leave` is an unregister or a time-out, which may come at any time.

A tick is longer than the second between two sweeps and the five seconds
between two readings of `server.toml`, so a tick has at least one sweep after the last
reading (`swept`); graces, kicks and admissions are counted in ticks. `free` is a history
variable: the ticks a session ended as an unproved peer, as long as its grace is
remembered. The clocks are taken not to jump, as the relay's own (`NowMs`) does not.
The tables' caps of 65,536 entries are never reached.

### ProofCycle

`NickGate` together with the players' identity clients: `held` is the challenge
of a pass under way, `began` when it began, `next` when the next is due, `check` what
the player is shown. A pass (`Cycle`) ends in one of `HelloUnanswered`,
`HelloAnswered` by a relay that does not check, `NoTicket`, `ProofAccepted` and
`ProofUnanswered`, and each says how long to wait. The code has waits of 20, 30,
60, 120, 300 and 600 seconds; the model has `NextProof` (300), `Retry` (120, the
longest after no answer) and `LongWait` (600, after a refusal that a player must see
to), and `CheckNow` may bring the next pass forward at any time, which gives the
shorter waits. `PassEnds` counts the wait from the pass's begin or its end, since
`next = Clock::now() + Cycle(fresh)` leaves open which is read first. The game's
heartbeats (`Heartbeat`) come whenever they like, and `LateProof` delivers a proof under any
challenge ever given out. `Events` says what else may happen, at most `MaxEvents`
times: an address changes, a command of the panel, a restart of the relay, a change of
`server.toml`.

`settled` is the history variable behind `ProvedStaysIn`: those who proved their
nick and whom nothing has befallen since but a few failed passes.

### RmrStore, LeaderboardStore, RmrServer, RideBook

`larecomp_rmr_server` is one process with two databases behind one socket.
`RmrStore` has the rides: `records`, `ratings` and the two counters are the code's,
`db` is `rmr.db`, `disk` the folder of uploaded files, `op` an upload under way. An upload is
`Begin`, `StoreFile` for each file, `DeleteFile` for each name of each file of the ride it replaces (the `.car` and
then the `.jpg` of a number, two removes), and
`Enter`, which changes the records and saves them; all else is one step, since requests are
served under one mutex. `StoreCrash` may come between any two steps and `StoreOpen` reads
back what is there. Under `"file" \in Faults` a file cannot be written, and those written before it are deleted again
(`StoreFileFails`, `GiveUp`); under `"short"` it is cut short and counts as written, as `AtomicWrite` tests
the stream before its destructor flushes it. A file is known by the upload (`ver`) it belongs to, a score by the
upload its rater was shown. A rating, though, names no more than the ride and its owner, and may be sent about anything
that was ever listed (`given`): one for an upload that has been replaced counts for the new one.

`LeaderboardStore` has one board and the workers of the games: `Submit`, `Post`,
`Unanswered` (the answer is lost or late; the server carries out the request all the same,
as its connection waits in the `backlog`), `Write` with its save (`AtomicWrite`), which may fail, or leave a damaged board and say ok, `NotFound` of a server from
before the leaderboards, and `Elsewhere`, the local store. `RmrServer` puts both together: they
crash together, and a leaderboard's request is served when no upload is under way. A damaged board
keeps the process from starting (`BoardOpen`). The server's system clock is taken not to be set back, as ties go by it.

`RideBook` is the store without files and crashes: one ride per player, whose id stays, whose scores go when
it is replaced by an upload never seen before, whose sales are kept, and who may be scored by whoever has seen any upload of it. The refinement takes what the server serves,
or, while it is down, what it would serve (`Served`).

### OnlineSwitch, BrowserJoin

`OnlineSwitch` has `cvar` (`mcla_online_enable`), `request` (`g_link_request`), `applied`
(`g_link_applied`), `waited` (an update has passed since the request) and the sockets. Who asks: the menu
(`Toggle`), the F4 overlay, which writes the cvar first (`Overlay`), the SDK when no server
answers (`NoServer`), and a join. The hook `Hook_NetLinkWhileUp` is two steps, `NetLook` and
`NetTake`, so that another thread may ask between its reading and its compare-exchange.
Three history variables, which no step depends on, are for the properties: `wanted`, what was asked for last; `burst`, how many have asked since all
was settled (counted up to three); and `crossed`, whether the overlay is among those that came while a switch was
under way. Nothing bounds the requests but `MaxAsks` and `MaxJoins` of the run.

`BrowserJoin` adds the window's requests, the tick of the game thread, in two steps as well
(`TickReads`, then one of `TickActs`), and the hooks on the game's own search: `Answer` (kept or
dropped by the filter), `JoinSession`, `CreateGame` (vetoed while a filter is on). The game is external: it
may search, join, leave and host whenever it likes, between ticks. `Late` says that
the phase's deadline has passed.

### MasterListing

`listed`, `pending` and `queue` are `g_listed`, `g_pending` and `g_to_resolve`, `looking` what the resolver
has taken out of the queue and looks up without the lock. `Hear` and `Verify` are the
UDP loop's two messages, `Take`, `Probe` and `NoSuchHost` the resolver's steps; `Start`, `Stop`, `Announce`
and `Details` are the relay's side. A relay's `run` tells its restarts apart: each has a secret of its
own, and `dns` says to whom a host name leads at the moment (`Move`). A tick is about half a minute
(`Every` 30 s, `Ttl` 100 s), longer than a probe lives; `Expire`, which the loop does each second,
is therefore part of `Tick`. `round`, `lost` and `found` are history: what became of a relay's latest announce, how
many in a row were lost, and who was to be found under which name within this tick.

## 4. Runs

| run | asks | instance |
|---|---|---|
| `relay_stable` | does a running game keep its vip; is a fresh vip new; does the relay implement `VipOwnership` | no save faults, no wrap; 458 thousand states |
| `relay_churn` | do the tables agree under everything at once; does a game that keeps sending get in | an anonymous game, refusals, torn saves, a counter that wraps |
| `relay_torn` | "a vip must never change while a game is running": **violated** | torn saves |
| `relay_rooms` | do games hear themselves and only themselves; do silent rooms split | four peers |
| `room_union_find` | does the union-find give the lowest vip | all graphs on five vips, all orders; 320 thousand states |
| `nick_registry` | does the registry implement `NickOwnership`; is nothing forgotten; does a cancel hold; whose tickets live | three keys, hold 2, expiry 3, ticket 2, nine ticks, five codes; 40 thousand states |
| `nick_save` | "a nick changes hands only by ...": **violated** | a save that fails or is cut short |
| `proof_cycle` | does a kick hold; does anyone play unproved for more than a grace; does who proved stay in; is an admission fresh | a player and a game of his name without a client, two addresses, five ticks, admission 3, grace 1, one pass that may fail, one event of any kind |
| `proof_restart` | "the relay adopts it back", of a player shown as verified: **violated** | the same, the event is a restart |
| `rmr_server` | do rides keep their cars and only their scores; does the store implement `RideBook`; is what was told ok on disk; do ties keep their order | two players, four uploads of up to two files, two results, two crashes, files and board may fail to be written or be cut short; 929 thousand states |
| `browser_join` | is the game wholly online or offline, as asked, unless the overlay cuts in; does it join the picked room or none; does the filter end | two rooms, two joins, two switches; 1.8 million states |
| `master_listing` | was there who gets listed; does who is listed stay; does who goes on get listed | two relays on one machine, room for one of them, one restart or change of address; 419 thousand states |

The bounds. Relay: enough games and vips for one game to hold what another
claims, for one address to be used by two, and for a restart between any two
messages: two games and two or three addresses. A third game would be another bystander,
and what is true of every number of games is proved. Rooms: four peers are two games
of two, the smallest instance where a leak or a bad merge shows; five in the
union-find give trees deep enough for `root()` to shorten a path. `DataPairs`
and `LanPairs` bound who may send to whom in `RelayRooms`; the proofs do not
depend on them. Registry: nicks do not interact, so one is enough; three keys are an owner, a
former owner and a third; the lifetimes are the smallest that satisfy
`RegistryConstants` (24 h <= 7 d, 24 h <= 90 d) with equality where it is tight.
Nick check:
`proof_cycle` has a player, whose game has a client, and a game of the same name that has
none, on two addresses: who is kicked and who takes its place, who is admitted and who is refused. Its
numbers satisfy `CycleConstants` with one tick to spare (1 + 0 + 1 * (1 + 0) = 2 of an admission of 3),
and an epoch of 2 in five ticks, so that challenges grow old within the
run; a grace of 1, remembered for 1, leaves room for a session to use it up, leave, come back and be forgotten.
Rides: two players are owner and rater (and buyer); four uploads and two crashes let one that was cut off leave its photo under the number of a car
that is later deleted by halves, the shortest way to serve a photo as a car; two files are a car and a photo. `MaxBoth` keeps the product of uploads and
results small, as the two databases share nothing but the process, and `MaxWork` the sum of uploads and crashes with
twice the scores, sales and short files: either the files are driven far, or what is done with the rides. Leaderboards: two tries with an answer
that comes late, two ratings, two seconds: a tie with the order known and one within a second.
Join: two rooms are the picked one and another, two joins one that replaces the other, two
switches one that crosses the other; with the joins there are bursts of up to four requests and more, the SDK's own added,
the overlay among them (without the exception `Tangled` TLC refutes `Settled` in this very run). `OnlineSwitch`
by itself was checked with seven switches. Listing: `MaxListed` 2 and `PerIp` 1 make either relay
the one too many; `MaxProbes` and `MaxNet` 1 make probes and packets wait and be dropped; with two packets and
two tokens the safety properties were checked once too (8 million states). Relay `r1` is the one that may restart or
move: the two are alike.
Symmetry is used for registry keys, which the specification treats alike. Deadlock is checked
where the system never stops; it is off where a bounded clock, counter or list of
links makes the model stop.

Fairness. `relay_churn` assumes, for `GetsIn`, that a dead relay is started again (weak fairness
of `Restart`), that each running game goes on sending heartbeats (weak fairness: the
SDK's timer), and that a datagram sent again and again is not lost for ever
(strong fairness of handling a game's heartbeat from the address it has now, and of its
receiving the ack). Nothing is assumed of sweeps, moves, exits and crashes. `relay_rooms` assumes, for `RoomsSplit`, the clock (a link grows old when nothing is
sent) and the pass every 250 ms of the main loop. No fairness is assumed of the
identity client: that its passes are on time (`OnTime`) is a guard of the clock.
`browser_join` assumes a frame's two halves, the tick and the network update, of which the game makes many a second, and
that deadlines pass (weak fairness of `TickReads`, `TickActs`, `Net`, `Late`); nothing is assumed of the
player, the window or the game's search. `master_listing` assumes that clocks and the resolver go on (weak fairness
of the tick or an announce, and of the resolver), and that of announces, lookups, probes and answers that are tried time and
again some come through in time (strong fairness of each, as UDP and DNS do not fail for ever); nothing is assumed of
stops, restarts, losses and moves.

### What the code does not do

Three runs end in a violation, listed under `findings`:

1. `SaveState` (`relay_server.cpp:216`) opens the file with `"w"`. If the relay dies
   before it is closed, the file is empty, `LoadState` starts over, and a new game
   gets the vip of one that is still running. Writing a temporary file and renaming it, as the
   registry does, would do; the same run passes without `"torn"`.
2. `Registry::Save` (`identity_registry.cpp:109`) does not report a failure, and tests
   the stream before its buffer is written, so that a full disk at the last moment replaces
   the database by a shorter one. A registration is answered `ok` and gone
   after a restart; with `SaveFaults = {"lost"}` a cancel is undone in the same way
   (`CancelHolds`, which holds without faults).
3. Admissions are in the relay's memory (`relay_server.cpp:1578`), and a client that was
   verified sleeps for five minutes. After a restart of a relay that checks nicks its
   game is adopted back for the grace of 20 s and then refused until the client's next
   pass. The same happens to players in a game when the check is switched on, or
   when their address changes. An answer to the refused heartbeat, or a
   shorter wait when the relay was restarted, would do.

What the model of the join and the switch shows besides, and its properties leave out:

* Three requests within the updates of one reset can leave the game half online when the overlay is among them: it writes the cvar
  at once, and when a later request cancels an earlier one nobody writes it back (`system_link.cpp:639-644`); sockets that
  reopen do not set `g_link_applied`, so that an "off" that follows may be taken for done (641). "Either way they reopen consistent with the cvar"
  (521) is then not so. `Settled` excepts it (`Tangled`) and holds for all other requests, however many; the menu, joins and the SDK alone never
  do it.
* An overlay's "off" that comes between `OnlineLive()` (639) and the compare-exchange (644), on top of an equal
  request, closes the sockets with the cvar already off, against "Off has to close the sockets while online is still
  on" (523): the exception `crossed` in `ClosedOnline`.
* A join asked for during the tick or hook that ends the one before finds its status
  overwritten with "failed", which `kGoingOnline` does not set again (`browser_join.cpp:228`); the
  strip then cancels the new join after six seconds. `StripTrue` leaves that phase out.
* A join asked for while an "off" is pending is taken to be online, is not switched
  on again, and fails after its 12 s.
* That the search began is not looked at (`GotoState`, `browser_join.cpp:277`); it fails only if the game has no state of that name, and the
  model takes it to begin.
* A search the join gave up on, or the one of a join that is replaced, goes on in the game without a filter; and
  while a filter is on, a game the player wants to host himself is vetoed.

Of the stores: a photo may be hidden by a car that an upload cut off left behind under its number. A ride may
have lost its car (`cut`) to a crash in the middle of its own replacement, and if the crash came between the removal
of the `.car` and of a `.jpg` that an earlier upload left under the same number, that photo, which may be another
player's, is served as the car (`rmr_store.cpp:161-176`): `CarsTheirs` says that this is all that is served in its place. A
rating that comes late counts for the upload that took the place of the one rated (`rmr_store.cpp:404-419`). A car, a photo or
the board that the disk has no room for when the stream is closed is answered ok (`rmr_store.cpp:46`, `lb_store.cpp:31`), and
a server with such a board does not start again. The owner's update writes the
whole of the user data, with counters as old as his copy, and so loses sales made meanwhile
(`Change` of `RideBook` allows it); a result whose answer is lost adds up twice. Of the listing: the caps (`MaxListed`,
`PerIp`) are tested when an announce is heard and not when its probe succeeds, so that several under way at once pass
them; nothing in the repository promises otherwise.

## 5. Proofs

Everything below holds for any constants that satisfy the stated assumptions.

* `RelayPeersProofs`: `TypeCorrect`; `TablesAlwaysAgree`, inductive as it
  stands with the type invariant, under every fault and switch; and from it
  `PeersShareNothing`: no two peers share a vip or an address, whatever crashes.
  With `SaveFaults = {}`: `CounterStaysAhead`, the
  invariant (counter and file are ahead of every vip ever held) behind
  `FreshNeverReissued`; with, besides,
  `MayWrap = FALSE` and a session id from every game, `RelayImplementsOwnership`.
  Its invariant, `ClaimsOwned`, says that a vip some game or datagram brings is
  one its session already owns. `VipsAreStable` (`StableVip`) adds `SessionInv`: the danger is a
  datagram of a running game that has no peer any more but brings, or tells it, another vip than it
  carries. There is none, because a peer goes only when nothing of its game is in flight
  or when another game speaks from its address (`Displaced`), and nobody takes an address
  over as long as something of the game the relay has there is in flight (`OneSpeaker`,
  `TakesAddress`). It needs `Enforce = FALSE`: a game that is refused between two copies of
  its first register gets two vips, and may be told the first (TLC finds this in seven states).
* `RelayRoomsProofs`: connection is an equivalence that grows with the links.
  `RoomsNamed` (each peer is connected to the vip its room is called after, here or
  gone) is inductive and gives `BroadcastsDoNotLeak`; `GamesStayTogether` is
  inductive with the types, because a merge moves two whole rooms and a
  component has one lowest vip. Vips are any set of numbers whose subsets have a
  least element (`VipsOrdered`).
* `RoomUnionFindProofs`: `ForestStays` and `RoomsAreLowest`, for any vips and any order of links
  and peers, under `VipsOrdered`. `WayUp` and `Root` are recursive functions over the forest;
  lemma `WayUpIsWay` shows that the way up is the least set that holds a vip and the
  parents of its members, so that no later step needs induction: what holds at a
  vip and is handed on to parents holds at its root (`UpTheWay`). Shortening keeps the roots,
  hanging one under the other joins two trees, and the roots are the lowest vips of the
  components of the links taken.
* `NickRegistryProofs`: `NickTypeCorrect` under every save fault; with
  `SaveFaults = {}`, `NothingIsLost`, `CancelsHold`, `TicketsFollowTheNick` and
  `RegistryImplementsNickOwnership`. `TicketHolders` alone is not inductive: a nick could be taken
  from under a ticket of an owner before the last. `TicketInv` adds how the clocks are
  ordered (`ClocksOrdered`, `TicketsDated`), and lemma `OldTicketsGone` draws from it that when a nick
  expires or a hold ends no ticket of an earlier owner is alive. It needs
  `TicketLife <= HoldTime` and `TicketLife <= ExpireTime`: the proof fails without
  either. `CancelsHold` rests on `Withdrawn`: what was cancelled is not what is pending.
* `ProofCycleProofs`, first about `NickGate`: `GateTypeCorrect` and `KicksHold`, inductive with the types;
  `OneGraceEach` needs two more: what a sweep leaves stays so for the rest of
  the tick (`SweptClean`, theorem `SweepsClean`), and the ticks a session was
  here unproved lie between the start of its grace and its end (`FreeInGrace`);
  `AdmissionsAreFresh`, from what `Fresh` demands and how `div` rounds
  (`EpochFacts`). Then about the whole: `CycleTypeCorrect`; `CycleImplementsGate`, every step of the whole is one
  of the gate's or leaves it alone, so that the theorems above hold with clients too;
  and `ProvedStay`, by the invariant `SettledInv`: passes begin and end on time
  (`OnSchedule`), no admission is longer than `Admit` from now (`NotAhead`: a proof
  never shortens one), and a settled player's lasts until the end of the last pass
  that he may need (`Covered`). It assumes
  `NextProof + PassTime + MaxFails * (Retry + PassTime) <= Admit` and `PassTime <= Retry`:
  with the code's 300 s, 120 s and 600 s and passes of at most 20 s, two may fail in a
  row. Without the first assumption the proof fails.
* `MasterListingProofs`, for any number of relays, names, packets, restarts and moves:
  `ListedWasThere`: a proof that fits was made by the run that announced (`Answered`), the run announced
  before it was probed (`Known`), so it was up when the name was looked up (`Probed`).
  `PlacesAreKept` (`StaysListed`) by `PlaceInv`: an announce that nothing has become of yet is
  somewhere between the relay, the queue, the resolver and a probe of the relay itself
  (`OnItsWay`), so that a tick finds it; hence each announce after the last answer is counted, and
  a listing is at most as old as the announces counted allow (`Timely`). It uses the
  assumption `3 * Every <= Ttl` (30 s and 90 s) and is false without it.
* `RmrServerProofs`, for any players, uploads, races, crashes and failing or short writes: `TypesHold`,
  `CarsAreTheirs`, `RatingsAreFair`, `ToldStaysKept`, `TiesKeepOrder` and `RidesAreABook`, the refinement.
  One invariant serves all. `StoreInv`: `rmr.db` holds one ride per id and owner, each score is for
  something its ride was listed as, all that was ever listed is there still as a ride of that id and owner (so that a late rating finds
  its own), and scores are counted (`Sound`); while the process runs its memory equals it but for the
  file number, which is ahead. `FilesInv`: a ride's files are numbered below the next number that the file
  hands out, an upload's are at or above it (`Numbered`, `UploadFiles`), so that what a crash leaves
  behind is overwritten before it is served; under a car's number there is the ride's car, or what there was room for, and it
  goes only with the files of a ride that is being replaced (`CarKept`). `BoardInv`: the server's memory, while it runs, has
  every result that was told ok, whatever became of the file; memory is empty while the process is down. For the refinement, what an upload does before `Save` is not seen, the save is one step of the book,
  and a crash or restart, before and after which the same `rmr.db` is served, is none. Assumed: `NoneApart`,
  that the absent ride, upload or listing is none of them.
* `BrowserJoinProofs`: `FilterAlwaysFits`, `OnlyThePicked`, `StripStaysTrue`, for any rooms, joins and switches,
  from one invariant, `JoinInv`: while the game searches for or joins a picked room the filter is on, what it
  found is that room or nothing, and without a filter no hunt for a picked room goes on. It holds but for
  the moment between a tick's reading and its acting, when the game stands still; each
  hook has to keep it on its own. `SwitchSettles` (`Settled`) by `SwitchInv`, what is known of sockets, cvar and
  request at every point of a reset, with what the update saw before others went on (`LookedOK`), for any number of requests. What
  holds depends on the burst: as long as the overlay has not cut in, what the update saw still is so; when it has, two
  requests are still sorted out, as the second finds the sockets as the first found them (`FirstFacts`); after three only the types
  and the order of the steps are known, which is the exception in `Settled`.
  `ClosesOnline` (`ClosedOnline`) follows from `LookedOK`.

Before each of these proofs TLC checked its invariant on the instance of the component's run.

Model-checked only: all liveness (`GetsIn`, `RoomsSplit`, `SwitchDone`, `FilterEnds`,
`GetsListed`), which under fairness is out of the prover's reach. The
three violations are single behaviours.

## 6. Abstractions

* Payloads, names, statistics, logs, ping and round trip times are left out.
* Times are left out of the relay's modules but for their order: a sweep may
  find a game silent when no datagram of it is in flight; a link may grow
  old at any time.
* Anonymous sessions (no session id) are in `relay_churn`; the code treats their
  address as their name and a NAT move makes them a new peer, so `StableVip` and
  `VipOwnership` are about games that send one, as the SDK does.
* In `RelayPeers` kicks, bans and the nick check are refusals that may befall any game
  at any time; when they do is `NickGate`, which in turn leaves vips out.
* `NickGate` has no signatures: a proof is one that `CheckTicket` and
  `CheckSignature` accept, for this relay. The ticket a client uses may be any;
  `NoTicket` is a master that is down or refuses. A client's thread is on time, and its host
  name is resolved within the pass; going offline and other servers are left out.
* Times are left out of the join but for whether a phase's deadline has passed; the ticks
  and the game's steps take turns, as they are one thread.
* In the listing the master's rate limit of announces is a lost announce, and tokens of
  probes, 32 random bits, do not meet.
* In the registry rate limits, the replay guard, the display form of a nick and
  cryptography are left out: a signature is its signer's, and a code is known to
  whom it was sent and to whom they tell it.

## 7. Not modelled

* Relay host lists, browser queries and target hints: views of the peer table that are computed
  per query, and a hint that narrows a list for a minute; the filter that decides is the game's (`BrowserJoin`).
* The relay's admin panel and mods HTTP server: I/O, but for the commands (`NickGate`). The
  download slots are four lines.
* Mod downloads (`mod_download.cpp`), left for later: what happens there is what the file
  system does with folders in use. Two windows may download the same mod into one
  temporary folder, and a second rename that fails leaves neither the old mod nor the new in its place.
* Of the identity client, the requests it forwards and its ticket cache; a code typed while there is no
  master is dropped (`identity_client.cpp:287`). In `NickRegistry` that is a request not sent.
* Of Rate My Ride and the leaderboards, reads, an `rmr.db` that cannot be written (the result of `Save` is
  not looked at) and the game's side of the rides; of the leaderboards the other aggregations and the hooks that collect
  results.
* Of the browser, the queries and tables of its window; of the online glue, hooks that set guest memory, menus and notices.
* The renderer (`gpu/`, `native_gfx/`), whose
  behaviour is numerics and device state; the mod loader's file formats; hooks on
  recompiled guest functions, whose meaning is the original game's memory; menus,
  input and audio; shader packs, profiles, installer, boot screen and Discord
  presence, mostly I/O; vendored and generated code.

The SDK that carries the
online client is not in this repository: it is modelled from what the relay and
`larecomp_net_protocol.h` expect of it.
