# NanoTorrent: models, checks and proofs

NanoTorrent distributes one small file among wireless sensor nodes. A client
(`src/peer`, C on Contiki) asks a tracker (`src/tracker`, Java) for other
clients, connects to some of them over UDP and fetches the pieces of the file
it is missing. This directory holds TLA+ models of the clients, of groups of
clients over a lossy network, of the tracker and its members, of torrent
descriptors and of the bit sets, the configurations that check them with TLC,
and proofs, for every value of the constants, of the two refinements and of all
safety properties that hold in the runs but one (`WordExact`).

Contents: [the system](#the-system), [hazards](#hazards),
[modules](#modules-and-how-they-correspond-to-the-code), [runs](#runs),
[findings](#findings), [refinement](#refinement), [fairness](#fairness), [proofs](#proofs),
[what is left out](#what-is-not-modelled), [plan](#plan).

## The system

| component | state | operations | talks to |
|---|---|---|---|
| peer process, `peer/peer.c` | list of connections taken from two pools (`MAX_IN`, `MAX_OUT`), per connection the remote `have`, at most one request (piece, offset, retry) and a heartbeat; the shared `pending_pieces`; `posted_seeding_event`; a heartbeat timer | UDP callback (`handle_message`: CLOSE, HAVE, DATA_REQUEST, DATA_REPLY), a pass of the process loop (drop, retry, heartbeat, post), `peer_connect`, init and shutdown | other clients by UDP, unicast and link-local multicast; the main process by the events *peer* and *seeding*; storage and selection by calls |
| piece storage, `peer/piece.c` | the file, `own_have` | size, read, write, verify, verify_all | Coffee file system |
| piece selection, `peer/piece-select.c` | `piece_counts` | update_have, next piece (rarest first, end game) | called by the peer process |
| retry, `peer/retry.c` | counter, limit, timer, callbacks | start, stop, next, check, process | used by the peer and the swarm process |
| swarm process, `peer/swarm.c` | `swarm_state`, the announce retry and the event it repeats, the refresh timer, the list of known peers | join when there is a global address, retry, refresh, handle a reply, leave | tracker by UDP; main process by the event *swarm* |
| main process, `peer/nanotorrent.c` | the point it waits at, the seed timer | start everything, connect known peers, replace lost ones, exit, stop the others | all of the above, through the Contiki event queue |
| tracker, `Tracker.java`, `TrackedTorrent.java`, `CommandLine.java` | per torrent a `HashMap` of peers with the time of their last announce | answer STARTED, COMPLETED, STOPPED, REFRESH; purge silent peers | clients by UDP; two threads share the tables without a lock |
| bit sets, `bitset.h`, `bitset.c` | none: macros and a count on a `uint32_t` | get, set, clear, diff, contains, count | own_have, pending_pieces, the HAVE of every message |
| codecs, `peer/pack`, `tracker/.../protocol` | none | byte layout of messages and descriptors | - |
| torrent creation, `torrent.c`, `nanogen.c` | the file position, the digests so far | cut a file into pieces and digest them, pack the descriptor | storage, SHA-1; clients by the descriptor |
| demo, `nanoread.c`, `fs.c`, crypto, Wireshark plug-ins | - | I/O and third-party code | - |

How they interact. Within a client everything runs on one cooperative
scheduler: a UDP callback, or a process between two `PROCESS_WAIT_EVENT_UNTIL`,
is never interrupted. What can go wrong comes from the order of these pieces: a
timer expires at any time but its TIMER event is handled later, after whatever
callbacks come first; an event that is posted is delivered later, and the
receiver then reads the *current* state of the sender; `process_post` fails
when the queue is full. Between clients and to the tracker all messages are
UDP datagrams that may be lost, repeated and reordered, and replies carry no
request id. In the tracker the receiver and the purge thread interleave freely.

What makes each component correct:

* **peer process**: `pending_pieces` and the requests agree; a piece is
  requested from one peer at a time unless in end-game mode, and only from a
  peer that has it; no request survives its piece; every request is retried or
  given up; a silent peer is dropped; the seeding event comes.
* **storage**: a piece of `own_have` is complete and stays so; the bytes below a
  request's offset are there.
* **selection**: `piece_counts` counts the connections with the piece.
* **swarm and main process**: a reply is understood; the process never sleeps
  without a timer; the main process learns of every change that it must react
  to; known peers replace lost connections.
* **a group of clients**: a piece that one has reaches all; nobody believes of
  another what is not so; nobody asks in vain.
* **client and tracker**: a member stays in the table as long as one of a number
  of announces arrives, returns to it when it fell out, and is forgotten when
  it is gone.
* **bit sets**: a word says what the set says, after any sequence of changes.
* **torrent creation**: every byte is digested once; a client derives from the
  descriptor the pieces that were digested; what does not fit is refused.
* **tracker**: replies name other peers, no more than asked; an announced peer
  is tracked; silent peers go and only they go.

## Hazards

`PROJECT.json` lists them at their lines with the properties that would catch
them. The families: the shared pending set among rival requests, give-up,
disconnect and restart; duplicates and late data against the request offset;
stale HAVE messages; 8-bit counters and offsets; writes that fail between
creating a request and starting its retry; short reads and last pieces that
are full, partial or empty; timers that expire while a pass runs; a stopped timer
that counts as expired (`retry.c:54-57`); a full event queue; replies that
answer an earlier request; which of the refresh, the last retry and the purge
comes first; a tracker that lost its table; unlocked tables in the tracker;
shifts of an `int` by as many bits as it has.

Six hazards have no property. In five the code goes wrong, or nothing makes up
for what goes wrong, and nothing in the repository says otherwise that a run
could quote; the models take the same steps:

* a failing write of overheard data leaves a request without a retry
  (`peer.c:618`; `RequestKeptAlive` fails with `FlakyStorage` TRUE);
* a client that never joined posts no event when it gives up (`swarm.c:263`);
* the reply to a join comes before the main process has seen the event of
  joining, which then exits (`nanotorrent.c:139`, `WaitJoining`);
* an event is lost to a full queue (`swarm.c:225`; the history field `lost`, which
  the properties about events except);
* an exception ends the purging (`Tracker.java:117`; `PurgerThrows`, which
  `StalePurged` excepts).

The sixth: a local peer that the tracker named as well is known by two addresses
(`config.h:43`). Nothing says that the default configuration should treat them
as one, and to `Peer` they are two peers.

## Modules and how they correspond to the code

`PROJECT.json` maps every definition to its lines. Definitions whose comment
begins with *Mutant* are not part of the models: each is a variant of the
definition that follows it, with a plausible bug, and is used to confirm that a
property notices that bug.

* **Retry**: the counter of `retry.c` as a record and five operators. That a
  stopped `etimer` counts as expired is kept (`RetryDue`), since finding 3
  follows from it.
* **PeerNode**: one client as a record, no variables. Each function of
  `peer.c`, `piece.c` and `piece-select.c` that changes state is an operator
  from a client to the *set* of clients it may leave behind; the set has more
  than one member where the code depends on the order of a list, on a file
  operation, or on room in the event queue. `out` collects the messages sent.
  File contents are abstracted to the set of bytes of each piece that hold the
  distributed data, so that a digest matches exactly when the set is full
  (SHA-1 taken as collision free). The narrowing of a `uint16_t` offset to
  `uint8_t` is `Narrow`. `Messages` are the messages a client can receive from
  others that run this code (data replies carry true data, and only data that
  the sender's own `piece_read` can return), `Hearing` is what they can make of
  it.
* **Peer** (EXTENDS PeerNode): one client in an open environment. `Receive(a)`
  is the UDP callback with any of `Messages`;
  `Connect` is the main process; `ConnHeartbeatExpires`, `RequestTimerExpires`
  and `HeartbeatExpires` mark a timer and queue a TIMER event; `StartPass`,
  `Visit`, `EndPass` are one pass of the loop, during which nothing else runs.
  `Restart` is `nanotorrent_stop` then `nanotorrent_start`. Loss, duplication
  and reordering need no actions: any message may or may not come at any time.
* **Exchange** (EXTENDS PeerNode): several clients and the datagrams under way
  between them (`net`, by sender and receiver). `Deliver` is the UDP callback,
  which may leave a copy to come again; `Lose` drops one; what is under way is
  a set, so it overtakes. `Hears` says whose datagrams can reach whom. `Pass`
  is one pass of the process loop with all connections, in any order
  (`VisitAll`, by the recursive function `Visiting`), and the timers it finds expired: no handler reads a timer, so that an expiry may be
  noted by the pass that handles it, and that such a pass always comes is what
  `Peer` checks (`ExpirySeen`). `Connect` is the main process with a peer that
  the tracker named; local peers find each other by multicast. `Restart` is
  that of `Peer`.
* **Spread** and **Registry**: what a group of clients and what the tracker
  promises, see [refinement](#refinement).
* **SwarmNode**: what `swarm.c` does to the state of a client (a record, no
  variables): one operator per function, from a client to the set of clients it
  may leave, since posting an event may fail (`Post`). Two modules use it.
* **Swarm** (EXTENDS SwarmNode): swarm process, main process and the event queue
  between them (`client.inbox`), and any tracker. `SwarmRuns` is one run of the
  swarm process from a wait to the next wait, caused by its TIMER event
  (`SwarmTick`) or by a broadcast event (`SwarmWoken`); `MainHandles` delivers
  one event to the main process; `Reply` is the socket callback with any list of
  peers, any time after a request was sent; the history field `lost` remembers
  an event that was not posted, for the properties that a full queue breaks;
  `OpenConn`, `DropConn` and `CompletePiece` are what the peer process does as
  far as the main process sees it; `Stop` is `nanotorrent_stop`.
* **Membership** (EXTENDS SwarmNode): the swarm process of one client, its entry
  in the tracker's table, the datagrams between them and the clocks. `Advance`
  is the passing of one unit of time; it waits for expired timers and for
  datagrams, which take less than a unit. `Timed` sets the retry timer to the
  exponential back-off of `retry.c:25` and the refresh timer to its period.
  `HandleAnnounce` and `Purge` are `Tracker.java` with one client's entry,
  `RestartTracker` empties the table. Of the main process only its end is there:
  by itself (`MainEnds`; the swarm process goes on) or by `nanotorrent_stop`
  (`Stop`). `SwarmRuns` also runs when no timer of its own expired (`Woken`):
  events for all processes wake it, and a reply makes its retry due.
* **Tracker**: one torrent. `receiver` and `purger` are the two threads with
  what they have read; each access to the table is a step. Copying a `HashMap`
  while it changes is a data race: `Copies` gives all copies that may result,
  and with `FailFast` the copy may throw, which ends the thread; so may the
  step to the next torrent of the sweep. `Register` maps the two threads to
  `Registry`.
* **Torrent**: the life of a descriptor. `ReadChunk` and `EndPiece` are the
  loops of `nanotorrent_piece_digest` and `nanotorrent_torrent_info_create`,
  `Publish` packs the result, `Load` unpacks it in a client, `VerifyAll` is the
  client that digests its own file by `PieceOffset` and `PieceSize`. A digest
  is the set of file positions that went into it. `uint16_t` fields are reduced
  modulo `SizeRange` and packed as two bytes.
* **Have** (EXTENDS Torrent): `own_have` as the word it is, next to the set of
  pieces it stands for. The client that loaded the descriptor opens its file
  with some pieces in place (`OpenFile`) and completes them or loses them again
  (`SetComplete`). `Shifted` is `1 << i` of an `int`: exact, then the sign bit,
  then undefined (the outcomes of processors that mask the shift, and of those
  that shift out). `Count` is the sum of `bitset.c` step by step, `PackWord` and
  `UnpackWord` the four bytes of a message.
* **NodeProofs**: what each operator of `PeerNode` keeps of a client.
  **PeerProofs** and **ExchangeProofs** lift it to the steps of `Peer` and
  `Exchange`.
* **SwarmNodeProofs**: the same for the operators of `SwarmNode`, lifted by
  **SwarmProofs** and **MembershipProofs**.
* **TrackerProofs**, **TorrentProofs**: theorems about `Tracker` and `Torrent`.
* **MCPeer**, **MCExchange**, **MCSwarm**, **MCTracker**: names, symmetry and
  small groups for TLC.

## Runs

| run | question | states | result |
|---|---|---|---|
| `peer` | do the peer process's tables stay consistent, whatever three peers send and whenever timers fire; are silent peers dropped? | 1,114,011 | holds |
| `peer_pending` | is `pending_pieces` right after a restart? | | violated |
| `peer_wide` | do pieces longer than an 8-bit offset work? | | violated |
| `exchange` | with three clients, restarts and a lossy network: do pieces only spread, is no request in vain, does `Peer` know all that can arrive, are tables sound? | 298,084 | holds |
| `exchange_live` | does the piece arrive everywhere, is the seeding event posted? | 2,756 | holds |
| `swarm` | are replies told apart, does the process stay awake, are lost peers replaced, is a lost swarm noticed? | 206,582 | holds |
| `membership` | is a silent client forgotten in time, and only a silent one; does a member return to the table of a tracker that lost it? | 243,225 | holds |
| `membership_last` | does a member leave only unanswered? | | violated |
| `membership_silent` | does a member notice that its tracker is silent? | | violated |
| `tracker` | do the two threads, racing, do with the table what one list would allow, and do the silent go? | 64,583 | holds |
| `tracker_race` | is a peer tracked when it is answered? | | violated |
| `torrent` | is each byte digested once, is the descriptor exact, does a copy of the file verify; is the word of pieces the set? | 53,624 | holds |

Bounds, and why they suffice.

* `peer`: three addresses are needed to have an incoming and two outgoing
  connections at once, two rivals for a piece and a third party whose data is
  overheard. Two pieces, one of three bytes and one of a single byte, with one
  byte per message: a piece has a first, a middle and a last message, so gaps,
  duplicates and the end of a piece differ, and the short last piece is
  covered. With `EndGamePercent` 50 the end-game begins with the first piece.
  `MaxRetries` 2 has a first send, a retry and a give-up. `MaxEvents` 1 makes a
  second expiry wait for the queue. `LocalAddr` is empty: it only decides who
  gets a message, and messages sent are not judged. The addresses are
  symmetric: no definition tells them apart.
  `Unreadable` is the longer piece: its digest may fail though it is complete,
  because it cannot be read. So late data that made the client verify the piece
  again when it holds it could take the piece away (`VerifiedForever`).
  `FlakyStorage` is FALSE, since `RequestKeptAlive` does not hold otherwise.
* `OffsetRange` is 256 where pieces are short; `peer_wide` scales both down, to
  2 and to a piece of 4 bytes.
* `exchange`: three clients in a line are the smallest group in which data must
  be passed on, is overheard by one whom it was not meant for, and comes from
  one that a client cannot answer. What several pieces do within a client is
  `peer`'s question; here one piece of one message, one connection of each kind
  and one datagram per direction leave room for restarts at any moment. Messages
  could carry two bytes (`MaxPayload`), so that a reply that returned more than
  the piece has would show. A link
  that would hold two datagrams loses the older or the newer, and any may come
  again.
* `exchange_live` has two clients with global addresses that the main process
  connects, and no more, because the liveness check is costly; one message per
  piece, because strong fairness of delivery does not tell messages for
  different offsets apart.
* `swarm`: two peers and a list of two let a reply bring nobody, one or both in
  either order and the list outlive the free slots (`MaxOut` 1). `MaxRetries` 2
  has a first send, a retry and a give-up, each with the timer running or
  stopped by a reply. `MaxInbox` 2 bounds what the environment queues, not what
  the handlers post.
* `membership`: the program's periods are 3, 60, 300 and 120 seconds, with five
  retries. The last of them goes out after 45 s, the refresh comes after 60 s
  and giving up after 93 s; a peer is old after 5 refreshes, and purges are 2
  refreshes apart. The run keeps these: 3 retries of 1, 2 and 4 units, the last
  one after 3, a refresh after 5, giving up after 7, `MaxAge` 25, `PurgePeriod`
  10. With the program's own periods in units of 3 s (5, 1, 20, 100, 40) the
  invariants were checked as well, once: 9.7 million states, they hold.
  `membership_last` uses the program's own periods. `membership_silent` uses the
  scaled ones: what matters is that all waits take longer than a refresh period,
  7 > 5 as 93 > 60. Wake-ups from outside and repeated datagrams are off, so that
  they are not to blame.
* `torrent`: `Base` 8 makes a `uint16_t` end at 63, beyond `MaxLength` 24, so
  that every file has an exact descriptor or none. With six indices and every
  piece size there are files with none, one and several pieces, last pieces
  full, partial and empty, and refused files. `BufferSize` 3 reads most pieces
  in several chunks of any size. A word of two bytes and an `int` of 5 bits put
  the end of the `int` within the six indices: with 4 pieces and less the shifts
  are exact, with 5 they are not.
* `tracker`: three clients and `NumWant` 1: a requester, a peer that is chosen
  and one that is not, any of them being purged. `tracker_race` needs two.

`swarm` switches the deadlock check off: `nanotorrent_stop` and the exits of the
processes really end the system. So does `torrent`, whose steps end with a
refusal or a failure, and `tracker`, where exceptions can end both threads.

Every property of a passing run was confirmed against a variant of a
definition that violates it (`mutants` in `PROJECT.json`).

## Findings

Each is a run that checks one statement of the repository and violates it; the
trace TLC prints is the scenario. Details and quotes are in `PROJECT.json`.

1. `peer.c:70` - `peer_init` does not reset `pending_pieces`: after a restart a
   piece can stay locked, or `find_request` returns NULL (`peer_pending`).
2. `piece.c:147` - offsets in a piece are narrowed to 8 bits: pieces above 256
   bytes never verify, so the 64 KB of the text cannot be reached
   (`peer_wide`).
3. `swarm.c:196` - a reply to the last retry does not prevent leaving at the next
   refresh (`membership_last`).
4. `swarm.c:382` - a refresh every 60 s restarts retries that take
   3+6+12+24+48 = 93 s (`config.h:96-106`), so a member never gives up and never
   tells the main process that the tracker is silent, which
   `implementation.tex:79` promises (`membership_silent`). `SilenceOutlasted` proves
   it for all periods of that kind.
5. `Tracker.java:120` - check and removal are two steps: the purge finds a peer
   old whose announce is just being handled, removes its entry, and the receiver
   renews and answers with an entry that is no longer in the table
   (`tracker_race`).

Disagreements with the text that are no runs of their own:

* `peer.c:452` - a request that was given up goes to the same connection again,
  and its pending bit keeps other connections from being asked: a seed whose
  heartbeats arrive and which hears no request starves a client next to another
  seed. `implementation.tex:99` says that "it is not desirable having to wait on
  just one peer to deliver the last piece", and has the end-game mode for it,
  which begins at 80 % (`config.h:71`): of up to four pieces, all but one are
  less. `AllServed` in `exchange_live`, where everybody hears everybody, is not
  affected.
* `torrent.c:56-63` - "Make sure we reached the end of the file": the loop knows
  the end only by an empty read, and after the 32nd piece it does not read again.
  A file that needs exactly 32 pieces, the last one partial or full, is refused as
  "Too many pieces", while `config.h:73-76` calls 32 the "Maximum number of pieces
  in a torrent". `DescriptorExact` promises descriptors for fewer pieces only.
  `IndexKept` shows what the refusal prevents: with 32 pieces the mask of
  `piece.c:80` would be undefined.
* `peer.c:618` - overheard data whose write fails leaves a request without a
  retry, which the next pass finds due and whose callback reads through NULL
  (`peer.c:444`). `RequestKeptAlive` with `FlakyStorage` TRUE shows it.
* `swarm.c:263` - a client that was not yet a member gives up without an event;
  the main process waits at `nanotorrent.c:150` for ever and its branch "Failed
  to join swarm" is never reached. `implementation.tex:83` says that "The main
  process is notified whenever the membership state changes".
* `swarm.c:224` - the result of `process_post` is ignored, so with a full event
  queue the main process learns nothing of a lost swarm; `LossPending`,
  `LossHandled` and `ReplacementPending` say what holds as long as no event was
  lost.
* `piece.c:80` - a full word of as many pieces as an `int` has bits is not
  `(1 << num_pieces) - 1`. Without its condition on the number of pieces
  `WordExact` fails in the run `torrent`. On the AVR motes, where an `int` has
  16 bits, that is 16 pieces, while `config.h:76` allows 32.

## Refinement

Two abstract specifications say what a part of the system promises without
saying how; `Exchange` and `Tracker` are shown to implement them, by TLC on the
runs and by proof for every value of the constants.

`Spread`: a client has pieces and believes others to have pieces; in one step one
client may gain one piece that some other client has, and hear of, or forget, the
pieces of others; nothing is ever taken from a client. `Exchange` implements it
under the mapping

    has[c] = node[c].own        seen[c][a] = node[c].have[a]

(`PiecesSpread`, checked with restarts, loss, repetition and reordering). What
makes it hard is on the side of the code: the view of another client is the last
message that happened to arrive, from before or after its restart, and overheard
data creates views without any exchange of greetings; a restart reads the pieces
back from the file. `Spread!Distributed`, that a piece which somebody has ends
up with everybody, is the liveness half (`AllServed`), under the fairness below.

`Registry`: one list of peers. An announce enters its sender, hears it or, with
STOPPED, removes it, and only then is answered; the purge may remove whoever was
silent when it began, and nobody else; an answer names at most `NumWant` others,
each of them listed at some time while the list was read, and if it names fewer,
then all who were listed throughout. `Tracker` implements it (`RegisterKept`)
under the mapping

    listed = tracked      silent = stale      due = old
    announce = what the receiver is doing (Stage), for whom
    ever = tracked \cup torn.receiver, always = tracked \ torn.receiver, while it copies
    named = receiver.others

Here it is hard because the table has no lock: the receiver uses what it looked
up after the purge may have removed it, the purge removes by address what it
found old before the receiver renewed it, and a copy made while the other thread
removes entries may hold them or not. `Registry` is as weak as that race makes
it: it does not promise that a peer whose announce is answered is listed
(finding 5).

## Fairness

Only what Contiki and the executor provide is assumed.

* Swarm: an armed timer expires (the clock runs) and a process that has an event
  runs: weak fairness of the timers, of `MainHandles` and of `SwarmTick`. None of these is disabled by another
  process for ever; Contiki polls and serves its queue in turn.
* The threads of the tracker run: weak fairness of `Receiver` and `Purger`;
  the purger's includes that the schedule starts again.
* Exchange: heartbeats go out and retries expire because the motes' clocks run:
  weak fairness of a pass with a due retry (`RetryPass`) and of connecting, which
  the main process does at each event of the swarm. A pass with the heartbeat and
  no connection dropped (`HeartbeatPass`) has strong fairness, because a
  connection outlives three periods of the other side (`config.h`), so that
  between drops heartbeats go out. Of the messages that are sent again and again
  some arrive: strong fairness of `Deliver`, per link for HAVE, and over all
  links for REQUEST and REPLY. `PostingSpec` adds that the event queue is not
  full at every heartbeat.
* Membership: clocks, processes with an expired timer and the purge thread run
  (weak fairness), a datagram does not stay under way, and of the announces that are sent again and
  again some arrive (strong fairness of `HandleAnnounce`). Stopping, ending,
  restarting either side, and replies have none.
* Nothing is assumed, in `swarm`, of the tracker; anywhere, of restarts and of
  wake-ups by broadcast events; of replies of the tracker in `membership`.

Under it: `AllServed`, `SeedingAnnounced` (run `exchange_live`), `LossHandled`
(run `swarm`), `BackInTable` (run `membership`), `StalePurged` (run `tracker`, as
long as no exception has ended the purging).

## Proofs

`tlapm <module>.tla`, for each of the eight modules whose name ends in `Proofs`,
checks them to the last leaf. The theorems, by the property of the runs that
they state for every value of the constants:

| module | theorems | besides the `ASSUME`s of the models |
|---|---|---|
| PeerProofs | with restarts: `TypeCorrect`, `RequestsCorrect`, `OwnCorrect`, `CountsCorrect`, `NoDuplicates`, `ServableCorrect`, `ExpiryCorrect`, `SilentCorrect`; without: `PendingCorrect`, `VerifiedStays` | |
| | `PrefixCorrect`, with restarts | `PieceLength <= OffsetRange` |
| | `KeptAliveCorrect`, with restarts | `~FlakyStorage` |
| | `VerifiedRestarted`, with restarts | `Unreadable = {}` |
| | `NoBackwards`, with restarts | `PieceLength <= OffsetRange`, `~FlakyStorage` |
| ExchangeProofs | with restarts: `TypeCorrect`, `CleanRestarts`, `EnvironmentCovered`; without: `HoldersCorrect`, `Refinement` | |
| | `HoldersRestarted` | `Unreadable = {}` |
| | `RestartRefinement` | `PieceLength <= OffsetRange`, `~FlakyStorage`, `Unreadable = {}` |
| SwarmProofs | `TypeCorrect`, `EventTells`, `DrivenAlways`, `LossTold`, `ReplacementTold` | |
| MembershipProofs | `TypeCorrect`, `Forgotten` | |
| | `OldUnheard` | `TriesFit` |
| | `SilenceOutlasted` | `TriesOutlast` |
| TrackerProofs | `TrackerTypeCorrect`, `RepliesCorrect`, `RegistryImplemented`, `SweepsCorrect` | |
| | `AnnouncedWhenApart` | no sweep while a request is handled (`[]Apart`) |
| TorrentProofs | `TorrentTypeCorrect`, `DescriptorCorrect`, `IndexKept`, `CopySeeds`, `PartitionCorrect` | |

The `ASSUME`s of the models are types, positive limits and finite sets of
addresses, and three facts: a torrent has 1 to 31 pieces, the last one not empty
(`TorrentAssumption`); the multicast address is nobody's (`MulticastAssumption`);
a peer is not old before its first refresh (`RefreshPeriod <= MaxAge` in
`ClockAssumption`; 60 s in `config.h:106`, 5 minutes in `CommandLine.java:19`).
Every inductive invariant was checked by TLC on the constants of the runs before
it was proved.

What the last column adds is where the code needs it, and each has a run or a
trace on the other side. `PieceLength <= OffsetRange` says that a `uint8_t`
reaches every byte of a piece (`piece.c:107`, `piece.c:119`); without it the
property is false (finding 2). `~FlakyStorage` says that `piece_read` and
`piece_write` do not fail: a failed write leaves a request without a retry (see
[findings](#findings)). `Unreadable = {}` says that `piece_verify` can read a piece
that is in the file: at a restart a failure hides a piece of the client's own
file, so that others ask for it in vain. Where these fail the theorems without
the entry hold all the same.

**NodeProofs and Peer.** `Core` is what every operator of `PeerNode` keeps, even
across a restart: counts, verified pieces, requests for missing pieces, each of
them pending. None of these is inductive by itself: data of a reply is written
to the piece of a request, so a verified piece is safe only if no request is for
a held piece; a request for overheard data is created only if the piece is not
pending, so every request must be pending; cancelling rivals removes the pending bit
without looking, so all rivals must be cancelled. `Good(s, t)` says that an
operator took a client `s` to a `t` that satisfies `Core` and keeps what was
verified.

`Firm` and `Sound` relate requests to the file and to the other peers: no rivals
before the end game, only peers that have the piece (in the world the messages
come from), only a prefix of the file, a retry that runs or is due. During a
handler they do not hold for every connection, since between `request_start` and
the end of `receive_data` a request has no bytes and perhaps no retry; so `Firm`
names the connections that are excused, and `Fine`, `Onward` and `Handled` say
what an operator leaves behind within a handler, and a handler as a whole. There
is one lemma per operator, in the order of the calls. `LastMissing` (the last
byte of a missing piece is missing) is why completing a piece cannot go
unnoticed when bytes are written in order.

`Inv` of PeerProofs adds the two facts about timers and passes, `ExpirySeen` and
`SilentDropped`; it is an invariant of `RestartSpec`. `PendingMatches` is not part
of it, since a restart breaks it (finding 1): every step but a restart preserves
it beside `Inv` (`NextInv`). So the bits that a restart leaves behind do no
other harm in the model: they keep pieces from being requested, and all the other
properties of a client survive any number of restarts, up to the dereferenced
NULL, whose outcome is a choice of the model (below). What a restart can do
beyond this is lose sight of a verified piece, when reading it back fails, which is why `VerifiedRestarted` has
`Unreadable = {}`. That late data does not do so (`VerifiedStays`) needs no such
condition: it never gets to the verification, because no request is for a piece
that is held.

**Exchange.** The invariant is relative to a world `W`, the pieces each client
may be believed to have: `Fits(node, net, W)` says that each client is `Sound` in
`W`, that each datagram claims no more for its sender than `W`, and that a
REQUEST is for what `W` gives its receiver. With all pieces as the world it gives
types and `RestartsClean`, under restarts and failing storage; with
`OwnOf(node)`, the pieces that the clients hold, it gives `RequestsMeetHolders`
and the mapping to `Spread`. A step moves one client, which gains at most one
piece, one that the sender of the datagram has, and learns what that sender had
when it sent; worlds only grow, so what is under way stays true. A restart reads
the pieces back from the file; `WholeInv` adds that the file holds no complete
piece its client does not know of, so that a restart gains none. The pass
over all connections is a recursive function over a finite set: that it is
defined, and that what holds of each visit holds of all, is proved by taking the
smallest set for which it fails (`VisitingDefined`, `VisitingSteps`).

`CleanRestarts` says in `Exchange` what the theorems of Peer say of one client.
`EnvironmentCovered` ties the two together: Peer leaves its environment open
and assumes that what arrives is one of `Messages`; whatever a datagram
under way in `Exchange` does to its receiver, one of `Messages` does as well. The
argument: what is sent is `Honest` (a reply carries what the sender's
`piece_read` returned for a piece it had), it stays so while it is under way, and
a message and what is `Heard` of it are `Alike` to every handler but for what the
handler sends (one lemma per handler, up to `HandleMessageAlike`). It is where a
reply longer than its piece, or for a piece that the sender claims no longer,
would show.

**SwarmNodeProofs and Swarm.** `Joins` ties the announce event to the state and
says that a client that joins has tries left; `StepsTo` says that a handler keeps
this and informs the main process (`Informs`: every queued event stays queued,
and leaving or a new list of peers is told, unless the queue was full). In
SwarmProofs `Driven` says what the place where the process waits tells of the
client: `SwarmDriven` is not inductive without it, because a reply stops the
retry, and only the retry's being due makes the next TIMER event run a loop that
sets the refresh timer. `ReplacementPending` needs `Pools` (no more connections
than slots) and `PoppedFills`: the number of peers the main process takes from
the list fills the free slots or empties the list.

**Membership.** `PowersDouble` and `BackOffs` are the arithmetic of the
exponential back-off, from the number of subsets of a finite set, since the
provers know nothing of powers. `PurgeDue` (the age and the time until the next
purge never exceed their sum at the last moment an entry is spared) gives
`ForgottenInTime`. For the other two, the periods of the program matter, as
conditions on the constants:

* `TriesOutlast == RefreshPeriod < BackOff(MaxRetries) - RetryTimeout`: 60 s and
  3 * 2^5 - 3 = 93 s. `Outlasting` says of a member that waits for an answer that
  its refresh timer will expire before its tries are used up. `SilenceOutlasted`,
  that no member leaves unanswered, follows: finding 4 for all such periods.
* `TriesFit == BackOff(MaxRetries - 1) - RetryTimeout < RefreshPeriod`: the last
  try goes out after 3 * 2^4 - 3 = 45 s. `Unheard` says that a member in the table
  was heard since its last refresh (`Heard`), or that for some number `k` of
  rounds since then every try was missed (`Silent(k)`), and ties its age and both
  timers to `k`. That a refresh begins round `k + 1` only after all the tries of
  round `k` is where `TriesFit` enters.

Both hold of `config.h` and of the constants of the runs, with any wake-ups,
repeated datagrams, restarts of the tracker and late purges.

**Tracker.** `ReplySane` and the mapping to `Registry` rest on what each thread
has read and still means to use: `ReceiverReads` (the requester is a client;
nobody who stops gets as far as the choice of candidates) and `PurgerReads`
(during a sweep nobody becomes stale in its eyes, so whoever is found stale was
stale when it started). Each step of the receiver is one of `Registry`, or none
when it only looks a peer up (`ReceiverKept`); of the purge only the start of a
sweep and a removal are (`PurgerKept`): a removal during a copy leaves what the
copy may hold as it is and takes the victim from what it must hold. They hold for
any number of clients and any `NumWant`. `SweepsCorrect` says in the tracker's
own terms whom a sweep removes. `AnnouncedWhenApart` is the other side of finding
5: in behaviours in which sweeps and requests take turns, as they would under
one lock, an answered peer is tracked; the race is all that is in the way.

**Torrent.** Assumed: `SizeAssumption`, of which the essential part is that the
file is shorter than 2^16 bytes, and `Init`, which leaves out a piece size of 0.
`nanogen` checks neither; it then describes another file without a warning.
The inductive invariant gives the digested pieces their closed form
(`AllCut`: piece *i* is `[i * pieceSize, (i + 1) * pieceSize)` cut at the end of
the file), says how far they reach while the file is read (`Progress`), that
they fit when it is done (`Complete`, `Refused`) and that descriptor and client
carry the same numbers (`Sent`). The lemmas it rests on: `Uint16RoundTrip` and
`InfoRoundTrip` (unpacking inverts packing), `LastPiece` (the remainder of the
last piece) and `StoredIsCut` (the client's geometry is the one the pieces were
cut by). `DescriptorCorrect` and `IndexKept` are `PeerNode`'s `TorrentAssumption` for a
file that is not empty.

**Model-checked only.** Liveness and fairness are out of this prover's reach:
`AllServed`, `SeedingAnnounced`, `LossHandled`, `BackInTable`, `StalePurged`.
`WordExact` is about the bitwise operators of `Have`, which none of the provers
knows: a module with a proof cannot use them. `TypeOK`, `DescriptorExact`,
`CopyIsSeed` and `PiecesPartition` are proved of `Torrent`, and the run checks
them in `Have`, which extends it.

## What is not modelled

* The byte layout of the other fields of peer and announce messages: fields of
  the modelled widths in a fixed order.
* More than one address per peer (`config.h:43`, above).
* In Membership: datagrams that take longer than 3 seconds (so a reply after the
  client gave up, which Swarm has), several clients (their
  entries are independent, their purge is Tracker's subject), and a second start
  while the swarm process of an earlier one still runs.
* Descriptors of files of 2^16 bytes or more, or with a piece size of 0:
  `file_size` would be the length modulo 2^16, and one empty piece would stand
  for the file. The tracker's address in the descriptor and the info hash.
* Several torrents in the tracker and its console: torrents are independent,
  except that one that is added during a sweep makes it throw
  (`Tracker.java:111`), which `PurgerThrows` has.
* Null dereferences: undefined behaviour on the motes, which do not trap. The
  outcome kept is named in the comments of `ProcessRetry` and
  `ReceiveRequested`; a different outcome is out of scope.
* `nanotorrent_swarm_leave` and `nanotorrent_swarm_complete`: nothing calls
  them.
* SHA-1, file system glue, the demo, command line tools and Wireshark
  plug-ins: third-party code or straight-line I/O.
* Malformed messages: other peers run the same code.

## Plan

Done, in this order: Retry, PeerNode, Peer; Swarm; Tracker with TrackerProofs;
Torrent with TorrentProofs; Exchange with Spread; SwarmNode and Membership; Have;
NodeProofs with PeerProofs and ExchangeProofs; SwarmNodeProofs with SwarmProofs
and MembershipProofs; Peer with restarts and its environment; Registry.

Next, in this order:

1. **Have**: state its steps on sets and its steps on words apart, so that what
   does not need the bitwise operators (the bits that `SetComplete` changes are
   those of the pieces it names) can be proved without them.
2. **Membership with several clients**: replies that name the members, so that
   Swarm's arbitrary replies are shown to be `Registry`'s.
3. **Exchange and Peer**: that each client of Exchange implements Peer step by
   step, passes included, beyond what `EnvironmentCovered` says of messages.
