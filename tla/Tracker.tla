------------------------------- MODULE Tracker -------------------------------
(***************************************************************************)
(* The tracker (src/tracker/src/nanotracker): one torrent's table of peers *)
(* and the two threads of CommandLine that work on it without a lock, the  *)
(* ReceiveRunner, which answers announce requests, and the PurgeRunner,    *)
(* which every two minutes removes the peers that have not announced       *)
(* themselves for five.                                                    *)
(*                                                                         *)
(* Clients and network are open: any peer may announce anything at any     *)
(* time, so requests may be lost, repeated and reordered.  Time is the     *)
(* set `stale' of peers whose lastAnnounceTime lies before the minTime of  *)
(* the sweep that runs, or that would be started now.  PeerState is left   *)
(* out: its one reader, isValidCandidate, looks for STOPPED, which the     *)
(* receiver sets just before it removes the peer itself.  Without it the   *)
(* events other than STOPPED are one.                                      *)
(*                                                                         *)
(* The table is a java.util.HashMap.  Copying it while the other thread    *)
(* adds or removes an entry is a data race: the copy may hold the entry or *)
(* not, or the iterator may notice and throw, which ends the thread's work *)
(* for good.                                                               *)
(***************************************************************************)
EXTENDS Naturals, FiniteSets

CONSTANTS
    Client,      \* addresses of the clients
    NumWant,     \* number of peers a request asks for
    FailFast     \* whether a racing copy of the table may throw

ASSUME ClientAssumption == IsFiniteSet(Client)
ASSUME WantAssumption == NumWant \in Nat /\ FailFast \in BOOLEAN

VARIABLES
    tracked,   \* the keys of the table
    stale,     \* tracked peers with an old lastAnnounceTime
    receiver,  \* the ReceiveRunner: place, request, and what it has read
    purger,    \* the PurgeRunner: place, the peers to look at, the victim
    torn,      \* entries that changed while the other thread was copying
    old        \* the peers that were stale when the sweep started (history)

vars == <<tracked, stale, receiver, purger, torn, old>>

Nobody == "nobody"

TypeOK ==
    /\ tracked \subseteq Client
    /\ stale \subseteq tracked
    /\ receiver \in [at     : {"receive", "found", "missing", "update", "copy",
                               "copying", "reply", "dead"},
                     peer   : Client \cup {Nobody},
                     stop   : BOOLEAN,
                     others : SUBSET Client]
    /\ purger \in [at     : {"idle", "copying", "sweep", "remove", "dead"},
                   todo   : SUBSET Client,
                   victim : Client \cup {Nobody}]
    /\ torn \in [receiver : SUBSET Client, purger : SUBSET Client]
    /\ old \subseteq Client

-----------------------------------------------------------------------------
(* What a copy that raced with changes of the entries in changed may hold. *)
Copies(changed) == {(tracked \ changed) \cup s : s \in SUBSET changed}

(* The receiver, or the purger, adds or removes p.  *)
ReceiverChanges(p) ==
    torn' = IF purger.at = "copying" THEN [torn EXCEPT !.purger = @ \cup {p}] ELSE torn
PurgerChanges(p) ==
    torn' = IF receiver.at = "copying" THEN [torn EXCEPT !.receiver = @ \cup {p}] ELSE torn

-----------------------------------------------------------------------------
(* handleAnnounceRequest, up to getPeer. *)
Receive(p) ==
    /\ receiver.at = "receive"
    /\ \E stop \in BOOLEAN :
        receiver' = [at |-> IF p \in tracked THEN "found" ELSE "missing",
                     peer |-> p, stop |-> stop, others |-> {}]
    /\ UNCHANGED <<tracked, stale, purger, torn, old>>

(* Mutant: a peer that stops is not touched. *)
HandleStoppedUntouched ==
    /\ receiver.at \in {"found", "missing"} /\ receiver.stop
    /\ tracked' = tracked \ {receiver.peer}
    /\ receiver' = [receiver EXCEPT !.at = "reply"]
    /\ UNCHANGED <<stale, purger, torn, old>>

(* STOPPED: touch the peer, remove it, answer with an empty reply. *)
HandleStopped ==
    /\ receiver.at \in {"found", "missing"} /\ receiver.stop
    /\ tracked' = tracked \ {receiver.peer}
    /\ stale' = stale \ {receiver.peer}
    /\ receiver' = [receiver EXCEPT !.at = "reply"]
    /\ IF receiver.peer \in tracked THEN ReceiverChanges(receiver.peer) ELSE UNCHANGED torn
    /\ UNCHANGED <<purger, old>>

(* addPeer, when getPeer returned null. *)
AddPeer ==
    /\ receiver.at = "missing" /\ ~receiver.stop
    /\ tracked' = tracked \cup {receiver.peer}
    /\ receiver' = [receiver EXCEPT !.at = "update"]
    /\ ReceiverChanges(receiver.peer)
    /\ UNCHANGED <<stale, purger, old>>

KeepPeer ==
    /\ receiver.at = "found" /\ ~receiver.stop
    /\ receiver' = [receiver EXCEPT !.at = "update"]
    /\ UNCHANGED <<tracked, stale, purger, torn, old>>

(* setLastAnnounceTime, on the TrackedPeer read before: if it was purged   *)
(* since, nobody will see the update.                                      *)
UpdatePeer ==
    /\ receiver.at = "update"
    /\ stale' = stale \ {receiver.peer}
    /\ receiver' = [receiver EXCEPT !.at = "copy"]
    /\ UNCHANGED <<tracked, purger, torn, old>>

(* getCandidates copies the table, when any peers are wanted. *)
CopyCandidates ==
    /\ receiver.at = "copy"
    /\ receiver' = [receiver EXCEPT !.at = IF NumWant = 0 THEN "reply" ELSE "copying"]
    /\ torn' = [torn EXCEPT !.receiver = {}]
    /\ UNCHANGED <<tracked, stale, purger, old>>

(* collectPeers of the shuffled candidates: any NumWant of the others. *)
Collected(candidates) ==
    {s \in SUBSET candidates :
        /\ Cardinality(s) <= NumWant
        /\ Cardinality(s) < NumWant => s = candidates}

(* Mutant: the requester is a candidate too. *)
CollectPeersAll ==
    /\ receiver.at = "copying"
    /\ \E copy \in Copies(torn.receiver) : \E others \in Collected(copy) :
        receiver' = [receiver EXCEPT !.at = "reply", !.others = others]
    /\ UNCHANGED <<tracked, stale, purger, torn, old>>

CollectPeers ==
    /\ receiver.at = "copying"
    /\ \E copy \in Copies(torn.receiver) :
        \E others \in Collected(copy \ {receiver.peer}) :
            receiver' = [receiver EXCEPT !.at = "reply", !.others = others]
    /\ torn' = [torn EXCEPT !.receiver = {}]
    /\ UNCHANGED <<tracked, stale, purger, old>>

(* A ConcurrentModificationException ends the run method, which closes the *)
(* server.                                                                 *)
ReceiverThrows ==
    /\ FailFast /\ receiver.at = "copying" /\ torn.receiver # {}
    /\ receiver' = [receiver EXCEPT !.at = "dead"]
    /\ UNCHANGED <<tracked, stale, purger, torn, old>>

SendReply ==
    /\ receiver.at = "reply"
    /\ receiver' = [at |-> "receive", peer |-> Nobody, stop |-> FALSE, others |-> {}]
    /\ UNCHANGED <<tracked, stale, purger, torn, old>>

-----------------------------------------------------------------------------
(* purgePeers: fix minTime, copy the table, and look at each peer. *)
StartSweep ==
    /\ purger.at = "idle"
    /\ purger' = [purger EXCEPT !.at = "copying"]
    /\ old' = stale
    /\ UNCHANGED <<tracked, stale, receiver, torn>>

CopyPeers ==
    /\ purger.at = "copying"
    /\ \E copy \in Copies(torn.purger) :
        purger' = [purger EXCEPT !.at = "sweep", !.todo = copy]
    /\ torn' = [torn EXCEPT !.purger = {}]
    /\ UNCHANGED <<tracked, stale, receiver, old>>

(* The copy throws when a peer came or went meanwhile; going on to the next*)
(* torrent (Tracker.java:111) throws when one was added during this one's  *)
(* sweep.  An exception out of a task of a ScheduledExecutorService        *)
(* suppresses its further executions.                                      *)
PurgerThrows ==
    /\ FailFast
    /\ \/ purger.at = "copying" /\ torn.purger # {}
       \/ purger.at = "sweep" /\ purger.todo = {}
    /\ purger' = [purger EXCEPT !.at = "dead"]
    /\ UNCHANGED <<tracked, stale, receiver, torn, old>>

(* Mutant: the comparison with minTime is the wrong way round. *)
CheckPeerInverted(p) ==
    /\ purger.at = "sweep" /\ p \in purger.todo
    /\ purger' = [at     |-> IF p \in stale THEN "sweep" ELSE "remove",
                  todo   |-> purger.todo \ {p},
                  victim |-> IF p \in stale THEN Nobody ELSE p]
    /\ UNCHANGED <<tracked, stale, receiver, torn, old>>

(* A peer that was removed since was touched before, so it is not old. *)
CheckPeer(p) ==
    /\ purger.at = "sweep" /\ p \in purger.todo
    /\ purger' = [at     |-> IF p \in stale THEN "remove" ELSE "sweep",
                  todo   |-> purger.todo \ {p},
                  victim |-> IF p \in stale THEN p ELSE Nobody]
    /\ UNCHANGED <<tracked, stale, receiver, torn, old>>

(* removePeer takes the address: it removes whatever entry is there now. *)
RemovePeer ==
    /\ purger.at = "remove"
    /\ tracked' = tracked \ {purger.victim}
    /\ stale' = stale \ {purger.victim}
    /\ purger' = [purger EXCEPT !.at = "sweep", !.victim = Nobody]
    /\ IF purger.victim \in tracked THEN PurgerChanges(purger.victim) ELSE UNCHANGED torn
    /\ UNCHANGED <<receiver, old>>

EndSweep ==
    /\ purger.at = "sweep" /\ purger.todo = {}
    /\ purger' = [purger EXCEPT !.at = "idle"]
    /\ UNCHANGED <<tracked, stale, receiver, torn, old>>

-----------------------------------------------------------------------------
(* Five minutes pass without an announce of p.  A sweep compares with the  *)
(* minTime it started with, so nobody becomes stale in its eyes.  Handling *)
(* a request takes no five minutes: the one who sends it gets no older     *)
(* meanwhile than it was when the request came.                            *)
Age(p) ==
    /\ purger.at \in {"idle", "dead"}
    /\ p # receiver.peer \/ receiver.at = "dead"
    /\ p \in tracked \ stale
    /\ stale' = stale \cup {p}
    /\ UNCHANGED <<tracked, receiver, purger, torn, old>>

Receiver ==
    \/ HandleStopped \/ AddPeer \/ KeepPeer \/ UpdatePeer
    \/ CopyCandidates \/ CollectPeers \/ ReceiverThrows \/ SendReply

Purger ==
    \/ StartSweep \/ CopyPeers \/ PurgerThrows \/ RemovePeer \/ EndSweep
    \/ \E p \in Client : CheckPeer(p)

Init ==
    /\ tracked = {}
    /\ stale = {}
    /\ receiver = [at |-> "receive", peer |-> Nobody, stop |-> FALSE, others |-> {}]
    /\ purger = [at |-> "idle", todo |-> {}, victim |-> Nobody]
    /\ torn = [receiver |-> {}, purger |-> {}]
    /\ old = {}

Next == Receiver \/ Purger \/ \E p \in Client : Age(p) \/ Receive(p)

Spec == Init /\ [][Next]_vars

-----------------------------------------------------------------------------
(* A reply names other peers, at most as many as were asked for, and the   *)
(* reply to STOPPED names none, although the purge may have removed the    *)
(* requester or any candidate between two steps (Tracker.java:130-188).    *)
ReplySane ==
    /\ receiver.peer \notin receiver.others
    /\ Cardinality(receiver.others) <= NumWant
    /\ receiver.stop => receiver.others = {}

Stage ==
    CASE receiver.at = "receive" -> "none"
      [] receiver.at = "missing" -> "unlisted"
      [] receiver.at = "found"   -> "listed"
      [] receiver.at = "update"  -> "listed"
      [] receiver.at = "copy"    -> "heard"
      [] receiver.at = "copying" -> "reading"
      [] receiver.at = "reply"   -> "done"
      [] receiver.at = "dead"    -> "failed"

(* The entries that the copy being made may hold, and those it must.       *)
WhileCopying(set) == IF receiver.at = "copying" THEN set ELSE {}

Register == INSTANCE Registry WITH
    listed   <- tracked,
    silent   <- stale,
    due      <- old,
    announce <- [stage |-> Stage, peer |-> receiver.peer, stop |-> receiver.stop],
    ever     <- WhileCopying(tracked \cup torn.receiver),
    always   <- WhileCopying(tracked \ torn.receiver),
    named    <- receiver.others

(* The two threads, which share the table without a lock, keep what        *)
(* Registry promises of one list: nobody is removed but by its own STOPPED *)
(* or after it was silent when the sweep began (Tracker.java:105-128), and *)
(* a reply that races with the purge names nobody who was gone before the  *)
(* table was read and leaves out nobody who stayed (Tracker.java:130-188). *)
RegisterKept == Register!Spec

(* A peer whose announce is being answered is tracked: it stays            *)
(* discoverable for the near future (discovery.tex:33).                    *)
AnnouncedIsTracked ==
    receiver.at = "reply" /\ ~receiver.stop => receiver.peer \in tracked

-----------------------------------------------------------------------------
(* The executor's threads run, and the purge is started again and again.   *)
Fairness == WF_vars(Receiver) /\ WF_vars(Purger)

FairSpec == Spec /\ Fairness

(* A peer that stays silent is removed in the end (discovery.tex:12), as   *)
(* long as no exception has ended the purging.                             *)
StalePurged ==
    \A p \in Client : p \in stale ~> p \notin stale \/ purger.at = "dead"
=============================================================================
