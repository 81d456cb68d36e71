---------------------------- MODULE TrackerProofs ----------------------------
(***************************************************************************)
(* Proofs about the tracker, for any number of clients, any number of      *)
(* peers asked for, and copies of the table that may or may not throw.     *)
(*                                                                         *)
(* ReplySane is not inductive, and the steps that implement Registry rest  *)
(* on what each thread has read and still means to use (ReceiverReads,     *)
(* PurgerReads).                                                           *)
(***************************************************************************)
EXTENDS Tracker, FiniteSetTheorems, TLAPS

(* What the ReceiveRunner knows while it answers a request. *)
ReceiverReads ==
    /\ receiver.at # "receive" => receiver.peer \in Client
    /\ receiver.at \in {"update", "copy", "copying"} => ~receiver.stop
    /\ receiver.at # "reply" => receiver.others = {}

(* What the PurgeRunner knows during a sweep. *)
PurgerReads ==
    /\ purger.at \in {"copying", "sweep", "remove"} => stale \subseteq old
    /\ purger.at = "remove" => purger.victim \in old \cap Client

Inv == TypeOK /\ ReplySane /\ ReceiverReads /\ PurgerReads

-----------------------------------------------------------------------------
(* A copy of the table that races with changes holds clients only.         *)
LEMMA CopiesTypes ==
    ASSUME tracked \subseteq Client, NEW changed \in SUBSET Client,
           NEW copy \in Copies(changed)
    PROVE  copy \subseteq Client
BY DEF Copies

(* Noting a change for the other thread keeps torn well typed.             *)
LEMMA TornTypes ==
    ASSUME torn \in [receiver : SUBSET Client, purger : SUBSET Client],
           NEW p \in Client,
           ReceiverChanges(p) \/ PurgerChanges(p) \/ UNCHANGED torn
    PROVE  torn' \in [receiver : SUBSET Client, purger : SUBSET Client]
BY DEF ReceiverChanges, PurgerChanges

(* The invariant holds initially.                                          *)
LEMMA InitInv == Init => Inv
BY FS_EmptySet, WantAssumption
   DEF Init, Inv, TypeOK, ReplySane, ReceiverReads, PurgerReads

(* The steps of the ReceiveRunner preserve the invariant.                  *)
LEMMA ReceiverInv ==
    ASSUME Inv, Receiver \/ \E p \in Client : Receive(p)
    PROVE  Inv'
<1> USE DEF Inv, TypeOK, ReplySane, ReceiverReads, PurgerReads
<1>1. ASSUME NEW p \in Client, Receive(p) PROVE Inv'
  BY <1>1, FS_EmptySet, WantAssumption DEF Receive
<1>2. CASE HandleStopped
  <2>1. receiver.peer \in Client
    BY <1>2 DEF HandleStopped
  <2>2. torn' \in [receiver : SUBSET Client, purger : SUBSET Client]
    BY <1>2, <2>1, TornTypes DEF HandleStopped
  <2> QED BY <1>2, <2>1, <2>2 DEF HandleStopped
<1>3. CASE AddPeer
  <2>1. receiver.peer \in Client
    BY <1>3 DEF AddPeer
  <2>2. torn' \in [receiver : SUBSET Client, purger : SUBSET Client]
    BY <1>3, <2>1, TornTypes DEF AddPeer
  <2> QED BY <1>3, <2>1, <2>2 DEF AddPeer
<1>4. CASE KeepPeer
  BY <1>4 DEF KeepPeer
<1>5. CASE UpdatePeer
  BY <1>5 DEF UpdatePeer
<1>6. CASE CopyCandidates
  BY <1>6 DEF CopyCandidates
<1>7. CASE CollectPeers
  <2>1. PICK copy \in Copies(torn.receiver) :
          \E others \in Collected(copy \ {receiver.peer}) :
            receiver' = [receiver EXCEPT !.at = "reply", !.others = others]
    BY <1>7 DEF CollectPeers
  <2>2. PICK others \in Collected(copy \ {receiver.peer}) :
          receiver' = [receiver EXCEPT !.at = "reply", !.others = others]
    BY <2>1
  <2>3. copy \subseteq Client
    BY CopiesTypes
  <2>4. /\ others \subseteq Client \ {receiver.peer}
        /\ Cardinality(others) <= NumWant
    BY <2>3 DEF Collected
  <2> QED BY <1>7, <2>2, <2>4 DEF CollectPeers
<1>8. CASE ReceiverThrows
  BY <1>8 DEF ReceiverThrows
<1>9. CASE SendReply
  BY <1>9, FS_EmptySet, WantAssumption DEF SendReply
<1> QED
  BY <1>1, <1>2, <1>3, <1>4, <1>5, <1>6, <1>7, <1>8, <1>9 DEF Receiver

(* The steps of the PurgeRunner and the passing of time preserve it.       *)
LEMMA PurgerInv ==
    ASSUME Inv, Purger \/ \E p \in Client : Age(p)
    PROVE  Inv'
<1> USE DEF Inv, TypeOK, ReplySane, ReceiverReads, PurgerReads
<1>1. CASE StartSweep
  BY <1>1 DEF StartSweep
<1>2. CASE CopyPeers
  <2>1. PICK copy \in Copies(torn.purger) :
          purger' = [purger EXCEPT !.at = "sweep", !.todo = copy]
    BY <1>2 DEF CopyPeers
  <2>2. copy \subseteq Client
    BY CopiesTypes
  <2> QED BY <1>2, <2>1, <2>2 DEF CopyPeers
<1>3. CASE PurgerThrows
  BY <1>3 DEF PurgerThrows
<1>4. ASSUME NEW p \in Client, CheckPeer(p) PROVE Inv'
  BY <1>4 DEF CheckPeer
<1>5. CASE RemovePeer
  <2>1. purger.victim \in Client
    BY <1>5 DEF RemovePeer
  <2>2. torn' \in [receiver : SUBSET Client, purger : SUBSET Client]
    BY <1>5, <2>1, TornTypes DEF RemovePeer
  <2> QED BY <1>5, <2>1, <2>2 DEF RemovePeer
<1>6. CASE EndSweep
  BY <1>6 DEF EndSweep
<1>7. ASSUME NEW p \in Client, Age(p) PROVE Inv'
  BY <1>7 DEF Age
<1> QED BY <1>1, <1>2, <1>3, <1>4, <1>5, <1>6, <1>7 DEF Purger

(* Every step preserves the invariant.                                     *)
LEMMA NextInv == Inv /\ [Next]_vars => Inv'
<1> SUFFICES ASSUME Inv, [Next]_vars PROVE Inv'
  OBVIOUS
<1>1. CASE Next
  BY <1>1, ReceiverInv, PurgerInv DEF Next
<1>2. CASE UNCHANGED vars
  BY <1>2 DEF vars, Inv, TypeOK, ReplySane, ReceiverReads, PurgerReads
<1> QED BY <1>1, <1>2

(* The invariant holds in every reachable state.                           *)
LEMMA Invariance == Spec => []Inv
BY InitInv, NextInv, PTL DEF Spec

-----------------------------------------------------------------------------
(* The two threads keep the table and their own places well typed.         *)
THEOREM TrackerTypeCorrect == Spec => []TypeOK
<1>1. Inv => TypeOK
  BY DEF Inv
<1> QED BY <1>1, Invariance, PTL

(* However the threads interleave, a reply names other peers only, no more *)
(* than were asked for, and none when the requester stops                  *)
(* (Tracker.java:130-188).                                                 *)
THEOREM RepliesCorrect == Spec => []ReplySane
<1>1. Inv => ReplySane
  BY DEF Inv
<1> QED BY <1>1, Invariance, PTL

-----------------------------------------------------------------------------
(* The tracker implements Registry. *)

(* A step of the ReceiveRunner that is none of Registry: it only looks the *)
(* peer up again.                                                          *)
LEMMA KeepKept ==
    ASSUME Inv, KeepPeer
    PROVE  UNCHANGED Register!vars
BY DEF Inv, TypeOK, KeepPeer, Stage, WhileCopying, Register!vars

(* A step that leaves the table, the receiver and the start of the sweep   *)
(* alone is none of Registry.                                              *)
LEMMA StutterKept ==
    ASSUME UNCHANGED <<tracked, stale, receiver, old>>, torn'.receiver = torn.receiver
    PROVE  UNCHANGED Register!vars
BY DEF Stage, WhileCopying, Register!vars

(* The steps of the ReceiveRunner are steps of Registry.                   *)
LEMMA ReceiverKept ==
    ASSUME Inv, Receiver \/ \E p \in Client : Receive(p)
    PROVE  [Register!Next]_(Register!vars)
<1> USE DEF Inv, TypeOK
<1>1. ASSUME NEW p \in Client, Receive(p) PROVE Register!Ask(p)
  BY <1>1 DEF Receive, ReceiverReads, Stage, WhileCopying, Register!Ask
<1>2. CASE HandleStopped
  <2>1. /\ receiver.stop /\ receiver.at \in {"found", "missing"}
        /\ receiver' = [receiver EXCEPT !.at = "reply"]
        /\ tracked' = tracked \ {receiver.peer} /\ stale' = stale \ {receiver.peer}
        /\ UNCHANGED old
    BY <1>2 DEF HandleStopped
  <2>2. Stage \in {"listed", "unlisted"} /\ Stage' = "done"
    BY <2>1 DEF Stage
  <2>3. Register!Stage("listed", "done") \/ Register!Stage("unlisted", "done")
    <3>1. receiver'.peer = receiver.peer /\ receiver'.stop = receiver.stop
      BY <2>1
    <3>2. CASE Stage = "listed"
      BY <2>2, <3>1, <3>2 DEF Register!Stage
    <3>3. CASE Stage = "unlisted"
      BY <2>2, <3>1, <3>3 DEF Register!Stage
    <3> QED BY <2>2, <3>2, <3>3
  <2>4. Register!Leave
    BY <2>1, <2>3 DEF WhileCopying, Register!Leave
  <2> QED BY <2>4 DEF Register!Next
<1>3. CASE AddPeer
  <2>1. Register!Enter
    BY <1>3 DEF AddPeer, ReceiverReads, Stage, WhileCopying, Register!Enter, Register!Stage
  <2> QED BY <2>1 DEF Register!Next
<1>4. CASE UpdatePeer
  <2>1. Register!Hear
    BY <1>4 DEF UpdatePeer, ReceiverReads, Stage, WhileCopying, Register!Hear, Register!Stage
  <2> QED BY <2>1 DEF Register!Next
<1>5. CASE CopyCandidates
  <2>1. Register!StartReading \/ Register!NameNobody
    BY <1>5 DEF CopyCandidates, Stage, WhileCopying, Register!StartReading,
                Register!NameNobody, Register!Stage
  <2> QED BY <2>1 DEF Register!Next
<1>6. CASE CollectPeers
  <2>1. PICK copy \in Copies(torn.receiver) :
          \E others \in Collected(copy \ {receiver.peer}) :
            receiver' = [receiver EXCEPT !.at = "reply", !.others = others]
    BY <1>6 DEF CollectPeers
  <2>2. PICK others \in Collected(copy \ {receiver.peer}) :
          receiver' = [receiver EXCEPT !.at = "reply", !.others = others]
    BY <2>1
  <2>3. /\ tracked \ torn.receiver \subseteq copy
        /\ copy \subseteq tracked \cup torn.receiver
    BY DEF Copies
  <2>4. /\ others \subseteq copy \ {receiver.peer}
        /\ Cardinality(others) <= NumWant
        /\ Cardinality(others) < NumWant => others = copy \ {receiver.peer}
    BY DEF Collected
  <2>5. receiver.at = "copying" /\ UNCHANGED <<tracked, stale, old>>
    BY <1>6 DEF CollectPeers
  <2>6. Register!Name
    BY <2>2, <2>3, <2>4, <2>5
       DEF Stage, WhileCopying, Register!Name, Register!Stage, Register!Cardinality, Cardinality
  <2> QED BY <2>6 DEF Register!Next
<1>7. CASE ReceiverThrows
  <2>1. Register!Fail
    BY <1>7 DEF ReceiverThrows, Stage, WhileCopying, Register!Fail, Register!Stage
  <2> QED BY <2>1 DEF Register!Next
<1>8. CASE SendReply
  <2>1. Register!Answer
    BY <1>8 DEF SendReply, Stage, WhileCopying, Register!Answer, Register!NoAnnounce
  <2> QED BY <2>1 DEF Register!Next
<1> QED
  BY <1>1, <1>2, <1>3, <1>4, <1>5, <1>6, <1>7, <1>8, KeepKept DEF Receiver, Register!Next

(* So are those of the PurgeRunner and the passing of time.                *)
LEMMA PurgerKept ==
    ASSUME Inv, Purger \/ \E p \in Client : Age(p)
    PROVE  [Register!Next]_(Register!vars)
<1> USE DEF Inv, TypeOK
<1>1. CASE StartSweep
  <2>1. Register!StartPurge
    BY <1>1 DEF StartSweep, Stage, WhileCopying, Register!StartPurge
  <2> QED BY <2>1 DEF Register!Next
<1>2. CASE RemovePeer
  <2>1. purger.victim \in Client /\ purger.victim \in old
    BY <1>2 DEF RemovePeer, PurgerReads
  <2>2. /\ UNCHANGED <<receiver, old>>
        /\ tracked' = tracked \ {purger.victim} /\ stale' = stale \ {purger.victim}
    BY <1>2 DEF RemovePeer
  <2>3. receiver.at = "copying" =>
            /\ tracked' \cup torn'.receiver = tracked \cup torn.receiver
            /\ tracked' \ torn'.receiver = (tracked \ torn.receiver) \ {purger.victim}
    BY <1>2 DEF RemovePeer, PurgerChanges
  <2>4. Register!Expire(purger.victim)
    BY <2>1, <2>2, <2>3 DEF Stage, WhileCopying, Register!Expire
  <2> QED BY <2>1, <2>4 DEF Register!Next
<1>3. ASSUME NEW p \in Client, Age(p) PROVE [Register!Next]_(Register!vars)
  <2>1. Register!Silence(p)
    BY <1>3 DEF Age, Stage, WhileCopying, Register!Silence
  <2> QED BY <2>1 DEF Register!Next
<1>4. CASE CopyPeers \/ PurgerThrows \/ EndSweep \/ \E p \in Client : CheckPeer(p)
  BY <1>4, StutterKept DEF CopyPeers, PurgerThrows, EndSweep, CheckPeer
<1> QED BY <1>1, <1>2, <1>3, <1>4 DEF Purger

(* However the two threads interleave, what they do with the table is what *)
(* Registry allows: replies name those who are listed, and only the silent *)
(* and the leaving are removed (Tracker.java:105-188).                     *)
THEOREM RegistryImplemented == Spec => RegisterKept
<1>1. Init => Register!Init
  BY DEF Init, Stage, WhileCopying, Register!Init, Register!NoAnnounce
<1>2. Inv /\ [Next]_vars => [Register!Next]_(Register!vars)
  <2> SUFFICES ASSUME Inv, [Next]_vars PROVE [Register!Next]_(Register!vars)
    OBVIOUS
  <2>1. CASE UNCHANGED vars
    BY <2>1, StutterKept DEF vars
  <2> QED BY <2>1, ReceiverKept, PurgerKept DEF Next
<1> QED BY <1>1, <1>2, Invariance, PTL DEF Spec, RegisterKept, Register!Spec

(* In the tracker's own terms: a peer leaves the table only by its own     *)
(* STOPPED or by a sweep that started after it had gone silent             *)
(* (Tracker.java:105-128).                                                 *)
SweepsOnlyOld ==
    [][\A p \in tracked \ tracked' :
        p \in old \/ (receiver.peer = p /\ receiver.stop)]_vars

(* Whatever the interleaving of the two threads, a sweep that looks at     *)
(* times which change meanwhile removes no peer that was heard of before   *)
(* it began and is not old (Tracker.java:116-125).                         *)
THEOREM SweepsCorrect == Spec => SweepsOnlyOld
<1> DEFINE Kept(p) == p \in old \/ (receiver.peer = p /\ receiver.stop)
<1>1. ASSUME Inv, [Next]_vars, NEW p \in tracked \ tracked'
      PROVE  Kept(p)
  <2>1. CASE HandleStopped
    BY <1>1, <2>1 DEF HandleStopped
  <2>2. CASE RemovePeer
    BY <1>1, <2>2 DEF RemovePeer, Inv, PurgerReads
  <2>3. CASE ~HandleStopped /\ ~RemovePeer
    BY <1>1, <2>3 DEF Next, vars, Receiver, Purger, Receive, AddPeer, KeepPeer,
       UpdatePeer, CopyCandidates, CollectPeers, ReceiverThrows, SendReply,
       StartSweep, CopyPeers, PurgerThrows, CheckPeer, EndSweep, Age
  <2> QED BY <2>1, <2>2, <2>3
<1>2. Inv /\ [Next]_vars =>
        [\A p \in tracked \ tracked' :
            p \in old \/ (receiver.peer = p /\ receiver.stop)]_vars
  BY <1>1
<1> QED BY <1>2, Invariance, PTL DEF Spec, SweepsOnlyOld

-----------------------------------------------------------------------------
(* The sweeps of the purge and the handling of requests take turns, as     *)
(* they would with one lock for both.                                      *)
Apart == receiver.at = "receive" \/ purger.at \in {"idle", "dead"}

(* What the ReceiveRunner has found or added is still there. *)
FoundTracked ==
    receiver.at \in {"found", "update", "copy", "copying", "reply"} /\ ~receiver.stop
        => receiver.peer \in tracked

(* Taking turns, nothing is removed under the hands of the ReceiveRunner.  *)
LEMMA FoundStays == Inv /\ FoundTracked /\ Apart /\ [Next]_vars => FoundTracked'
<1> SUFFICES ASSUME Inv, FoundTracked, Apart, [Next]_vars PROVE FoundTracked'
  OBVIOUS
<1> USE DEF FoundTracked
<1>1. CASE UNCHANGED vars
  BY <1>1 DEF vars
<1>2. ASSUME NEW p \in Client, Receive(p) PROVE FoundTracked'
  BY <1>2 DEF Receive
<1>3. CASE HandleStopped
  BY <1>3 DEF HandleStopped, Inv, TypeOK
<1>4. CASE AddPeer
  BY <1>4 DEF AddPeer, Inv, TypeOK
<1>5. CASE KeepPeer \/ UpdatePeer \/ CopyCandidates \/ ReceiverThrows \/ SendReply
  BY <1>5 DEF KeepPeer, UpdatePeer, CopyCandidates, ReceiverThrows, SendReply, Inv, TypeOK
<1>6. CASE CollectPeers
  BY <1>6 DEF CollectPeers, Inv, TypeOK
<1>7. CASE RemovePeer
  <2>1. receiver.at = "receive" /\ UNCHANGED receiver
    BY <1>7 DEF RemovePeer, Apart
  <2> QED BY <2>1
<1>8. CASE StartSweep \/ CopyPeers \/ PurgerThrows \/ EndSweep
  <2>1. UNCHANGED <<tracked, receiver>>
    BY <1>8 DEF StartSweep, CopyPeers, PurgerThrows, EndSweep
  <2> QED BY <2>1
<1>9. ASSUME NEW p \in Client, CheckPeer(p) \/ Age(p) PROVE FoundTracked'
  <2>1. UNCHANGED <<tracked, receiver>>
    BY <1>9 DEF CheckPeer, Age
  <2> QED BY <2>1
<1> QED
  BY <1>1, <1>2, <1>3, <1>4, <1>5, <1>6, <1>7, <1>8, <1>9 DEF Next, Receiver, Purger

(* The race is all that stands between the code and the text: in every     *)
(* behaviour in which no sweep runs while a request is handled, a peer     *)
(* that is answered is tracked (Tracker.java:82-120, discovery.tex:33).    *)
THEOREM AnnouncedWhenApart == Spec /\ []Apart => []AnnouncedIsTracked
<1>1. Init => FoundTracked
  BY DEF Init, FoundTracked
<1>2. FoundTracked => AnnouncedIsTracked
  BY DEF FoundTracked, AnnouncedIsTracked
<1> QED BY <1>1, <1>2, FoundStays, Invariance, PTL DEF Spec

=============================================================================
