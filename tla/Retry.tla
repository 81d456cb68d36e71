------------------------------- MODULE Retry -------------------------------
(***************************************************************************)
(* The retry counter of src/peer/retry.c, used by the peer process for     *)
(* data requests and by the swarm process for announce requests.           *)
(*                                                                         *)
(* A retry is a record:                                                    *)
(*   num    num_retries, 0 .. max_retries + 1                              *)
(*   max    max_retries: 0 after nanotorrent_retry_init, then the limit    *)
(*   armed  whether the etimer is running.  Contiki's etimer_expired()     *)
(*          only compares the owner with PROCESS_NONE, so a timer that was *)
(*          stopped, or never set, counts as expired: "not armed".         *)
(*   bound  whether `data' is what nanotorrent_retry_start was given (it   *)
(*          is NULL after nanotorrent_retry_init).                         *)
(* The length of the exponential back-off is abstracted: an armed timer    *)
(* may fire at any later moment.                                           *)
(***************************************************************************)
EXTENDS Naturals

RetryRecord(limit) ==
    [num: 0 .. limit + 1, max: 0 .. limit, armed: BOOLEAN, bound: BOOLEAN]

RetryInit == [num |-> 0, max |-> 0, armed |-> FALSE, bound |-> FALSE]

RetryStop(r) == [r EXCEPT !.armed = FALSE]

(* nanotorrent_retry_check: the process loop should call retry_next. *)
RetryDue(r) == r.num <= r.max /\ ~r.armed

(* Which callback the next call of nanotorrent_retry_next makes. *)
WillTryAgain(r) == r.num < r.max
WillGiveUp(r)   == r.num = r.max

RetryNext(r) ==
    [num   |-> IF r.num <= r.max THEN r.num + 1 ELSE r.num,
     max   |-> r.max,
     armed |-> IF WillTryAgain(r) THEN TRUE
               ELSE IF WillGiveUp(r) THEN FALSE ELSE r.armed,
     bound |-> r.bound]

RetryStart(r, limit) ==
    RetryNext([num |-> 0, max |-> limit, armed |-> r.armed, bound |-> TRUE])
=============================================================================
