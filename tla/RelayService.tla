---------------------------- MODULE RelayService ----------------------------
(***************************************************************************)
(* What the relay of remote_mgr promises the applications of the two buds: *)
(* a message that was accepted is delivered to the peer, in the order of   *)
(* acceptance and at most once, unless one of the two ends of the session  *)
(* is closed first.  Messages are numbered in the order of the calls.      *)
(***************************************************************************)
EXTENDS Naturals, Sequences

CONSTANT Msgs       \* the numbers of the messages

VARIABLES
    pending,    \* accepted, and neither delivered nor lost with the session
    last,       \* the message delivered last
    up,         \* the session is open at the sender
    rup         \* the session is open at the receiver

Init == pending = <<>> /\ last = 0 /\ ~up /\ ~rup

Open ==
    /\ ~up /\ ~rup /\ pending = <<>>
    /\ up' /\ rup'
    /\ UNCHANGED <<pending, last>>

Accept ==
    /\ up
    /\ \E m \in Msgs :
          /\ last < m
          /\ \A i \in DOMAIN pending : pending[i] < m
          /\ pending' = Append(pending, m)
    /\ UNCHANGED <<last, up, rup>>

Deliver ==
    /\ rup
    /\ pending # <<>>
    /\ last' = Head(pending)
    /\ pending' = Tail(pending)
    /\ UNCHANGED <<up, rup>>

\* The messages that have not left the sender are lost.
CloseSender ==
    /\ up /\ up' = FALSE
    /\ \E k \in 0..Len(pending) : pending' = SubSeq(pending, 1, k)
    /\ UNCHANGED <<last, rup>>

\* The messages on their way to the receiver are lost.
CloseReceiver ==
    /\ rup /\ rup' = FALSE
    /\ \E k \in 0..Len(pending) : pending' = SubSeq(pending, k + 1, Len(pending))
    /\ UNCHANGED <<last, up>>

Next == Open \/ Accept \/ Deliver \/ CloseSender \/ CloseReceiver

Spec == Init /\ [][Next]_<<pending, last, up, rup>>
=============================================================================
