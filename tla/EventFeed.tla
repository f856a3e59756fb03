------------------------------ MODULE EventFeed ------------------------------
(***************************************************************************)
(* What a connection to /api/v1/events may count on: it is sent events     *)
(* that were published, in the order in which they were, none of them      *)
(* twice.  It may miss some.                                               *)
(***************************************************************************)
EXTENDS Integers, Sequences

CONSTANTS Conns,        \* the WebSocket connections
          MaxEvents     \* bound on the notifications of a behaviour

VARIABLES sent,         \* how many were published: an event is its number
          got           \* connection -> the events written to it

FeedInit == sent = 0 /\ got = [c \in Conns |-> <<>>]

LastOf(s) == IF s = <<>> THEN 0 ELSE s[Len(s)]

Send == sent < MaxEvents /\ sent' = sent + 1 /\ UNCHANGED got

Deliver(c, e) ==
    /\ LastOf(got[c]) < e /\ e <= sent
    /\ got' = [got EXCEPT ![c] = Append(@, e)]
    /\ UNCHANGED sent

FeedNext == Send \/ \E c \in Conns, e \in 1..MaxEvents : Deliver(c, e)

FeedSpec == FeedInit /\ [][FeedNext]_<<sent, got>>
=============================================================================
