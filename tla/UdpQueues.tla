------------------------------ MODULE UdpQueues ------------------------------
(***************************************************************************)
(* What lib/cnt/sys/udp.c is for: for each peer that the client has a link *)
(* to, the datagrams received from it, in order.  A client gets one        *)
(* reference to the link for making it and one for each datagram received, *)
(* and the link goes with the last one.                                    *)
(***************************************************************************)
EXTENDS Naturals, Sequences

CONSTANTS Address, Datagram, NULL

VARIABLE peer      \* address -> the link, or NULL

Queued == {d \in Datagram : \E a \in Address : peer[a] # NULL /\
                              \E i \in 1 .. Len(peer[a].queue) : peer[a].queue[i] = d}

Init == peer = [a \in Address |-> NULL]

\* udp_link_construct
Make(a) ==
  /\ peer[a] = NULL
  /\ peer' = [peer EXCEPT ![a] = [refs |-> 1, queue |-> <<>>]]

\* udp_socket_receive
Receive(a, d) ==
  /\ peer[a] # NULL /\ d \notin Queued
  /\ peer' = [peer EXCEPT ![a] = [refs |-> @.refs + 1, queue |-> Append(@.queue, d)]]

\* udp_link_shift_datagrams
Shift(a) ==
  /\ peer[a] # NULL /\ peer[a].queue # <<>>
  /\ peer' = [peer EXCEPT ![a].queue = Tail(@)]

\* udp_link_del
Release(a) ==
  /\ peer[a] # NULL
  /\ peer' = [peer EXCEPT ![a] =
                 IF @.refs = 1 THEN NULL ELSE [refs |-> @.refs - 1, queue |-> @.queue]]

\* udp_init, again
Restart == peer' = [a \in Address |-> NULL]

Next ==
  \/ \E a \in Address : Make(a) \/ Shift(a) \/ Release(a)
  \/ \E a \in Address, d \in Datagram : Receive(a, d)
  \/ Restart

Spec == Init /\ [][Next]_peer
=============================================================================
