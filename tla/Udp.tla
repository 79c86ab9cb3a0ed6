-------------------------------- MODULE Udp --------------------------------
(***************************************************************************)
(* lib/cnt/sys/udp.c: links to the peers of a socket, found by the address *)
(* of the peer in a hash (module Hash), each with a queue of the datagrams *)
(* received from it and a count of references.                             *)
(*                                                                         *)
(* The hash has binary keys: it points to the address it was given, either *)
(* one that the client keeps or, for a link that udp_socket_receive makes, *)
(* the variable from in the frame of that call.                            *)
(*                                                                         *)
(* Left out: the counters of bytes and datagrams, which are only           *)
(* statistics, and with them udp_socket_sendto; the sockets themselves; a  *)
(* receive that times out or fails in select, which changes nothing; and   *)
(* the link that a client makes in its own memory.  udp_end and udp_init   *)
(* leave what udp_init does when it is called again.                       *)
(***************************************************************************)
EXTENDS Integers, Sequences, FiniteSets, Functions

CONSTANTS Element,      \* the links that the hash may hand out
          Place,        \* where the client keeps addresses
          from,         \* the variable of udp_socket_receive
          Address, NULL,
          NbLines, HashOf,
          Datagram,     \* the buffers that the shelf may hand out
          MaxRefs       \* bound: references to one link

ASSUME UdpAssumption ==
  /\ from \notin Place /\ IsFiniteSet(Datagram)
  /\ NULL \notin Element \cup Place \cup {from} \cup [at : Element, value : {NULL}]
  /\ NULL \notin Datagram \cup [refs : Nat, queue : Seq(Datagram)]
  /\ NbLines \in Nat \ {0}
  /\ HashOf \in [Address -> 0 .. NbLines - 1]

VARIABLES
  elements, lines, next, place, value, content, lent,      \* as in Hash
  address, first_datagram, last_datagram, refcount,         \* the fields of a link
  buffers,      \* the datagrams in use
  next_dtg,     \* datagram -> the one after it
  dtg,          \* the datagram that a call is receiving, or NULL
  sender,       \* datagram -> the peer it came from
  holds         \* link -> the references the client has

linksVars == <<elements, lines, next, place, value, content, lent>>
fields == <<address, first_datagram, last_datagram, refcount>>
udpVars == <<linksVars, fields, buffers, next_dtg, dtg, sender, holds>>

links == INSTANCE Hash WITH Place <- Place \cup {from}, Key <- Address, Value <- {NULL}

-----------------------------------------------------------------------------
UdpInit ==
  /\ links!HashInit
  /\ address = [e \in Element |-> NULL]
  /\ first_datagram = [e \in Element |-> NULL]
  /\ last_datagram = [e \in Element |-> NULL]
  /\ refcount = [e \in Element |-> 0]
  /\ buffers = {}
  /\ next_dtg = [d \in Datagram |-> NULL]
  /\ dtg = NULL
  /\ sender = [d \in Datagram |-> NULL]
  /\ holds = [e \in Element |-> 0]

\* udp_init, again: the client forgets the references it had.
Restart ==
  /\ links!Clear
  /\ address' = [e \in Element |-> NULL]
  /\ first_datagram' = [e \in Element |-> NULL]
  /\ last_datagram' = [e \in Element |-> NULL]
  /\ refcount' = [e \in Element |-> 0]
  /\ buffers' = {}
  /\ next_dtg' = [d \in Datagram |-> NULL]
  /\ sender' = [d \in Datagram |-> NULL]
  /\ holds' = [e \in Element |-> 0]
  /\ UNCHANGED dtg

\* Lines 109-112: e is the link that cntHash_put gives for the address at s.
PutLink(s, e) ==
  LET old == links!Find(content[s])
  IN  /\ links!Put(s, NULL)
      /\ IF old # NULL THEN e = old ELSE e \notin elements /\ elements' = elements \cup {e}
      /\ address' = [address EXCEPT ![e] = content[s]]

\* udp_link_construct for the address at s
Construct(s) ==
  \E e \in Element :
    /\ PutLink(s, e)
    /\ first_datagram' = [first_datagram EXCEPT ![e] = NULL]
    /\ last_datagram' = [last_datagram EXCEPT ![e] = NULL]
    /\ refcount' = [refcount EXCEPT ![e] = 1]
    /\ holds' = [holds EXCEPT ![e] = 1]
    /\ UNCHANGED <<buffers, next_dtg, dtg, sender>>

\* Lines 173-179: udp_socket_receive has got a datagram, from a.
Arrive(a, d) ==
  /\ d \notin buffers
  /\ buffers' = buffers \cup {d}
  /\ next_dtg' = [next_dtg EXCEPT ![d] = NULL]
  /\ sender' = [sender EXCEPT ![d] = a]
  /\ content' = [content EXCEPT ![from] = a]
  /\ dtg' = d
  /\ UNCHANGED <<elements, lines, next, place, value, lent, fields, holds>>

\* Mutant: a new datagram goes before those that wait.
EnqueueBefore(e, first, last) ==
  /\ next_dtg' = [next_dtg EXCEPT ![dtg] = first]
  /\ first_datagram' = [first_datagram EXCEPT ![e] = dtg]
  /\ last_datagram' = [last_datagram EXCEPT ![e] = IF last = NULL THEN dtg ELSE last]

\* Lines 190-196: link e had the queue from first to last.
Enqueue(e, first, last) ==
  /\ next_dtg' = IF last = NULL THEN next_dtg ELSE [next_dtg EXCEPT ![last] = dtg]
  /\ first_datagram' = [first_datagram EXCEPT ![e] = IF last = NULL THEN dtg ELSE first]
  /\ last_datagram' = [last_datagram EXCEPT ![e] = dtg]

\* Mutant: a datagram for a link that is there does not count as a reference.
RefsAfterReuseNot(e) == refcount[e]

RefsAfterReuse(e) == refcount[e] + 1

\* Mutant: the first link of the line is taken for the one of the sender.
LinkOfLine(a) == lines[HashOf[a]]

\* Line 182
LinkOf(a) == links!Find(a)

\* Lines 181-201: the rest of udp_socket_receive, which returns link e.
Dispatch ==
  \E e \in Element :
    /\ dtg # NULL
    /\ \/ /\ LinkOf(content[from]) = NULL
          /\ PutLink(from, e)
          /\ refcount' = [refcount EXCEPT ![e] = 1]
          /\ Enqueue(e, NULL, NULL)
       \/ /\ LinkOf(content[from]) = e
          /\ refcount' = [refcount EXCEPT ![e] = RefsAfterReuse(e)]
          /\ Enqueue(e, first_datagram[e], last_datagram[e])
          /\ UNCHANGED <<linksVars, address>>
    /\ holds' = [holds EXCEPT ![e] = @ + 1]
    /\ dtg' = NULL
    /\ UNCHANGED <<buffers, sender>>

\* Mutant: the last one stays the last.
LastAfterShiftNot(e) == last_datagram[e]

FirstAfterShift(e) == next_dtg[first_datagram[e]]

LastAfterShift(e) ==
  IF last_datagram[e] = first_datagram[e] THEN NULL ELSE last_datagram[e]

\* udp_link_shift_datagrams
Shift(e) ==
  LET d == first_datagram[e]
  IN  /\ d # NULL
      /\ first_datagram' = [first_datagram EXCEPT ![e] = FirstAfterShift(e)]
      /\ last_datagram' = [last_datagram EXCEPT ![e] = LastAfterShift(e)]
      /\ buffers' = buffers \ {d}
      /\ next_dtg' = [next_dtg EXCEPT ![d] = NULL]
      /\ sender' = [sender EXCEPT ![d] = NULL]
      /\ UNCHANGED <<linksVars, address, refcount, dtg, holds>>

\* The queue from datagram d on.
From(d) ==
  LET at[i \in 0 .. Cardinality(Datagram)] ==
        IF i = 0 THEN d ELSE LET p == at[i - 1] IN IF p = NULL THEN NULL ELSE next_dtg[p]
      length == CHOOSE n \in 0 .. Cardinality(Datagram) :
                  at[n] = NULL /\ \A i \in 0 .. n - 1 : at[i] # NULL
  IN  [i \in 1 .. length |-> at[i - 1]]

\* udp_link_del
Delete(e) ==
  LET refs == refcount[e] - 1
      dtgs == Range(From(first_datagram[e]))
      old == links!Find(address[e])
  IN  /\ holds' = [holds EXCEPT ![e] = @ - 1]
      /\ IF refs > 0
         THEN /\ refcount' = [refcount EXCEPT ![e] = refs]
              /\ UNCHANGED <<linksVars, address, first_datagram, last_datagram,
                             buffers, next_dtg, sender>>
         ELSE /\ buffers' = buffers \ dtgs
              /\ next_dtg' = [d \in Datagram |-> IF d \in dtgs THEN NULL ELSE next_dtg[d]]
              /\ sender' = [d \in Datagram |-> IF d \in dtgs THEN NULL ELSE sender[d]]
              /\ IF old = NULL THEN UNCHANGED linksVars ELSE links!RemoveKey(address[e])
              /\ address' = [address EXCEPT ![e] = NULL]
              /\ first_datagram' = [first_datagram EXCEPT ![e] = NULL]
              /\ last_datagram' = [last_datagram EXCEPT ![e] = NULL]
              /\ refcount' = [refcount EXCEPT ![e] = 0]
      /\ UNCHANGED dtg

\* The client writes an address to one of its places that no link uses.
Write(s, a) ==
  links!Scribble(s, a) /\ UNCHANGED <<fields, buffers, next_dtg, dtg, sender, holds>>

\* Whatever the program calls between two receives uses the memory of the frame.
ReuseFrame(a) ==
  /\ content' = [content EXCEPT ![from] = a]
  /\ UNCHANGED <<elements, lines, next, place, value, lent, fields, buffers, next_dtg,
                 dtg, sender, holds>>

-----------------------------------------------------------------------------
Known(a) == links!Find(a) # NULL

\* What a client may do between two calls.  It makes a link only to a peer it
\* has none to: udp_link_construct resets the one that is there (line 113).
Use ==
  /\ dtg = NULL
  /\ \/ \E s \in Place : ~Known(content[s]) /\ Construct(s)
     \/ \E e \in elements : holds[e] > 0 /\ (Shift(e) \/ Delete(e))
     \/ \E s \in Place, a \in Address : Write(s, a)
     \/ \E a \in Address : ReuseFrame(a)
     \/ Restart

\* A datagram comes from one of the peers.
Come(peers) ==
  /\ dtg = NULL
  /\ \A e \in elements : holds[e] < MaxRefs
  /\ \E a \in peers, d \in Datagram : Arrive(a, d)

UdpNext == Use \/ Come({a \in Address : Known(a)}) \/ Dispatch

\* Peers that the client has not made a link to send as well.
StrayNext == Use \/ Come(Address) \/ Dispatch

UdpSpec == UdpInit /\ [][UdpNext]_udpVars
StraySpec == UdpInit /\ [][StrayNext]_udpVars

-----------------------------------------------------------------------------
Queue(e) == From(first_datagram[e])

\* Where datagram d is: the links with the places in their queues.
PlacesOf(d) == {p \in elements \X (1 .. Cardinality(Datagram)) :
                  p[2] =< Len(Queue(p[1])) /\ Queue(p[1])[p[2]] = d}

\* Each datagram in use is in one queue, once, or is being received; and a
\* queue ends where the next datagram will be linked.  None is leaked when
\* its link goes.
QueuesExact ==
  /\ \A d \in buffers : Cardinality(PlacesOf(d)) = (IF d = dtg THEN 0 ELSE 1)
  /\ \A e \in elements :
       last_datagram[e] = IF Queue(e) = <<>> THEN NULL ELSE Queue(e)[Len(Queue(e))]

\* A link is there exactly while the client has a reference to it: none goes
\* under a holder and none stays behind.
KeptWhileHeld ==
  /\ \A e \in Element : e \in elements <=> holds[e] > 0
  /\ \A e \in elements : refcount[e] = holds[e]

\* udp_socket_receive is to "identify" the sender of a datagram and return its
\* link (the comment at udp.c:180): no queue has another peer's datagrams.
FromSender == \A e \in elements : \A d \in Range(Queue(e)) : sender[d] = address[e]

\* The hash, the links and the buffers make up one queue of datagrams for each
\* peer: in the order of arrival, and gone with the last reference.
Queues == INSTANCE UdpQueues WITH peer <-
            [a \in Address |-> LET e == links!Find(a)
                               IN  IF e = NULL THEN NULL
                                   ELSE [refs |-> refcount[e], queue |-> Queue(e)]]
ImplementsQueues == Queues!Spec
=============================================================================
