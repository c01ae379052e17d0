----------------------------- MODULE MCManager -----------------------------
(***************************************************************************)
(* What the clients of each run may ask of the manager.  A client of the   *)
(* library always reserves at least one producer and one consumer slab     *)
(* (ClientImpl::ComputeAndSendNumSlabs).                                   *)
(***************************************************************************)
EXTENDS Manager

CCI == <<CCIMessageID, 2>>      \* a client-to-client message to client 2

Client(prodSlabs) ==
  [numSlabs |-> {<<prodSlabs, 1>>}, nice |-> {}, groups |-> {}, register |-> {},
   deregister |-> {}, sendFails |-> FALSE, publish |-> {}]

Producer(prodSlabs) == [Client(prodSlabs) EXCEPT !.publish = {<<1, 0>>}]

ProducerConsumer(prodSlabs) == [Producer(prodSlabs) EXCEPT !.register = {1}]

Nice(client) == [client EXCEPT !.nice = {1}]

Started(options, playback, numBuffers, maxNumBuffers) ==
  {[options |-> options, playback |-> playback,
    numBuffers |-> numBuffers, maxNumBuffers |-> maxNumBuffers]}

\* A greedy producer of two slabs, and a nice producer that is also the consumer;
\* in playback mode, where all are nice, that one may stop reading its socket.
\* There are as many slabs as they reserve.
MixedSetups ==
  Started(<<Producer(2), Nice(ProducerConsumer(1))>>, 0, 5, 5)
    \cup Started(<<Producer(1), [ProducerConsumer(1) EXCEPT !.sendFails = TRUE]>>, 1, 4, 4)

\* A producer whose batches go to itself and to a consumer that may deregister;
\* or a producer and a consumer that may join the same group.
FanoutSetups ==
  Started(<<ProducerConsumer(1), [Client(1) EXCEPT !.register = {1}, !.deregister = {1}]>>, 0, 1, 1)
    \cup Started(<<[Producer(1) EXCEPT !.groups = {1}],
                   [Client(1) EXCEPT !.register = {1}, !.groups = {1}]>>, 0, 1, 1)

\* A greedy producer that also sends client-to-client messages, a nice producer
\* that is also the consumer, and a client for which there may be no memory left.
GrowthSetups ==
  Started(<<[Producer(1) EXCEPT !.publish = {CCI}], Nice(ProducerConsumer(1)), Client(1)>>,
          0, 1, 2)

\* A nice producer that is also the consumer, and a greedy client.
GrowthGreedySetups == Started(<<Nice(ProducerConsumer(2)), Client(2)>>, 0, 5, 6)
=============================================================================
