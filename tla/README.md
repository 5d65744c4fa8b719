# Client-Server-App in TLA+

A verification development for the program in `../src`: a server that receives
datagrams from UDP providers and hands them to the TCP subscribers of their
topics, and the subscriber program. Everything is translated from the C code.

## 1. Inventory

| part | state | operations | model |
|---|---|---|---|
| server (`server.c`) | poll array `pfds`/`max_nfds`, list `subs`, maps `subs_by_id`, `subs_by_fd`, sockets | one `poll()` loop: stdin, one datagram, one new connection, then one message of each readable subscriber | `Server` |
| subscriber (`subscriber.c`) | its connection | `connect_to_server`, then a `poll()` loop: a command of the user, a message of the server | `Subscriber` |
| the kernel | backlog, descriptors, TCP buffers and connection states, UDP queue | `accept`, `send`, `recv`, `close`, `poll` | `Sockets` (external) |
| wire protocol (`msg.h`) | - | message types, the fields of a message | `Sockets`, `Messages` |
| UDP provider (`udp_client.py`) | - | sends a datagram | `ClientServerApp!UdpArrival`, `Delivery!ForwardReading` |
| trie (`trie.c`) | nodes with counters, `size`, `n_Nodes` | insert, search, remove | `Trie`; a set in `Server` |
| hash map (`hashmap.c`) | buckets, `size`, `hmax` | get, put, remove, double | `HashMap`; a function in `Server` |
| list (`list.c`) | linked nodes, `head`, `tail`, `size` | add, remove, traverse, free | `LinkedList`; a sequence in `Server` and `HashMap` |
| topic matching (`is_subscribed`) | - | wildcards `+` and `*` | `TopicMatch`; the relation `Covers` in `Server` |
| conversion and printing (`handle_udp_msg`, `print_*_msg`) | the message on the subscriber's stack | datagram to message, message to what is shown | `Messages`, `Delivery` |
| terminals (`handle_stdin_msg` of both programs) | buffers of kernel and stdio | `poll`, `getline` | `Terminal` |
| `test.py`, `Makefile`, payloads | - | - | not modelled |

How they interact: a subscriber connects (kernel backlog), sends its id, then
`sub_msg_t` messages; the server sends `srv_msg_t` messages. The server keeps
one `sub_t` for each id it has ever seen, with the trie of its subscriptions;
`sock_fd` is -1 while the id is not connected. The same `sub_t` is reached from
the list and from both maps.

What is hard here:

* **one pass, several handlers.** What `poll()` reported is used while earlier
  handlers of the same pass close, shift and append entries of `pfds` and reuse
  descriptors. An entry could be skipped, served twice, or served when nothing
  can be read.
* **four tables and the kernel** describe the same connections and are updated
  by different functions.
* **order.** New connections are handled before the messages of old ones.
* **a byte stream without frames.** The id has no length; `recv()` results are
  not tested for 0 or for short reads.
  What is read out of step is executed: the zeros that pad a message are a
  subscription.
* **blocking.** One thread; `recv()` of the id and every `send()` may block, and
  two programs that block in `send()` to each other never go on.
  `getline()` takes from a buffer that `poll()` does not see.
* **three byte orders.** Address, port and numbers are in the order of the
  network, of the server or of the subscriber; two programs convert them.
* **failures.** A subscriber may exit with unread data, be killed, or the
  server may end; every failing call is a `DIE`.

What makes the server correct: its tables agree (`RegistryConsistent`), a pass
serves each reported connection once (`EveryReadyServedOnce`) and never blocks
in a call `poll()` has announced (`NoBlockingRecv`), one session per id
(`OneSessionPerId`) under the process's own id (`RegisteredUnderOwnId`), a
datagram reaches every connected subscriber of its topic once and in order
(`FanoutExactlyOnce`, `DeliveryInOrder`), subscriptions are what the user asked
for, over disconnections too (`CommandsApplied`), and connecting, exiting,
publishing and stopping take effect in the end (`ConnectIsAnswered`,
`ExitedIsUnregistered`, `DatagramsArrive`, `ExitEndsSubscribers`). Seen from
outside it is a broker (`ImplementsBroker`) that shows what was published
(`ShownAsPublished`).

## 2. Modules

```
Sockets            kernel objects, messages                (external)
  Server           src/server.c
  Subscriber       src/subscriber.c
    ClientServerApp          all processes, properties, fairness;
                             implements Broker
      MCClientServerApp      instances for TLC
      ClientServerApp_proofs the inductive invariant, the loop over
                             the poll array
        Broker_proofs        datagrams, the refinement, who is registered
                             as whom, the stored subscriptions
                             (with Iteration_proofs: a function applied n times)

Messages          the bytes of a message
  Delivery        readings over one connection      (MCDelivery, Delivery_proofs)
Terminal          stdin of both programs            (Terminal_proofs)

LinkedList        src/list.c, implements ListOfData (LinkedList_proofs)
HashMap           src/hashmap.c, implements Dictionary (MCHashMap, HashMap_proofs)
Trie              src/trie.c, implements TopicSet
  TopicMatch      is_subscribed                     (MCTopicMatch, Trie_proofs)
```

The first group takes the four data structures for what the last group shows they
implement, a message for a number or a command, and a line for a command; the
second group has the bytes of the messages, and the pieces of the lines.

**Sockets.** A subscriber process makes one connection in its life, so a
connection is named by the process. `up[p]` and `down[p]` are the two streams,
as sequences of messages. `srvSees[p]` and `cliSees[p]` say how each end sees the
other: open, closed (`fin`), closed and already answered with a reset
(`finrst`), reset (`rst`). Closing with unread data resets; sending to a closed
peer succeeds and may bring the reset; sending after a reset fails, in the
program with a `DIE` or a SIGPIPE, which ends the process either way. A `send()`
that does not fit blocks: its message is the last of a queue longer than the
buffer, and its process takes no step, not even the `close()` behind it, until
the queue is short enough, or the reader is gone, which makes the call fail.
`Patterns` are the topics users type. A record can hold more (`Storable`): the
empty topic, and the topics stray bytes spell (`StrayPatterns`).

**Server.** `pc` is where the process is: in a pass, in `recv()` of an id, in
the traversal of `handle_udp_msg` or of `stop_program`, between the `send()` and
the `close()` of `srv_closes_sub_connection` (`refusing`, `closing`), or ended. `rev` holds
what the last `poll()` reported of stdin, UDP and listening socket and is still
to be handled, `pfds[j].ready` the same for subscribers, `i` the loop index.
`subs` is the list in order of creation (the C list has the newest at its head,
so a traversal counts down); `subs_by_id` and `subs_by_fd` hold indices into it,
0 for "no entry". Actions: `Poll`, `HandleStdin`, `StopProgram` (one list node,
up to the `send()`), `CloseStopped` (its `close()`), `HandleUdp`, `Fanout` (one
list node), `HandleListen` (`accept`), `ReceiveId` (the rest of
`handle_listen_tcp_msg`), `CloseRefused` (the `close()` of a refusal),
`HandleSubMsg(j)`, `BlockedSendFails`.

What the two `recv()` calls return is the heart of the module. `ReadIds`: the id;
the id with the first bytes of a command behind it, which become a part of the
id or are cut off, and leave the stream out of step (`skew`); of an id longer
than the field (`Overlong`) what fits, with the rest still in the stream; "" if
the peer is gone. `ReadMsgs`: the next message; out of step, `Misreads`: the
letters of an id or a topic are no type, but the zeros that pad a message are
type 0, and the server subscribes the record to "" (`EmptyMsg`); a topic outside
the alphabet may even spell the other two types. Behind an over-long id the
pieces may be too short for a type, and the rest of the message is then what the
stack holds (`PieceReads`). At end of file it is all of the last message
(`frame`), or what other calls have left there since (`Leftovers`), also a
message by chance. Out of step, a stream stays so until a piece arrives alone.

A letter outside `TOPIC_ALPHABET` ends the server in `trie_insert` and may end it
in `trie_search` (`Survives`); in the topic of a datagram it may end it in
`is_subscribed`, in the middle of the traversal (`LeavesTrie`).
`served` and `log` are history variables.

**Subscriber.** `Connect`, `SendId`, `sub_HandleStdin` (exit up to its `send()`,
subscribe, unsubscribe), `sub_Exit` (`close()` and `exit()` when that `send()` has
returned), `HandleServerMsg`, `sub_BlockedSendFails`, `Crash`. A subscriber
whose server has gone without `CLOSE_SRV_MSG` gets 0 from `recv()` for ever
(`spinning`). `Faults` chooses the users: patient ones wait until the server has
read the id, as `test.py` does by sleeping; `"eager"` ones do not; with
`"crash"` a process may end without `CLOSE_SUB_MSG` (killed, end of file on
stdin, a command without its topic).

**ClientServerApp.** All processes, the providers and the person at the server's
terminal; `want[id]` is a history variable with what the user of an id asked
for.

**Broker.** What the application promises, without descriptors, tables, buffers
and `poll()`: ids with one session each and interests that outlive it,
publications that are handed out one at a time, in order, once, to those who
are interested when their turn comes. The refinement mapping, in
`ClientServerApp`, reads `session` and `interest` through `subs_by_id`; what is
`owed` are the subscribed records the cursor of the traversal has not reached.
The mapped state changes in the step in which the list, the map or the topics
change; all other steps of the tables stutter. `Broker` does not say where the
topics of an id come from: in its instance any `Storable` topic may be added or
removed in a session, because that is what a misread message does. What ties
them to the user is `CommandsApplied`, for users and ids that keep the stream in
step.

**Messages, Delivery.** `srv_msg` is `handle_udp_msg`'s conversion of a
datagram, `print_*_msg` what the subscriber reads in the message, both on
sequences of bytes; a reading (type, address, port, topic, value) is what goes in
and what comes out. In `Delivery` a stream of bytes joins the two:
`HandleServerMsg` takes what one `recv()` returns, a whole message, a part, or
nothing at the end, and the rest of the structure is what was on the stack;
`reads` remembers from which byte it read and how many. `ReadingsOf` is what the
fields of a datagram can hold.
Left out: the layout of the line, the rounding of the `double`.

**Terminal.** The pieces of lines in the kernel and in stdio's buffer. `Poll` sees
the kernel's side, `FromBuffer`, `Refill` and `EndOfFile` are `getline()`, with
the command executed as part of the step that has the whole line. Four kinds of
writers: a terminal, a patient one (`test.py`), a script, one that writes parts of
lines.

**LinkedList.** Nodes are addresses of a heap; `malloc()` returns any free one
with its old contents. `NodeAt[k]` is the node `k` links from the head. The
abstract list is what a traversal reads. `ll_free` is followed by `ll_create`, as
`ht_double_hmax` needs it.

**HashMap.** `buckets[b]` is a chain of pairs. `ht_double_hmax` puts each pair
back with a full `ht_put`, which may remove, append and double again; each of
these calls is a step (`PutBack`), `work` is the stack of what the calls under
way have still to put back. `Content` is the dictionary: what `ht_get` returns,
and the pairs that wait. The key's hash is a constant.

**Trie.** A node is named by the word that leads to it. `add_subscription` and
`rmv_subscription` are the actions; `Freed` is the way back of
`trie_remove_helper`, as a recursive function. `StrayRead` is a search that meets
a letter outside the alphabet and reads `children[-1]`: the process ends or
nothing is found, as `Survives` has it in `Server`.

**TopicMatch.** `is_subscribed` on such a trie. A pointer into the topic is a
position. `Returns` is the body for a node and a position; it calls itself at
positions behind, so the recursion is a recursive function on positions. The
loops over letters are the sets of positions they stop at. `CoversByLevels` is the
reference, about slashes and not about a trie: a cut of the topic's levels into
one piece for each level of the pattern.

## 3. Runs

The runs of the server are with `MCClientServerApp`. Deadlock is not checked,
because the system may stop: everybody may stay idle for ever, and nothing runs
after an exit.

| run | instance | checks |
|---|---|---|
| `sessions` | 3 processes (2 with one id), 2 descriptors, reused; 1 command each, 1 datagram, array of 1 free entry | tables, loop, identity, delivery, commands |
| `faults` | 2 processes of one id, eager and crashing, one with an id that is too long; a wildcard and a pattern outside the alphabet, a datagram whose topic is outside it, stack bytes that spell a close or a subscription | the inductive invariant, the loop, and that every step is one of `Broker` |
| `small_buffers` | 2 ids, buffers of 1 message, 1 command each, 2 datagrams, every line at the terminal | types, tables, loop and delivery when `send()` blocks |
| `liveness` | 2 processes of one id, one with 2 commands, buffers of 1 on both sides, 2 datagrams, `exit` at the server | exits, connections, datagrams and the end of the server have their effect |
| `messages` | 11 readings of the 4 types, 2 of them in a row, short reads, a close message or a sudden end | readings are shown as published; none is lost before the end |
| `terminal` | 4 lines of 1 or 2 pieces, a buffer of 3, every kind of writer | `getline()` does not block on whole lines; patient users get every line executed |
| `hash_map` | 6 keys, 2 to 16 buckets, 2 values | the table is consistent, doubling does not nest, it is a dictionary |
| `linked_list` | 4 nodes, 2 values | the chain is sound, it is a sequence |
| `topics` | tries of up to 4 of 20 topics and patterns, `size` up to 4, 39 topics of datagrams | shape and counters, it is a set, matching is the definition by levels |
| `dies`, `refused`, `killed_subscriber` | small | the disagreements of section 5 |

Bounds. Two processes of one id are a duplicate or a restart; with a third
process the array has an entry before or behind the one that is closed (longer
arrays are left to the proofs), and the lowest free descriptor is a reused one.
`InitialNfds` of 3 or 4 makes the array grow (the code starts with 256, a number
no test reaches). One command and one datagram per process already interleave
with every connection event, and the commands of an id come from two processes
in turn; only `liveness` has two commands in one connection. `sessions` takes the
two processes of one id as symmetric, which they are in `Init` and `Next`; it
checks no liveness. A command buffer of 3 never fills in `sessions` and `faults`,
where blocking is not the question; in `small_buffers` and `liveness` both
buffers hold one message, so that two datagrams block the server, and two
commands, or a command and the exit, block a subscriber; in `liveness` they block
each other (`MutualWait`). `sessions` has one pattern; that a subscriber with
several matching patterns gets a datagram once rests on `FanoutOnce`.
`IdOf` is an id as far as it fits (11 characters); of a
longer one at most a message is left in the stream, which covers ids of up to 66
characters. An empty id, which is never sent, is not among the ids. In `messages` a byte has 8 values, so that the ranges of
2 and 4 bytes have ends that arithmetic on a few thousand reaches, and `INT` also
gets magnitudes an `int` cannot hold; a topic of 2 and a payload of 6 bytes can
be short and full; two readings show what the first leaves behind for the second.
`MaxOdd` allows two short reads, enough to get out of step and back. A buffer of 3
pieces cuts the second of two lines of 2 pieces. For the hash map, six keys double the
table three times, and three keys share a bucket before the last doubling. Three
nodes have a first, a middle and a last one; the fourth is the one that comes
or goes. A third level lets `*` stand for one or two levels on either side of
a literal one. `MaxSize` bounds `trie->size`, which the program does not.

Fairness. `WF` of the server's step and, for each subscriber, of what it does
without its user (`Unprompted`: sending its id, receiving, failing in a blocked
`send()`, and the `close()` behind a `send()` that has returned), and in `Terminal`
of the reading process: each is a runnable process of a fair scheduler, and each
loop returns to `poll()`. Users, writers and providers owe nothing: typing and
arriving are not fair. No strong fairness is needed.

Fairness of sending the id means that no connection stays silent after `accept()`:
the server would wait in `recv()` for it, and everybody else with it. The liveness
properties say of each wait (of one who has exited, who connects, of a datagram, of
everybody once `stop_program` has begun) that it is not for ever (`[]<>`). They
except a mutual wait and the end of the server, nothing else (`Settled`):
`MutualWait` is the state in which the server and a subscriber wait in `send()` for
each other, which neither ever leaves.

## 4. Proofs

The theorems hold for every value of the constants that satisfies the `ASSUME`s
of the modules: any number of processes, ids, descriptors and patterns, any
buffer sizes, lists, words and tables of any length, and, where nothing else is
said, all faults: eager users, crashes, over-long ids, any stray topics and
leftovers of the stack, letters outside the alphabet. In every module there is one invariant that each step
preserves, one lemma per action, and under it one step per conjunct the action
can disturb.

### The server and its subscribers

`ClientServerApp_proofs`, first part: `Invariance` (`Spec => []IInv`),
`TypeCorrect` and `RegistryCorrect`. `IInv` is `TypeOK`, `RegistryConsistent` and
what they need to be inductive. `StreamShape`: behind the id a stream holds
commands only, so that the id read by `ReceiveId`, even when it coalesces, is one
the map is defined on. `CursorInRange`: a traversal stands on a list node.
`ReportedIsReady`: what `poll()` reported of the fixed descriptors is still there,
so `Head(udp)` and `Head(backlog)` exist. `SessionsOpen`: also while the server
stops, each connected record has a descriptor of its own, open. The delicate
lemmas are `ShiftPfds` (the shift of the poll array removes exactly one
descriptor), `CloseSub`, `AddNewSub` and `ReviveSub`.

Second part, the loop: `LoopServesOnce` (`EveryReadyServedOnce`) and
`LoopNeverBlocksReading` (`NoBlockingRecv`). The inductive invariant adds
`ConnectionsOnce`, that no process is behind two descriptors or in the backlog as
well, and `AheadReadable`. What a subscriber does never takes away what `poll()`
announced, and a handler takes from its own connection only; so what is ahead of
the loop index stays readable, and a reused descriptor cannot be mistaken for a
reported one, because the entry of a new connection has no `revents`.

`Broker_proofs` has four parts.

*Datagrams*: `DeliveryInvariance` (`DeliveryInv`) and `FanoutOnce`
(`FanoutExactlyOnce`). `Numbered` orders what was sent before what waits;
`HandedOut` says that the datagram in hand has been sent to exactly the
subscribed sessions behind the cursor. At the last node these are all of them;
that each is sent it once follows from the order of the log.

*Refinement*: `KeepsPromise` (`Spec => ImplementsBroker`). `IdsStay` keeps
`IdsAgree` while the server stops, when `RegistryConsistent` says nothing any
more. Then each action is mapped to an action of `Broker` or to a stutter:
`ReceiveId` to `Attach` or to nothing, `HandleSubMsg` to `Detach`, `Subscribe`,
`Unsubscribe` or nothing, a node of the traversal to `HandOut`, `Finish` or
nothing, every end to `Stop`. A misread message is mapped like a read one: what it
changes is the topics of a session, or the session.

*Identity*: `IdentityOfSessions` (`RegisteredUnderOwnId`) and `OneSession`
(`OneSessionPerId`), with the assumption `Faults = {}`: patient users, and
processes that end with `CLOSE_SUB_MSG`; ids may be too long, they are cut. Without
it both are false, see section 5. `IdIsFirst`: until its id is read, a process has sent the id at most;
this is what patience gives, and it makes what `ReceiveId` reads its own id.

*Commands*: `CommandsStored` (`CommandsApplied`), with the same assumption, for the
same reason, and with `Overlong = {}`: the rest of an id that does not fit puts the
stream out of step. What a user asked for must be what is stored, with the
commands that are still in the connection applied to it. For the record of an id
in session these commands are in the stream of one process (`InSession`); for one
that is not there are none. `CommandsInv` says this of each record
(`RecordApplied`), that no stream is out of step, and that nothing was asked for
under an id the server does not know. The lemmas about `Replay` say what a
command added behind the others, or taken from their front, does to the result;
they are inductions over the length of the stream, see `Iteration_proofs`.

`Iteration_proofs`: for a function applied `n` times, which is what a fold over a
sequence is, there is one result for each `n`, and it obeys the recursion. The
induction is done from the least counterexample.

### Terminals and messages

`Terminal_proofs`: `GetlineReturns` (`NoBlockingRead`), with lines of any number
of pieces and a buffer of any size. `ReadInv`: what `getline()` holds of a line has
no newline, the last piece of what is still to be read (in the kernel, else in
the buffer) is the last piece written, and `getline()` was entered for a reason,
something read or to be read, or a closed terminal.

`Delivery_proofs`: `DeliveryLosesNothing` (`NothingLost`), for any sizes of topic
and payload and any readings that `ReadingsAssumption` allows. `StreamInv`: while
no `recv()` was short the stream is a row of whole messages (`Framed`: a position
for each, `Cuts`): as many readings as were sent and not yet shown, and a close
message behind them exactly when the server stopped. This is what a
stream without frames has instead of a length field: the messages can be told
apart because all have one size.

`MessagesShownAsPublished` (`ShownAsPublished`) has two halves. The first is about
one message (`MessageShown`): what `Shown` reads in the `srv_msg` of a reading is
`OnTerminal` of the reading. `LoadStore` and `StoreLoad` say that two and four
bytes and a number determine each other, for any base, from the uniqueness of
quotient and remainder; with `ReverseTwice` a number or an address that passes
several byte orders arrives. `IsMessage` is where each field begins and what is
behind a text that does not fill its field, so that a text ends where it
should, at full size too; `IntIs` is the arithmetic of `int` at the ends of its
range. The second half is about the stream: with short reads the boundaries of
`Framed` are lost, so `ShownInv` has the bytes instead (`Placed`): byte `i` of the
stream is byte `Taken + i` of all the server sent. A read of a whole message at a
multiple of the size is then one message, byte for byte, and the close message
is not shown.

### The data structures

`LinkedList_proofs`: `ChainIsSound` (`ChainSound`) and `ListIsASequence`
(`ImplementsSequence`). `ListInv` has the nodes of the chain as a sequence of
`size` different addresses, bounded by `head`, `tail` and `NULL`; `NodeAt` is shown
to walk along it, and each call to insert in it or remove from it. That a freed
node keeps its link, and that a new one may have any, does not matter because no
node of the chain links to it.

`Trie_proofs`: `NodesOfWords` (`TrieShape`) and `TrieIsASet` (`ImplementsSet`). The
nodes are those `Needed` by the words and are words over the alphabet; each but
the root has its parent. The core is what `trie_remove_helper` frees: by induction
from the removed word to the root, a node is freed exactly when no other word
needs it.

Also `MatchingByLevels` (`MatchesByLevels`), for topics without an empty level (see
section 5). `Found(t, c, x)`: some pattern runs through the node `x`, and what it
has from there covers the topic from its slash `c` on (`CoversFrom`).
`ReturnsOfLevel` says what the letters of one level do: they lead to `+`, to `*`
or to a node of the level itself, and each of these is a level of a pattern because the
nodes are the prefixes of the patterns (`TrieShape`). So `is_subscribed` is right
at a slash when it is right at the later ones (`RightOneBefore`); the induction
goes from the end of the topic to its start, and another one shows that the
recursive function exists (`CallsExist`).

`HashMap_proofs`: `TableTypes`, `TableIsConsistent`, `NoDoublingWhileDoubling` and
`HashMapIsADictionary` (`TypeOK`, `TableConsistent`, `NoNestedDoubling`,
`ImplementsDictionary`), with any number of keys and buckets and any hash.
`TableInv`: the chains are `Good` (each pair in its bucket, no key twice), the
pairs that wait have keys that are not in the table and differ, `size` counts the
table, at most one doubling is under way, and the pairs in the table and the
waiting ones together stay below the load factor of the doubled table. The last
conjunct is why a `ht_put` made by a doubling never doubles again.

### Only model-checked

* All liveness, the four properties of the run `liveness` and
  `LinesOfPatientUsers`: fairness and `ENABLED` are outside this prover's reach.
* The three disagreements of the next section that have a run: it shows a
  behaviour, which is all there is to show.

## 5. Where code and documentation disagree

* `dies`: `DIE` is described as what "should not happen", but an ordinary exit
  of a subscriber to which a datagram is on its way makes a later `send()` fail
  and ends the server.
* `refused`: the README of the program names two reasons for which a connection
  cannot be made; a quick restart is a third one.
* `killed_subscriber`: at end of file an old message, also another
  subscriber's, is executed.

Also against a document, without a run of their own because the passing runs
reach them:

* `handle_udp_msg` shall send a datagram "further to all his subscribers"
  (`server.h` lines 129-130), but when the server waits in `send()` for a subscriber
  that waits in `send()` for the server, neither goes on, and nobody gets anything
  any more. This is `MutualWait`, reached in `liveness`; without that disjunct
  `DatagramsArrive` is false, with it it says that nothing else holds a datagram up.
* The quick flow test (`test.py` lines 518-547) shrinks the socket buffers and
  expects every message to be shown correctly, but a `recv()` of a part of a message
  shows a mixture of the new and of an old one (`subscriber.c` line 213), which
  `messages` reaches with its short reads. `ShownAsPublished` is about messages that
  were read whole, `NothingLost` about streams without short reads.

Without a document that says otherwise, but worth knowing:

* With `Faults = {"eager"}` `RegisteredUnderOwnId` is false: one `recv()` takes
  the id and the first bytes of a command behind it (`server.c` line 365), and the
  subscriber is registered under an id nobody has.
* The address of a provider is shown with its bytes reversed on a little-endian
  machine: `ntohl` (`server.c` line 284) is not undone before `inet_ntoa`.
  `OnTerminal` says so.
* In a stream out of step, after a coalesced or an over-long id, the server
  subscribes the record to "", or to a topic that stray bytes spell (`server.c` lines
  424-431). The topics or the session of that record change by it, and the server may
  end; nothing else goes wrong: that is what `faults`, `Invariance` and `KeepsPromise`
  say.
* A subscriber whose server has gone without a close message shows what is on its
  stack for ever (`subscriber.c` line 213); `NothingLost` says that this comes after
  all it was sent.
* A datagram whose topic has a letter outside the alphabet makes `is_subscribed`
  read outside an array (`server.c` line 255).
* A line that comes through a pipe with an earlier one waits in stdio's buffer
  until more input arrives (`server.c` line 167, `subscriber.c` line 122);
  `LinesOfPatientUsers` holds for terminals and for writers who wait.

Without effect: `trie->size` ("Number of keys", `trie.h`) counts a topic again when
it is subscribed to again; nobody reads it. Outside the hypothesis of
`MatchesByLevels`: for a topic with an empty level (`/a`, `a/`, `a//b`) the code
differs from the definition by levels; `*` does not match `/a` or stand for an
empty level, while `+` stands for one behind a `/`. No document of the
repository says which is meant.

## 6. Plan

1. (done) `Sockets`, `Server`, `Subscriber`, `ClientServerApp`, their runs,
   and the inductive invariant.
2. (done) The data structures behind the server: `LinkedList`, `HashMap`, `Trie`,
   each implementing its abstract module, and `TopicMatch`.
3. (done) `Broker`, implemented by `ClientServerApp`; the bytes of the messages;
   the buffered lines at the terminals.
4. (done) Theorems about the loop, the datagrams, the refinement and the
   identity of sessions.
5. (done) Theorems about the stored subscriptions, the terminals, the stream of
   messages, and the data structures with their abstract modules.
6. (done) Theorems about `is_subscribed` and about what is shown of a message.
   With these every safety property that a run checks has its theorem; left are
   the liveness properties.
7. (done) What is read in a stream out of step, over-long ids, datagram topics
   outside the alphabet, and `send()`s that block before a `close()`, in the model,
   the runs and the proofs; the mutual wait as the one exception of liveness.

Not modelled, and why: a connection that stays silent (above); ids of more than 66
characters; the layout of what is printed and the rounding of a
`double` (formatting); datagrams shorter than their header, which providers do
not send; memory that is not freed; `setsockopt` and the other calls of start-up
that fail only on misuse; the letters of commands and topics, which are in
`Server` an element of a set and in `Trie` a word; the tests and the build files.
