# TLA+ development of FileHopZ

FileHopZ copies a directory tree between two hosts over UDP.  `ProtoHopZ` is a
reliable datagram layer (numbering, ACK, retransmission, congestion window),
`ProtoStream` puts its packets in order, and `Sender` / `Receiver` carry out a
small dialogue over it.  Everything runs as C++ coroutines on one `io_context`
thread, so concurrency is interleaving at `co_await`, plus the network.

Line numbers below refer to `src/protohopz/protohopz.cpp` (P),
`src/protohopz/protostream.cpp` (S) and the files named.

## 1. Inventory

| Component | State | Operations | What makes it correct |
|---|---|---|---|
| ProtoHopZ, sending half (P) | `in_flight_`, `cwnd_`, `sshthresh_`, `sequence_counter_`, `drained_signal_`, `loop_error_`, `loops_started_` | `send_packet`, `ack_handler`, `timeout_loop`, `resend_packet`, `wait_in_flight_drained`, `start_loops`, `stop_loops`, `store_loop_error` | no lost wake-up, bounded window, a packet leaves `in_flight_` only for a reason, an honest drain |
| ProtoHopZ, receiving half (P) | `received_packets_`, `received_packets_queue_`, `peer_endpoint_` | `receive_loop`, `send_ack`, `receive_packet` | what is acknowledged is kept; each number is handed on once |
| ProtoStream (S) | `packets_buffer`, `expected_sequence`, `ready_chunks_`, `loops_running_`, `stream_error_` | `send`, `receive`, `close`, `start_loops`, `receive_chunks_loop`, `store_stream_error` | ordered exactly-once delivery; `close` ends |
| Handshake and encryption | `connection_encrypted_`, `Crypto_context` | `handshake_initiator`, `handshake_responder` | both sides switch to encryption without losing DATA |
| `Async_value`, `Async_queue` (`include/utils`) | value or queue, waiters | `set`, `update`, `notify_one`, `wait`; `push`, `pop`, cancellation | each waiter completes once, no value is lost |
| Sender, Receiver, File_transfer | `bytes_to_transfer_`, `bytes_remaining_`, `file_id_counter_`, `end_transfer_flag_` | `transfer_confirmation`, `start_transfer`, `path_handler`, `handle_packet` | the committed tree is the one sent; sizes agree |
| File_builder | staging tree, `open_files_` | `create_*`, `write`, `close_file`, `commit`, `cleanup` | the user's files are untouched until `commit` |
| File_walker | iterator, single-file flags | `next`, `reset` | directories before their contents; special files and what cannot be seen are left out of both walks |
| Crypto_context | keys | `init`, `set_peer_public_key`, `encrypt_data`, `decrypt_data` | both sides derive the same key; no use before it is ready |
| Errors, logger, main, build files | - | - | not modelled: no state a property is about |

How they interact: the application coroutine calls `ProtoStream::send`, which
calls `send_packet` (posts itself to the strand, may wait in `cwnd_.wait`,
registers the packet, hands it to the socket).  `receive_loop` of the peer
acknowledges first (P:600), filters duplicates, and pushes to a queue that
`receive_chunks_loop` pops; that loop reorders and pushes to `ready_chunks_`.
ACKs wake the blocked sender synchronously (`notify_one` dispatches inline).
`timeout_loop` polls every 10 ms for late packets and for a silent peer.  Any
failure of a loop goes through `store_loop_error`, which wakes every waiter.

Each endpoint is a process of its own.  The sender asks with the announcement of the
size, the receiver's user answers `y` or `n` in a `std::getline` that
blocks the only thread, the sender sends the tree and `END_TRANSFER`, and both
call `close`.  Errors and refusals end a side without `close`, so the other one
learns of them by its idle timeout only.

The hard behaviours are wake-ups that race with a changing window, snapshots
that are used after a `co_await`, an ACK that is sent before the packet's fate
is decided, restarts of the loops after an error, and a close that races with
ACKs, a timer and a failure.  `PROJECT.json` lists each with its line.

## 2. Modules

| Module | What it models |
|---|---|
| `Datagrams` | the UDP service under one direction (external): datagrams and ACKs may be lost, delayed, repeated, reordered |
| `SendHalf` | everything that touches the sending state of one endpoint, with its properties |
| `ReceiveHalf` | the DATA and HANDSHAKE branches of `receive_loop` and `receive_chunks_loop` |
| `FifoChannel` | the abstract promise: the receiver is handed exactly the messages sent, in order |
| `Link` | the two halves and the network composed: one direction end to end |
| `LinkInvariants`, `ConnectionInvariants` | the inductive invariants of the link and of whole endpoints, in named parts |
| `CryptoContext` | `Crypto_context` as operators on a record: key pairs, key agreement, outcomes of each call |
| `Connection` | whole endpoints: handshake, both directions, encryption, peer address, idle timeout, restart, user's answer, end of the processes |
| `AsyncQueue`, `AsyncValue` | the two primitives every wait goes through: waiters, inline resumption, cancellation |
| `TreeOverlay` | the abstract promise of a transfer to the receiving user: whole entries, only after `END_TRANSFER`, no directory replaced |
| `FileBuilder` | `File_builder`: staging tree, open files, `commit` entry by entry, `cleanup` |
| `Transfer` | `Sender` with both walks, `Receiver` with `FileBuilder`, the streams between them |
| `MCSendHalf`, `MCLink`, `MCConnection`, `MCAsync`, `MCTransfer` | specifications for TLC: environments, conditions on steps, fairness |
| `LinkTypes` | proof of type correctness of the link, helper lemmas |
| `LinkProofs` | proofs of ordered delivery and of the refinement of `FifoChannel` |
| `KeepProofs` | proofs about acknowledged messages, the reorder buffer and the drain |
| `SendHalfProofs` | proofs about the waits, the window and the bookkeeping of the sending half |
| `AsyncProofs` | proofs about `Async_queue` and `Async_value` |
| `FoldLemmas` | what a `FoldLeft` of the community modules does, step by step, for any operator |
| `ConnectionProofs` | proofs about whole endpoints: types, key agreement, encryption, consent |
| `TransferProofs` | proofs that a transfer refines `TreeOverlay`, that a commit leaves the whole tree, and that what is committed is what was announced and what was there |

`Link` composes `SendHalf`, `ReceiveHalf` and `Datagrams`; `Transfer` composes the
two applications with `FileBuilder` over the promise of `FifoChannel`;
`Connection` composes whole endpoints with `CryptoContext` and leaves to the other
modules what they already show (window, drain, reorder limits, contents).

### Correspondence of `SendHalf`

Actions have the names of the functions.  A function that suspends is several
actions; `pc` is the suspension point of the application coroutine (`PcStates`
lists them with the `co_await` each stands for).  Because `Async_value`
dispatches inline, the ACK that opens the window also runs the rest of the
blocked `send_packet` up to its own `async_send_to` (`Register` inside
`ack_handler`).  The parallel group of the drain is the exception: it resumes
`wait_in_flight_drained` later, so `drain_fired` is a state of its own.

`send_time` is abstracted to one bit per packet, `late` (TIMEOUT has passed);
`Age` sets it at any time, so no assumption on the clock is made.  `cwnd_` and
`sshthresh_` are doubles in the code and multiples of `1/Unit` here; `1/cwnd` is
rounded down.  `timed_out` and `resending` are what `timeout_loop` still has to
do of its snapshot; the order of an `unordered_map` is arbitrary.

`aborting` stands for a cancelled loop whose completion handler has not run.
`start_loops` may run first and clear the error; the handler then stores
`operation_aborted` as the error of the new loops.  A loop that ends by the
exception of a cancelled `co_await` carries no code, so the handler may also do
nothing: both outcomes are allowed.

The application stops after an error, as `Sender` and `Receiver` do
(`failed`).  `sent`, `confirmed`, `drained` and `delivered` are history
variables; no guard reads `confirmed` or `drained`.  `sent` stands for the
messages themselves (their contents are their numbers).

### Correspondence of `ReceiveHalf` and `Link`

`push` resumes `receive_chunks_loop` inside `receive_loop`, so one datagram is
acknowledged, filtered, checked against the window, buffered and flushed in one
action.  `reject_data` is a packet that `decrypt_data` refuses *after* its ACK
left.  `phase` is the life of the receiving endpoint.  Only one direction is
modelled; the answer of the responder, which travels in the other one, is the
step `AnswerArrives`, enabled once it has been sent.  A second handshake, after
a restart, is never answered with a key: the only packets that can reach it are
8-byte application packets, which `handshake_initiator` refuses.

### Correspondence of `FileBuilder` and `Transfer`

A tree is a function from paths to entries; `Above` gives the directories a path
lies in.  The size of a file stands for its contents and `owner` for whose they
are, so an entry of the output tree that is cut short or not replaced is told
from the right one; a change of a source file that keeps its size is not seen.
An operation of `File_builder` has no `co_await` and is one action, except
`commit`: another program, a kill or an error may come between two entries.  An
error of the file system is allowed in every operation: `fail_transfer` in
`receive`, the third alternative of `commit`.  The data of an open file counts
as written when its stream is closed.

`spc` and `rpc` are where the two application coroutines are.  Of the layers below
only the promise of `FifoChannel` is used: packets arrive in order, and either
side may get an error at any time (`sender_fails`, `receive_error`), whether
it was a cancelled loop, the idle timeout or the file system.  No side tells the
other that it has failed: the code returns without `close()`.  The sender
is the program's own; `File_walker` is the order it promises (`Unvisited`), the
second walk sees the tree as it is then, and `SourceChanges` lets others write to it,
remove entries or take away the right to see some, between and during the walks.  New
entries, and entries that can be seen again, are left out: the iterator may or may not
report them.

`hidden` is what `File_walker` does not get to see: `next` prints a message and goes on where
the status of an entry cannot be read (`file_walker.cpp:43-47`), and the iterator passes a
directory that cannot be opened as an empty one (`skip_permission_denied`, 18 and 85).  A
hidden entry hides what lies in it (`Hideable`); a directory that cannot be opened is seen
itself.  `Walked` is what is left, so an entry that is hidden from both walks is
neither announced nor sent, and the transfer succeeds without it.

A path longer than a packet is in `LongPaths`.  `set_payload` refuses it, and
`path_handler` looks at the result for a symbolic link only (`sender.cpp:102`).  The
header of `CREATE_FILE` is not initialized: the size it happens to hold may be
that of the packet for an earlier file, whose path still lies in the payload, or a
size that gives no path at all (`SentAs`), or one too large to be sent
(`sender_fails`).  `Walked` leaves out special files, as `File_walker::next` does.

### Correspondence of `Connection` and `CryptoContext`

An endpoint is a record with the members of `ProtoHopZ` and `ProtoStream` and the
place of its application coroutine (`at`).  `Async_queue::push` resumes its
waiter inside the call, so a datagram runs `receive_loop`, `receive_chunks_loop`
and the application in one step: `Push`, `Chunk`, `Hand` and `Take` are the parts of
that step, named after the functions they stand for.  `Awake` is the effect of
`getline`: in `asking` none of the endpoint's loops runs.  A packet in the clear
has `key = NoKey`; ciphertext that is read as a packet has a header made of its
random nonce (`nonce`: "junk" is refused by the application, "lucky" is not).

A `Crypto_context` is a record and each operation the set of its outcomes, because
every call of OpenSSL may fail after it has changed something.  Key pairs are
numbers in the order of their public keys; X25519 and HKDF are what the code relies
on: the secret is the set of the two pairs, the key is the secret with the salt.

`connection_encrypted_`, the counter and the derived key outlive `start_loops`, while
the key pair does not.  A restarted sender sends a second HANDSHAKE with a new public
key over the connection that is encrypted already; the peer skips it and keeps the
old key, and so must the sender.

### Correspondence of `AsyncQueue` and `AsyncValue`

One action per call.  A handler is the name of the coroutine that waits; `pending` is
who really is inside `pop()` or `wait()`, so a handler left over in `waiters` shows
as a value that is lost or a coroutine that is resumed twice.  The waiter that `push`
or `set` resumes may call `pop` or `wait` again before the call returns: `set` runs the
handlers one after the other, and any subset of the woken coroutines waits again
(`Rejoin`).  Cancellation is the timer of
`wait_in_flight_drained`, and the signal that stops the loops, which also `close()` emits
(S:127), for a `pop`.

## 3. Runs

| Run | Question | Bounds |
|---|---|---|
| `send_half` | wake-ups, window, drain, bookkeeping against a peer that may acknowledge anything or nothing; a blocked send and a `close` return | N=3, cwnd 2..3, MAX_IN_FLIGHT 2: the window fills, blocks, grows, collapses |
| `link` | everything at once: loss, duplication, failures of both endpoints, restarts, stops; refinement of `FifoChannel` | N=2 messages, Window=1, Cap=2: reordering needs two messages |
| `link_windowed` | more messages than the window holds, cap equal to the window as in the source | N=3, Window=2, Cap=2, no failures |
| `link_live` | eventual delivery over a fair-lossy network | N=2, window of one packet, so that the second send blocks |
| `connection` | keys, encryption and consent with every fault and a restart, or with two senders at one receiver | three key pairs (a restart draws the third), two messages of content; nothing is lost, which only adds behaviours since a kept datagram may never be delivered |
| `connection_live` | the dialogue completes when nothing but the network fails; nobody hangs when one process dies | one sender, one message of content, one key pair each |
| `async` | the two primitives, with inline resumption and cancellation | three coroutines and six values on a queue; four coroutines on a value |
| `transfer` | a whole transfer with failures, kills and a changing source; refinement of `TreeOverlay` | three places (a directory with one place, and one beside it), every tree of files, directories, links and special files over them; files of 0 or 1 packet; one change of the source, enough to make the two walks disagree; where entries are hidden from the start, the output directory is empty and can be written to (what the walk sees says nothing of the receiver's tree) |
| `transfer_live` | a transfer in which nothing fails completes; with failures, and a path that is too long, the receiver's wait ends | files of 0 to 5 units with packets of 2: the last packet is full, short or empty (0 to 2 where faults are possible); entries are hidden only where nothing fails |
| `link_out_of_window` | (violated) the comment at S:217 | N=3, Window=1 |
| `connection_idle` | (violated) the README on the answer of the user | one sender; nothing fails, the user takes longer than IDLE_TIMEOUT |
| `transfer_long_path` | (violated) what `start_test.sh` demands | two files, one with a path longer than a packet |

`CHECK_DEADLOCK FALSE` everywhere but in `async`: a closed or failed endpoint stops,
and so does a dialogue or a transfer whose two sides have ended.

`Spec` of `Link` puts no condition on the sender.  `WindowedSpec` (and
`HealthyWindowedSpec`) adds the one condition the code relies on and does not
enforce: the numbers A may still have to resend span at most one window of the
receiver (`SenderWithinWindow`).  `link` imposes nothing: a window of 1 admits the numbers
`expected_sequence` and the one after it, which are all that two messages
use.  `link_windowed` imposes the condition on longer runs, and there a cap equal to the
window, as in the source, is enough; the cap is within reach only there, so
`BufferedIsFlushed` is checked there.
`link_out_of_window` shows what happens without it.

`HandedIsPlain` (`connection_live`) is checked under `PromptCompletion`: a reactor
completes a finished write before it reads the next datagram of the same socket.
Nothing in `receive_loop` enforces that order: the responder counts as encrypted only
once its `send_packet` has returned (P:315-322), and DATA read before that would be
handed on as ciphertext.

Every property has a mutant in the modules (operators named `X_Something`, a
plausible bug of `X`) that breaks it.

### Fairness

* `MCSendHalf`: weak fairness of posted handlers, of the drain's timer and of the
  parallel group's completion; IDLE_TIMEOUT while a send is blocked.  Nothing is
  asked of the network, and `CloseReturns` owes nothing to IDLE_TIMEOUT.
* `MCLink`: weak fairness of posted handlers, of socket completions, of the passing of
  TIMEOUT and of `timeout_loop`'s passes (a 10 ms timer); strong fairness of
  delivery per sequence number: a packet that is resent for ever gets through, and
  an ACK that is sent again for ever does.
* `MCConnection` (`LiveSpec`): the variable `faults` is chosen at the start.  Without
  faults: posted handlers, completions and the answer of the user, retransmission
  of what is lost, a fair-lossy network, and `close` that waits for a living peer.
  With faults: one process may be ended, the user may think for ever, and
  IDLE_TIMEOUT passes again and again; then only ACKs of living endpoints get
  through fairly.
* `MCTransfer` (`LiveSpec`): a side that runs takes its next step, and the idle timeout
  fires once the sender has ended and nothing is under way.  It is not fair to the
  user's answer where faults are possible, so `ReceiverEnds` starts after it.
* `MCAsync` asks for none: `notify_one` is called for an ACK and once by `store_loop_error`
  (P:162), which owes nothing to a second waiter.  The program has one coroutine in
  `cwnd_.wait`; that it is woken is `BlockedSendReturns`.

## 4. Findings

* `link_out_of_window`: a packet beyond the window is dropped after its ACK was
  sent, so the sender forgets it; the comment at S:217 says it will be resent.  It
  needs a sender whose numbers span more than the window.
* `connection_idle`: `std::getline` (`receiver.cpp:87`) blocks the only thread, so a user
  who takes longer than IDLE_TIMEOUT (60 s) finds that the sender has given up; the
  README names no limit.
* `transfer_long_path`: the ignored result of `set_payload` (`sender.cpp:168`) lets a
  file with a path longer than PACKET_SIZE be written over an earlier one, and both
  sides report success.

Without a run of its own: `File_walker` leaves out what it cannot see and goes on
(`file_walker.cpp:43-47`, 18, 85), and since both walks leave it out alike, the transfer commits
and reports success.  `start_test.sh` asks for every file (`missing file`, line 94).  The
properties say what the code does: `TransferredIsSource` speaks of the entries the walk can
see.

## 5. Proofs

For every value of the constants that satisfies the assumptions of the modules
(`SendAssumption`, `ReceiveAssumption`, `QueueAssumption`, `PathsAssumption`,
`TransferAssumption`, `ConnectionAssumption`).  They ask for no more than that numbers
are numbers, that names differ, and that a file system has finitely many paths, each
with the directories above it; `Messages`, `Pairs`, `MaxSize` and the
other bounds are arbitrary:

| Theorem | Statement |
|---|---|
| `TypeCorrect` (`LinkTypes`) | `Spec => []TypeOK` |
| `OrderCorrect` (`LinkProofs`) | `Cap >= Window`: `Spec => []OrderInv` |
| `OrderedDelivery` (`LinkProofs`) | `Cap >= Window`: `Spec => []DeliveredInOrder` |
| `LinkImplementsChannel` (`LinkProofs`) | `Cap >= Window`: `Spec => ChannelSpec`, the refinement of `FifoChannel` |
| `HonestDrain` (`KeepProofs`) | `Spec => []DrainedMeansConfirmed` |
| `KeepCorrect` (`KeepProofs`) | `Cap >= Window`: `WindowedSpec => []KeepInv` |
| `AcknowledgedIsKept` (`KeepProofs`) | `Cap >= Window`: `WindowedSpec => []AckedIsKept` |
| `DrainedIsDelivered` (`KeepProofs`) | `Cap >= Window`: `WindowedSpec => []DrainedMeansDelivered` |
| `BufferIsKept` (`KeepProofs`) | `Cap >= Window`: `WindowedSpec => BufferedIsFlushed` |
| `HalfTyped` (`SendHalfProofs`) | `MCSpec => []SendTypeOK` |
| `NoLostWakeUp` (`SendHalfProofs`) | `MCSpec => []BlockedMeansFull` |
| `NoIdleDrain` (`SendHalfProofs`) | `MCSpec => []DrainMeansWaiting` |
| `WindowHolds` (`SendHalfProofs`) | `MCSpec => []InFlightBounded` |
| `NothingForgotten` (`SendHalfProofs`) | `MCSpec => KeptUntilConfirmed` |
| `LinkWaits` (`SendHalfProofs`) | the same waits over the link |
| `CommitOverlays` (`TransferProofs`) | `LongPaths = {}`: `Spec => []CommittedIsOverlay` |
| `TransferImplementsOverlay` (`TransferProofs`) | `LongPaths = {}`: `Spec => OverlaySpec`, the refinement of `TreeOverlay` |
| `TransferTyped` (`TransferProofs`) | `Spec => []TypeOK` |
| `CommitMeansAnnounced` (`TransferProofs`) | `Spec => []AnnouncedIsSent` |
| `CommittedIsSource` (`TransferProofs`) | `Spec => []TransferredIsSource` |
| `QueueTyped`, `QueueServes`, `QueueKeepsAll` (`AsyncProofs`) | `Spec => []TypeOK`, `[]NobodyWaitsInVain`, `[]NothingLost` |
| `ValueTyped` (`AsyncProofs`) | `AsyncSpec => []ValueTypeOK` |
| `Invariance` (`ConnectionProofs`) | `Spec => []Inv`, the invariant of `ConnectionInvariants` |
| `Typing` (`ConnectionProofs`) | `Spec => []TypeOK` |
| `NothingUndecryptable` (`ConnectionProofs`) | `Spec => []Decryptable` |
| `ConsentBeforeContent` (`ConnectionProofs`) | `Spec => []ConsentFirst` |
| `PlaintextOnly` (`ConnectionProofs`) | `PromptSpec => []HandedIsPlain` |
| `PeersUnderstandEachOther` (`ConnectionProofs`) | after both `set_peer_public_key` each context opens what the other seals |

`Cap >= Window` holds in the code: both are 65536 (S:180, `protohopz_packet.hpp:29`).

*Ordered delivery.*  `DeliveredInOrder` is not inductive: it says nothing of the
packets that are still under way.  `OrderInv` adds, besides `TypeOK`,

* `Numbering`: message i, and every DATA packet or `in_flight_` entry that
  carries it, has the number i.  The number comes from the counter that
  HANDSHAKEs and wake packets share, so this needs
* `Control`: whenever a DATA packet may get its number, the counter is exactly
  one ahead of the messages.  A second HANDSHAKE or a stored loop error breaks
  that for good, so `Unencrypted` and `Running` say that afterwards no DATA is
  sent: the stream runs only over the loops of the first successful handshake;
* `Stream`: what is handed over is `1 .. expected_sequence - 1`, and what is
  buffered has been sent.

The step that needs an argument of its own is the hard cap, which sets
`expected_sequence` to the packet at hand.  Lemma `CapMeansExpected`: a buffer of
Window entries ahead of `expected_sequence` holds all the admissible numbers, so
the only packet that reaches the cap is `expected_sequence` itself.  The cap may
lose packets of a sender that runs ahead of the window, but it never skips one.

*Acknowledged messages.*  `KeepInv` adds to `OrderInv` where each message is:
in `in_flight_` or confirmed (`Accounted`); once received, handed over or
buffered (`Kept`); once acknowledged, received.  The bound
`Len(sent) <= expected_sequence + Window - 1` is what keeps a packet from being
dropped as out of the window, and what keeps the buffer below the cap.  It is
preserved because the message B waits for is not received, so not confirmed, so
in flight, and `SenderWithinWindow` then bounds the counter.  Lemma `NextKinds`
splits every step into one that gives out a number (`Registers`) and one that
does not (`Quiet`), so that each part of the invariant has two cases only.

`HonestDrain` and `OrderedDelivery` need no bound on the sender.  The three
theorems over `WindowedSpec` do: `link_out_of_window` shows what happens
without it.

TLC checks `OrderInv` in `link` and `KeepInv` in `link_windowed`.

*The sending half.*  `BlockedMeansFull` is not inductive: a `send_packet` that is about
to wait must find the loops alive or their error stored.  `LoopsKnown` says so: with
neither, the stream has not been started or is closed.  Whenever the coroutine waits,
something is in flight (`EmptyIsOpen`: with nothing in flight the window is never
full, as it is at least one packet), and a timeout that collapses the window wakes
nobody but leaves it full (`OnePacketIsFull`).  The environment acknowledges any
number at any time, so the facts carry over to `Link` (`LinkWaits`).

*The transfer.*  The invariant has to speak of the packets under way.  `Replay` says that
a sequence of packets takes a staged tree and its open files, packet by packet, to
another pair; `Promised` says that the packets under way take what is staged now to
what the sender has read (with the file that is open, and its bytes so far).  A send
appends one packet at the far end (`ReplayAppend`), a receive takes one off the near
end (`ReplayTail`), so each side's step is checked against one packet only
(`Handled`).  When `END_TRANSFER` is taken nothing is under way, so what is staged is
what was read; `Committing` then says where each entry is during the commit.  An
entry that is committed lies in directories that are there (`EntryMoved`), so each
step of the commit is one `Install`.  `LongPaths = {}` is needed: `transfer_long_path`
shows what happens without it.

`TypeOK`, `AnnouncedIsSent` and `TransferredIsSource` need no such condition: they are
proved from invariants of their own.

* `Account` (for `AnnouncedIsSent`): `bytes_remaining_` at the receiver, less the data
  of the packets under way (`Budget`), is what the sender has announced and not yet
  sent (`Unsent`).  A send lengthens the budget at one end and a receive shortens it
  at the other, as for `Promised`.  A commit follows `END_TRANSFER`, with no packet
  left and `bytes_remaining_` 0, so the two walks have seen the same number of bytes.
  The announcement is a fold over the set of entries.  `TotalSums` shows that this sum
  exists and `SumsAgree` that it does not depend on the order in which the
  entries are taken: an induction over finite sets (`SetInduction`).
* `Faithful` (for `TransferredIsSource`): while nobody changes the source, each entry
  that has been read is the one that is there, and when the walk has ended all that it can
  see and that are no special files have been read.  The second half is `WalkReachesAll`: among the entries a walk has not reached,
  one that lies in the fewest directories would have been next, since the directories
  above it are seen as well (`Hideable`) and so reached.

*Whole endpoints.*  `Decryptable` and `ConsentFirst` speak of two endpoints and of the
packets between them, and fail without knowing what each packet says of its sender.
`Inv` of `ConnectionInvariants` has these parts:

* `Local`, for each endpoint by itself: `Typed`, `Control` (where its coroutine is,
  against `loops`, `loop_error` and `connection_encrypted_`) and what holds of one role
  only (`ResponderOK`, `InitiatorOK`), such as that its counter is
  ahead of its messages by one as long as no error has been stored;
* `Traffic`: whatever lies in the network, in an `in_flight_` or in a queue is a packet
  of the dialogue (`Genuine`), and `Tells` what its sender must have done: a HANDSHAKE of the
  responder carries the public key of its present key pair, DATA means that the
  sender is encrypted and has come this far in the dialogue;
* `KeysMatch`: a sender that is encrypted is the peer the responder has settled on,
  with the same key; while it is not, the responder's key is the one that this
  sender will derive from the answer under way.  This is what a restart with a new key
  pair could break: the key is derived once, by whichever HANDSHAKE came first, and
  `crypto.own` of a sender that is not encrypted is still the one it sent;
* `Consent`: content is sent after CONFIRM only, and CONFIRM goes to the peer.

One datagram runs `receive_loop`, `receive_chunks_loop` and the application in one step,
for as many packets as were buffered, so the step folds `Hand` or `Chunk` over a
sequence.  `FoldLemmas` shows, for any operator, that a fold has intermediate values
(`FoldSteps`); the invariant is then carried along them (`NatSetInduction`: induction
over the naturals for a set, from the well-foundedness of `<`).  `Moves` collects what one
endpoint's step may change of what the other endpoints rely on, so that each
action needs one argument about its own endpoint and one lemma does the rest.

`HandedIsPlain` is proved from `Inv` and `PlainInv` for `PromptSpec`, whose only difference
from `Spec` is `PromptCompletion`; section 3 says why it is needed.  `connection` does
not check `HandedIsPlain`, because it does not hold there.

Before each proof TLC checked the invariant on the constants of the run: `Inv` on those of
`connection` with a restart, `PlainInv` on those of `connection_live`, `Account` and
`Faithful` on those of `transfer`.

*The two primitives.*  `TypeOK` (each waiting coroutine is in `waiters_` exactly once) and
`NobodyWaitsInVain` are inductive together, and with them no value goes to a handler
that is empty, which is what `NothingLost` needs.  For `Async_value` the step that
needs an argument is `set`: the coroutines that wait again while the others are still
being woken form a list of their own, in which each is once (`WokenRejoin`, by
`FoldLemmas`).

## 6. Only model-checked

* Liveness (`CloseReturns`, `EveryMessageDelivered`, `BlockedSendReturns`, `ReceiverEnds`,
  `FaultlessCompletes`, `DialogueCompletes`, `ConnectedEnds`): the
  prover has no ENABLED and no liveness under fairness.
* `DrainedMeansConfirmed` in `send_half` is checked there, where the peer may acknowledge
  anything, and proved over the link.
* `CommittedIsOverlay` and the refinement of `TreeOverlay` where a path does not fit into a
  packet: there they do not hold (`transfer_long_path`).

## 7. Not modelled

* The cryptography of OpenSSL beyond key agreement and "only the key that sealed a
  packet opens it"; texts of errors and logs; the command line.
* Several application coroutines on one stream: the program has one.
* The wrap of the 32-bit sequence counter: it takes about 5 TB in one connection.
* The growth of `received_packets_`, and memory in general.
* The layout of `FTProto` packets and the syntax checks of `validate_relative_path`, of
  which only the refusal of an empty path can meet a path of a walk.
* New entries that appear in the source during a walk, or that can be seen again: the
  iterator may or may not report them.  Changes of a file that keep its size are not seen.
* What operations without a staging directory would write elsewhere: each check of
  `staging_root_` is a guard of `FileBuilder`, and there is no directory outside the
  output in which a missing check would show.
* What the user is told when `close()` ignores a failed drain (S:113): the properties of the
  drain speak of a drain that returned true.
* `Error codes`, `logger`, `main`, the build files and the tests keep no state a property
  is about.  What the tests demand is a property here: `TransferredIsSource` and
  `CommittedIsOverlay` for `start_test.sh`, `Decryptable` and
  `PeersUnderstandEachOther` for `crypto_context_test`.

What could still be added: that `Connection` implements an abstract dialogue, that the
waits of `SendHalf` are those of `Async_value`, `DrainedMeansConfirmed` against a peer that
may acknowledge anything, and the connection with two-way loss and
restarts of the receiver's loops in one run, which is beyond what TLC explores in a few
minutes.
