# Specifications of the esp_flux / esp_gmp messaging stack

TLA+ modules, TLC configurations and TLAPS proofs for the reliable messaging
stack under `components/esp_flux` and `components/esp_gmp`. The repository is a
collection of ESP-IDF components; most are drivers around one peripheral. This
stack is the part with a protocol of its own, two concurrent sides, an
unreliable link, timers and a life cycle shared by several tasks.

Line numbers refer to `components/esp_flux/esp_flux_transport.c` unless a file
is named.

## 1. The system

```
  profiles    file transfer        ota          os          esp_gmp/profiles
                     \              |          /
  messages            GMP links: queue, handlers, seq        esp_gmp/src/esp_gmp.c
                                    |
  adapter                 GMP <-> Flux hooks                 esp_gmp/src/esp_gmp_flux.c
                                    |
  transport      Flux sessions: fragments, SACK, window      esp_flux/esp_flux_transport.c
                                    |
  link          GATT sessions over NimBLE (send, feed)       esp_flux/flux_gatt_session.c
```

| component | state it keeps | operations | hard behaviour | what makes it correct |
|---|---|---|---|---|
| Flux transfer protocol | two send and two receive slots of a session, next stream id, last completed stream | `flux_session_send`, `send_reset`, `recv_reset`; packets START, FRAGMENT, SACK; three timer phases | loss, late SACKs, retransmission, gaps, reuse of 3-bit ids, closed windows | messages whole, unmixed, at most once; ESP_OK only after arrival; window respected; every send ends |
| Flux session lifecycle | session list, shared queue, one transmit task, reserved and running callbacks | `flux_session_create`, `destroy`, `feed_data`, callbacks | destroy against the transmit task, task deleted wherever it is, stale list head | no use after free, destroy waits and returns, each send told once |
| Flux fragment layout | MTU, maximum sizes of START and FRAGMENT data | `flux_calc_fragment_offset`, `set_mtu`, fragment count | MTU changing in mid-transfer, uint16 counts | fragments tile the message; sender and receiver agree |
| Flux GATT session | connection table, roles, subscription | GAP events, notify/write, scheduled destroy | event against destroy, retries | a connection has at most one session; sends reach the right peer |
| GMP core | link table; per link a queue and the frames in flight; handlers, sequence number | `send`, `poll`, `transport_tx_done`, `link_register`, `link_unregister`, `input` | lock released around a send, failed send queued again at the tail, entries found without a lock and given to new links | frames freed once and never in use, each on its own link, none left behind, closing links end |
| GMP Flux adapter | hooks: link, Flux session, closing | `link_register`, `link_unregister`, `get_gatt_callbacks`, completion | link closed while Flux is sending | an open link is reachable from its session, completions meet their frames |
| GMP frame, CRC | none | encode, decode | lengths at the limit | decode inverts encode |
| File transfer profile | one active transfer, event and urgent queue, one timer, pending flags | send, abort; packets META, DATA, FINAL, ABORT and responses; link down, transport error, timeouts | full queues, FINAL overtaking responses, expiry against re-arming, flags read in the middle of a handler | what is reported as completed is saved; no transfer stands still; every abort call is answered |
| OTA profile | device: a session per link (state, counts, holds, ring buffer, pending FINISH, last result), receive queue, worker; host: one upload, pipe of unanswered chunks | START, DATA, FINISH, ABORT; link down; upload, cancel | ABORT or disconnect between the steps of the verification, chunks out of order, ring or queue full, late answers | only a whole, verified, wanted image is booted; every FINISH answered once; nothing held after the end |

Interaction: the link calls `flux_session_feed_data` (a queue shared by all
sessions); one transmit task takes packets from it, runs the timer phases every
10 ms and calls the sessions' callbacks; the application calls
`flux_session_send` from any task. A session's state is guarded by its
`state_mutex`, the list of sessions by `g_flux_sessions_mutex`; callbacks run
outside both and are counted (`callback_pending`, `callback_inflight`).

A GMP link is the address of a GATT session. `esp_gmp_send` hands a frame to
Flux or queues it; Flux reports the end of a transfer from its transmit task,
through the GATT adapter (which pins the session for the call) and the hook of
the link, to `esp_gmp_transport_tx_done`, which frees the frame and drains the
queue. Profiles send and receive GMP messages; a link that goes is announced to
them by a DOWN event from `esp_gmp_link_unregister`.

The other components of the repository (buttons, LEDs, USB, Ethernet, sensors,
audio, boot support, other Bluetooth code) are listed in `PROJECT.json` with
the reason they are left out: peripheral drivers and clients that neither use
nor are used by this stack.

## 2. Modules

| module | models | kind |
|---|---|---|
| `FluxPackets` | compile-time constants, the packets of a fragmented transfer | vocabulary |
| `FluxSendSlot` | `flux_fragment_send_state_t`: acknowledgement, window, retransmission, batches | operators |
| `FluxRecvSlot` | `flux_fragment_recv_state_t`: reassembly, gaps, when a SACK is owed | operators |
| `FluxTransfer` | sender, receiver and transport between two sessions | state machine |
| `FluxDelivery` | what is promised to the two applications about a message | abstract specification |
| `FluxSessions` | list, queue, transmit task, create and destroy, callbacks | state machine |
| `GmpLink` | `link_entry_t`: what each function does to an entry under its mutex | operators |
| `GmpStack` | link table, hooks and sessions, the tasks that send, poll, complete, connect and disconnect | state machine |
| `OtaSession` | `ota_sess_t`: how each request is decided, holds, ring, worker's effects | operators |
| `Ota` | host upload task, device input, receive task, worker, teardown | state machine |
| `FileTransfer` | two devices: worker, queues, timer, input handler, application calls, the link | state machine |
| `FluxSlotProofs` | lemmas about the operators of the slots | proofs |
| `FluxTransferProofs` | theorems about `FluxTransfer`: types, acknowledgements, content | proofs |
| `FluxDeliveryProofs` | theorems about `FluxTransfer`: counters, window, outcome, order, and that it implements `FluxDelivery` | proofs |
| `FluxSessionsProofs` | theorems about `FluxSessions` | proofs |
| `GmpLinkProofs` | lemmas about the operations on one entry | proofs |
| `GmpStackProofs` | theorems about `GmpStack` | proofs |
| `OtaProofs` | theorems about `Ota` | proofs |
| `FileTransferProofs` | theorems about `FileTransfer` | proofs |

`FluxTransfer` EXTENDS the two slot modules and instantiates `FluxDelivery`
(`KeepsPromise`). `FluxSessions` is independent of it: the life cycle needs of
a transfer only that it starts, ends and is reported. `GmpStack` EXTENDS
`GmpLink` and takes from the Flux modules what they establish (two slots per
session, each send reported at most once by one task, a destroy that waits for
callbacks). `Ota` EXTENDS `OtaSession` and takes from GMP that a message is
lost, delayed or overtaken but not repeated; `FileTransfer`, on one link, that
it is lost but neither repeated nor overtaken. The configurations give
all constants as numbers or model values, so no MC module is needed.

### FluxTransfer and the code

One action is one critical section under a session's `state_mutex`.

| action | code |
|---|---|
| `Send`, `SendRefused` | `flux_session_send` with `flux_session_fragment_send_start`; refused after the stream id was drawn (too many fragments, no memory) |
| `SendReset`, `RecvReset` | `flux_session_send_reset`, `flux_session_recv_reset` |
| `HandleSack` | a SACK taken from the queue: `flux_handle_sack`, ending in `flux_send_continue` |
| `HandleData` | a START or FRAGMENT: `flux_recv_handle` with the final or triggered SACKs it sends |
| `RecvTimeout`, `DelayedSack` | phase A of the timer pass |
| `ReportCompletion`, `Deadline` | phase B |
| `Drive` | phase C: `flux_send_continue` for a slot no older stream blocks |
| `RetransmitTimeout` | time: a send timestamp becomes older than `FLUX_RETRANSMIT_TIMEOUT_MS` |

The per-fragment arrays of the code are sets of fragment numbers (`acked`,
`timed` for a non-zero send time, `late` for an expired one); the loops in
ascending order are the sets they visit, with `BeforeExhausted` for the part
done before an abort and `StopsAt` for where the loop over new fragments ends.
`buf` holds for each fragment the transfer its bytes came from, so mixing two
messages is visible. A transport error and a lost packet are both modelled: a
refused send is not booked, a lost one is. `size`, `arrived` and `inbox` are
history variables.

Abstractions: one direction (a session's sending and receiving halves share
only `state_mutex`); bytes and offsets; elapsed time, which is a choice made by
`Timers`; SINGLE packets, which this code receives but never produces and which
change no slot; a send that finds no free slot, which changes nothing.
`WireCap` bounds the packets under way in either direction: a step that would
exceed it waits.

### FluxSessions and the code

| action | code |
|---|---|
| `StartSend`, `Feed` | `flux_session_send`, `flux_session_feed_data` |
| `TakePacket`, `HandlePacket` | the task's receive and the lookup under the global mutex (1398-1592) |
| `BeginPass`, `EndPass` | the timer pass under the global mutex, slots cleared and events reserved (1594-1819) |
| `BeginCallback`, `EndCallback` | `flux_session_callback_begin_reserved`, the callback and `flux_session_callback_leave` (100-128, 1820-1847) |
| `CreateBegin`, `CreateEnd` | `flux_session_create` before and at the insertion into the list |
| `DestroyBegin` ... `DestroyEnd` | `flux_session_destroy`: the list head read without the mutex (1992), unlink and purge (2004-2073), dropped sends reported (2075-2082), the waiting loop (2084-2095), deletion of the task (2097-2116), free |

The pass is two actions because `vTaskDelete` can strike while it holds the
mutex. The order of one pass's callbacks is left open and there is at most one
progress or error event per session and pass. An adapter stops sending and
feeding once it destroys a session (`InUse`), as `flux_gatt_session.c` does. A
session object is created at most once, so reuse of its address is not
reached; a `flux_session_create` that fails for lack of memory changes nothing
and is not modelled.

### GmpStack and the code

An action is one critical section of a link's mutex, the call of the transport
between two of them, or unlocked code around them. `task[t].at` says where a
task is in `esp_gmp_send`, `esp_gmp_poll` or `esp_gmp_transport_tx_done`.

| action | code (`esp_gmp.c` unless named) |
|---|---|
| `Build` | `esp_gmp_send` up to the lock: `link_find`, the frame allocated; by an application task, or by the transmit task that answers a message |
| `SubmitFrame` | `link_tx_submit_locked` (294-309) after the entry is looked at again |
| `Run` | `tx_send_op_run`: `flux_session_send` takes a slot, is busy, or fails |
| `FinishFailed` | `link_finish_failed_send` (320-336) |
| `Poll`, `DrainAgain` | `esp_gmp_poll` and the turns of `link_drain_tx_queue` |
| `Pass`, `Bridge`, `TxDone`, `Cleanup` | the end of Flux transfers; `flux_on_complete_bridge` (`flux_gatt_session.c`); `esp_gmp_transport_tx_done`; the end of `gmp_flux_tx_done_and_cleanup` (`esp_gmp_flux.c`) |
| `Connect`, `LinkRegister` | `gatt_session_create`, `esp_gmp_flux_link_register`, `esp_gmp_link_register` |
| `Disconnect`, `LinkUnregister`, `Unhook` | `esp_gmp_flux_link_unregister` around `esp_gmp_link_unregister` |
| `Unlist`, `Destroy` | `gatt_session_destroy` before and after its wait for pinned callbacks |

`mem` is a frame's memory as a history ("freed", and "twice" for a double
free); `owner` the link it was built for. A poll of an entry that has nothing
to send is a step that changes nothing and is left out. `link_unregister`'s
DOWN event and the handlers are abstracted: what a handler does to this state
is to send. A session freed between the lock's release and the transport's call
makes the call return anything.

### Ota and the code

| action | code (`esp_gmp_ota_device.c`, host: `esp_gmp_ota_host.c`) |
|---|---|
| `HostStart` ... `HostCompleted` | `esp_gmp_ota_host_upload_stream` (654-848): START and its answer, chunks through the pipe (`pipe_on_response`, `pipe_wait_one`, retries of a busy chunk), FINISH and its answer |
| `HostFails` | any of its failures: silent before START is answered (703-716), else `upload_fail_cleanup` with an ABORT |
| `RequestTaken` | `esp_gmp_ota_on_packet` (1544): `sess_get` finds the session of a control request, without its lock |
| `DeviceStart`, `DeviceFinish`, `DeviceAbort` | the rest of it (1549-1584): `handle_control` under the lock of the entry found, whatever became of it in between |
| `DeviceData` | `esp_gmp_ota_on_packet` (1505-1542): into the receive queue, or busy |
| `RxTake`, `RxProcess` | `ota_rx_process_msg`: the unlocked look-up; then under the lock holds, ring and answers |
| `WorkerTake`, `WorkerWrite` | `ota_worker_drain_one` |
| `WorkerFinishes`, `WorkerVerifies`, `WorkerChecks`, `WorkerBoots`, `WorkerReplies` | the sections of `ota_worker_try_finish` (625-649, 651-671, 673-700, 702-730, 732-753) |
| `WorkerStops`, `WorkerExits` | the loop's exit and the last section of `ota_worker_task` |
| `DownStarts`, `DownDrains`, `DownClears`, `DownEnds` | `esp_gmp_ota_on_link_down` for a transport error or the DOWN event |
| `Connect`, `Disconnect`, `Close` | the link, and the rest of `esp_gmp_link_unregister` |

`input` is the control request between the two steps. Its link may be torn down
there, as a queued chunk's may between `RxTake` and `RxProcess`. A START that comes
after such a teardown opens a session on an entry that is marked unused; what its
worker does once the next `sess_get` has cleared that entry (213) is not modelled,
and the guard `LeftToWorker` of `RequestTaken` says so.

A chunk is its offset and the upload its bytes come from, so a digest is the
sequence of chunks it was computed over and equal digests mean equal images.
Statuses are ok, busy and refused: the host ends the upload on any other. A
START is refused for any reason (capabilities, the accept callback, the
partition, `esp_ota_begin`, memory). The digest, its comparison, `esp_ota_end`, a
flash write and the scheduling of the restart may fail. The write failure's
flag is set in the step of the failed write. A request that is lost is one no step
takes.
`hist` is history: aborted, booted and completed sessions, FINISH requests
taken on and not answered, and whether one was answered twice.

### FileTransfer and the code

A step of the worker is the handling of one event or one look at the pending
flags. Files are in `profiles/file_transfer/src`, without the prefix
`esp_file_transfer`.

| action | code |
|---|---|
| `Send` | `esp_file_transfer_send` and its stream form: a command in the event queue |
| `AbortCall`, `AbortQueue` | `esp_file_transfer_abort`: the flag, then the command, queued under the queue's mutex however long that takes |
| `HandleSend`, `Prepare` | `ft_sender_start`, then `ft_sender_prepare` (hashing, META) as a step of its own |
| `HandleMetaRsp`, `HandleDataRsp`, `HandleFinal` | the handlers of `_sender.c`, with `fill_data_pipeline` (`Fill`) and `enter_wait_final` (`WaitFinal`) |
| `HandleMeta`, `HandleData`, `Finalize` | `_receiver.c`; `finalize_receiver` as a step of its own |
| `HandleAbort`, `HandleAbortCmd` | ABORT of the peer, command of the application |
| `Terminate`, `HandleLate` | `process_pending_flags`: link down, transport error, user abort; an expiry left pending |
| `TimerExpires`, `TimerCallback`, `HandleTimeout` | `esp_timer`, `timeout_callback`, the expiry taken from the queue |
| `Receive`, `ReceiveRefused`, `ReceiveUrgent` | `esp_file_transfer_on_packet` (`_gmp.c`): queued, answered at once, or for the urgent queue (203-210) |
| `TryQueue`, `LockQueue`, `TakeOut`, `PutBack`, `TryAgain` | the same with a full urgent queue (211-247): the event queue tried, locked, emptied item by item with one evicted, filled again, both queues tried again |
| `LinkDown`, `LinkEvent`, `Lose` | the link goes on both ends; its transport fails, or another link goes; a frame is lost |

`at` is the place of the worker: at the flags (`top`), at a pending expiry
(`late`), before the next event, or between the two halves of a sending or
receiving handler. `told` says whether META was sent or answered, which decides
whether an ABORT follows (`ft_gmp_send_abort`). `pipe` holds the blocks not
yet answered; it stands for `ft_data_pipe_t`, and a block's number for its
request's sequence number, since a block is only sent again after its last
request was answered. `whole` says that all blocks received are those the digest
was computed over; a file that changes while it is sent makes it false.
`hand` is the frame the input handler makes room for and how many events it has set
aside, which stay in `queue`. The worker does not take `event_queue_mutex`, so it
goes on taking events meanwhile: from behind those set aside, or none. The timer
callback reads the tuple in a step after it was dispatched, so it may
find a later one. The temporary file lives as long as the receiving context.
`completed` and `stalled` are history variables.

Simplifications: a link that comes back has the address of the one before; the
sender's own checks of a FINAL with status ok (sizes and digest it sent itself)
do not fail; a timer can be armed and a command allocated.

## 3. Runs

All with two workers; every property of a passing run has a mutant in
`PROJECT.json`, a change of one mapped definition that breaks it. One run of each
state machine also checks the module's `TypeOK`. The mutated
forms stand in the modules, announced in a comment ("The variant ...").

| run | bounds | states | shows |
|---|---|---|---|
| `flux_safe` | 2 transfers of 1 or 3 fragments, window 2, 2 slots each side, 3 packets per direction, loss, timers, resets | 314k | `TypeOK`, `DeliveredIntact`, `AtMostOnce`, `OldestFirst` |
| `flux_one` | 1 transfer of 2 or 4 fragments, windows 1, 2, 3 and unlimited, 4 packets, loss, timers, resets | 94k | `AckSound`, `WindowRespected`, `CountersAgree`, `OkMeansArrived`, refinement `KeepsPromise`, `EverySendReported` |
| `flux_lossless` | 4 transfers over 2 slots and 3 stream ids, windows 1, 2 and unlimited, thresholds 50 and 100 | 34k | `LosslessDelivery` |
| `flux_sessions` | 2 sessions of 2 transfers, queue of 2, 3 events per pass, one control task | 284k | `NoUseAfterFree`, `DestroyDrains`, `SessionsServed`, `ToldOnce`, `DestroyReturns` |
| `gmp_stack` | 2 links in turn over 1 entry and 1 hook, 1 Flux slot, queue of 2, 4 frames, 1 sender beside poll, transmit and control task | 228k | `FramesOutliveUse`, `FramesKeepTheirLink`, `FramesAccounted`, `ClosingWaits`, `OpenLinksHooked`, `EveryFrameEnds` |
| `ota` | 2 uploads of 2 chunks, 2 links in turn with teardowns, ring of 1, queue of 1, 2 holds, pipe of 2, 1 busy retry | 806k | `BootsWhole`, `AbortedNeverBoots`, `CompletedBoots`, `AcceptedIsKept`, `StreamContiguous`, `IdleHoldsNothing`, `FinishAnsweredOnce`, `FinishAnswered`, `TeardownReturns` |
| `file_transfer` | a device sends an empty file and one of 2 blocks, pipe of 2, queues of 1, 1 loss, failure, abort or link event, timers that expire at any time | 364k | `CompletedIsSaved`, `AckedIsWritten`, `Driven`, `AbortAnswered`, `TransfersEnd` |
| `flux_retransmit` | 1 transfer | violation | `NeedRetransmitIsServed` |
| `flux_ok_delivered` | 1 transfer of 3 fragments | violation | `OkMeansDelivered` |
| `flux_stream_reuse` | 8 stream ids as in the code, 9 transfers | violation | `DeliveredIntact` |
| `flux_sessions_told` | 2 sessions, 16 events as in the code | violation | `EverySendTold` |
| `gmp_slot_returned` | 1 link, 4 entries, 2 Flux slots, queue of 4 | violation | `LinkSlotReturned` |

Why these bounds suffice. The code's own numbers are 128 fragments, 3 retries,
batches of 10, 2 slots, 8 streams. Three fragments give a first, an inner and a
last one; four give a gap of two or two gaps under a window of 3, where
`flux_one` needs them (with a window of 2 no SACK carries a bitmap). One retry
lets every fragment be sent twice and then be exhausted. A batch of two ends
the loop over new fragments before the window or the message does. Two
transfers fill the slots; `flux_lossless` has four, so that slots and stream
ids are freed and used again while another transfer runs (with only two ids a
third transfer would reuse the id of one just finished, which the code's eight
ids put further apart; hence three). Threshold 200 stands for those out of
range, which become 50. `flux_safe` and `flux_one` are cut at 2 and 1
transfers to stay within minutes; the theorems of section 5 cover the rest for
all their safety properties.

In the sessions, two objects are the least with a "last" and a "not last"; two
transfers each fill the send slots; a queue of two can be full with packets of
both; an event limit of 3 is below the four completions that can be due.

In `GmpStack` one entry makes every new link take over the last one's, which is
what an entry found without a lock must survive; a queue of two and four frames
let a full queue, a requeued frame and a frame in flight meet. Two Flux slots
only occur in `gmp_slot_returned`. In `Ota` two chunks are the least that can
overtake each other; a ring and a queue of one are full at the second; two
uploads and two links put messages, queue entries and the worker of the first
next to the second. `MaxStale = 0`: a request still under way when the next
upload starts (its link having stayed up) is left to an instance with `MaxStale
= 1` and one link (478k states, same results) and to the theorems.

In `FileTransfer` an empty file and one of two blocks take every state of a
sender and a receiver; two blocks are the least that are pipelined, answered
apart and sent again out of order. Queues of one (the code has 8 and 4) are
full whenever something waits in them, so refusals, evictions and pending
expiries happen in every phase. Two events in the queue, of which the first is
spared and the second evicted or taken by the worker, need a queue of two; that
instance (a file of two blocks, 735k states, the same results) takes longer than the
runs here are meant to. `MaxTrouble = 1` allows one loss, failed
operation, abort call or link event at any point; timers that expire early
and full queues are not counted in it, so it meets those in any order. A third
link going down after a second (`LinkEvent`) needs two. Both devices sending is
left out: the two transfers share nothing but the queues and the numbers of
transfers, and the instance has millions of states.

Fairness. `FluxTransfer`: weak fairness of taking packets and of the timer
phases, because each device's transmit task waits at most 10 ms for a packet
and then runs them; `Deadline` is among them, since an absolute time passes.
Not assumed: that packets arrive, retransmission timers expire, or the
receiver's timeout comes. `FluxSessions`: weak fairness of the transmit task;
strong fairness of a control task within a call, which competes for mutexes the
transmit task takes again and again, has the higher priority (it is the NimBLE
host) and finds the other asleep on its queue.
`GmpStack`: weak fairness of each task within a call and of polling, because
the host's waiting loops (`esp_gmp_ota_host.c` 227, 333, 371) and the
applications' main loops call `esp_gmp_poll` again and again; strong fairness
of the end of all transfers under way, since each ends by its own deadline
however many passes come between. `Ota`: weak fairness of the worker and of a
teardown that has begun, tasks of the device; nothing is asked of the host, the
link, the receive task or the arrival of messages. `FileTransfer`: weak
fairness of the worker, of `esp_timer` (time passes, so an armed timer expires
and its callback runs), of an abort caller that waits for room in a queue the
worker empties, and of an input handler that has begun to make room (it waits for
nothing but the queue's mutex); nothing is asked of the link, the arrival of frames or the application.

Deadlock is not checked: every run ends when its bounded transfers or sessions
are used up.

## 4. What the violations show

1. **Tail loss is not retransmitted** (`flux_retransmit`). Once all fragments
   were dispatched, the first check of `flux_send_continue` (675-678) returns,
   so the timer retransmissions phase C calls it for do not happen. A lost last
   fragment, or the lost START of a one-fragment message, ends in ESP_ERR_TIMEOUT
   unless a SACK reports a gap. Simply dropping the check is no cure: the
   mutant `NeverAwaitsAcks` delivers a message twice.
2. **ESP_OK without delivery** (`flux_ok_delivered`). A START sent again and
   arriving late restarts the receive slot (1022) after a SACK confirmed a later
   fragment, which the sender never sends again.
3. **Spliced messages after stream id reuse** (`flux_stream_reuse`). After eight
   transfers an id returns while the peer's slot for its last use still waits.
4. **A completion lost in destroy** (`flux_sessions_told`). A pass has cleared
   the slot and reserved the callback; destroy then forbids the callback and
   does not find the transfer among those it reports as dropped.
5. **A link entry that is never given back** (`gmp_slot_returned`).
   `gatt_session_destroy` unlists a session before it destroys the Flux session,
   so the bridge drops the completions destroy reports, and the closing entry
   waits for them for ever; its frames leak. Besides, `hook_has_in_flight` is
   only true when both slots are busy, so with one busy slot the hook goes at
   once. Four disconnections under load fill the table of links.

Three more defects are named by the property or the bound that makes room for them,
without a run of their own.

- *A window of one* (`esp_flux_transport.c` 1103, 1286). The START of a message of
  several fragments fills the window, and only FRAGMENT packets evaluate the
  receiver's window trigger: no SACK comes, and the message stands until its
  deadline, with the younger ones behind it. `flux_lossless` has the window of one,
  and `LosslessDelivery` excepts these transfers (`WindowOfOne`) and no others;
  without the exception TLC finds the START sent, taken and never acknowledged.
- *A transfer without a timer* (`esp_file_transfer_sender.c` 174-178, against the
  comment at 205). While a file transfer is active the loss of *another* link sets
  `link_down_pending`; `fill_data_pipeline` and `ft_sender_prepare` then return and
  leave the rest to the pending processing, which does nothing for other links. A
  sender that had every block answered, or had not sent META, is left without a
  timer until the application aborts or its link goes. `Driven` and `TransfersEnd`
  except these devices (`stalled`) and no others.
- *A session on an unused entry* (`esp_gmp_ota_device.c` 1544). A START found its
  session before the teardown of the link and locks it after it. Nothing it checks
  (871) tells it that the entry was given up, so it opens a session there: worker,
  OTA handle and ring buffer, which no request reaches any more.
  `IdleHoldsNothing` says that nothing comes of it as long as the entry stays unused;
  the next `sess_get` clears it while the worker runs (213).

`FluxDelivery` therefore promises no more than the code keeps: an outcome and
the hand-over are only related by "ESP_OK implies every fragment was stored at
some time".

## 5. Proofs

Every safety property, action property and refinement that a passing run checks
on a small instance is a theorem for every value of the constants. Each proof has
the same shape: an inductive invariant of named parts that includes the property
or implies it, a lemma that `Init` establishes it, one lemma per action that the
action keeps it, and a last step of temporal logic. TLC finds
the invariants to hold on the instances of the runs, too (all but `Carries` of
`FileTransferProofs`, which quantifies over all sets).

The assumptions are the `ASSUME`s about constants in the modules, which say what
the code's own constants satisfy, and two hypotheses that stand in the theorems
that need them: `NoReuse` (`MaxTransfers <= NumStreams`, no stream id is drawn a
second time) and `OneControl` (one task creates and destroys sessions). For both,
the code can do otherwise, and sections 4 and 6 say what then happens.

`FluxSlotProofs` has the lemmas about slots: types, that
`MarkAcked`/`Resent`/`Dispatched`/`Finish` continue the same transfer, that
`TopReceived` is the highest fragment received (by way of `GreatestElement`, a
maximum exists in a bounded nonempty set), and `SackIsSound`: what a SACK claims,
its peer has received.

`FluxTransferProofs` proves, for all values of the constants allowed by
`PacketConstants` and `TransferConstants`:

- `TypeCorrect`: `Spec => []TypeOK`. Inductive as `TypeInv`: `TypeOK` and
  `Owned`, that a slot in use names a real transfer and a completed one has a
  status, without which `ReportCompletion` would not be typed.
- `AckSoundness`: `Spec => []AckSound`, under `NoReuse` (`MaxTransfers <=
  NumStreams`).
- `DeliveryIntact`: `Spec => []DeliveredIntact`, under `NoReuse`.

The last two need an invariant that ties every place a stream id occurs to
the one transfer that drew it. `StreamInv`: transfers draw ids in order
(`Numbered`), and the id of a send slot, a packet on the wire, a receive
buffer, or a SACK under way is that of the transfer it names (`SlotsOwn`,
`WireOwn`, `BuffersOwn`, `SacksOwn`), what a buffer holds and a SACK claims has
arrived, and what was delivered came from one transfer (`InboxOwn`). Without
`NoReuse` the theorem about delivery is false, as `flux_stream_reuse` shows.
Each action has an effect lemma (what it does to slots, wire and buffers) and
a lemma for each invariant; `TypeStep` and `StreamStep` combine them.

`FluxDeliveryProofs` proves, under `NoReuse`, what the sender and the two
applications can rely on: `CountersCount`, `WindowHolds`, `OkIsArrival`,
`HandedOverOnce`, the action property `OldestGoesFirst`, and the refinement
`PromiseKept`. Its invariant `DeliveryInv` builds on `StreamInv`. `SlotsTabled`
says of one send slot that the cursor, the tables and the counters belong
together (`Tabled`: what was acknowledged or found late was sent before, `sent`
and `inflight` are cardinalities, the window holds), and each critical section is
shown to keep it on its own (`MarkAcked`, resending, a batch of new fragments).
`UnderWay` bounds what can be on the wire or have arrived by the cursor of its
slot, `RecvsOpened` and `SacksFit` say what a receive slot holds and a SACK may
ask for. The hard part is that no message is handed over twice: a START that comes
after the last fragment would open a slot for a message already delivered.
`NoLateStart` rules it out, and it holds for four reasons together: a burst sends
ascending fragments (`Burst`), so a START goes first; the wire keeps its order; a
SACK never asks for the START (`SackFits`), since a receive slot exists only from its
START on; and a timeout resends nothing once everything was sent (`AwaitsAcks`). The
last is the very early return behind the lost tail of section 4: whoever repairs
that has to see to it that a START is not resent too late.
`OldestGoesFirst` needs one more part, `OlderDone`: a transfer that has sent
anything began when every older one had sent all of its own, so
`flux_handle_sack`, which sends without asking for its turn, only goes on with one
that had it.

The refinement maps `FluxTransfer` to `FluxDelivery` by what was handed over
(`Handed` counts the messages that contain a transfer) and what was reported.
`StepPromised` shows that every action is one of the abstract ones or a stutter:
starting a transfer is its request, the arrival of the fragment that completes a
message is its hand-over, which is allowed because the slot's content is whole and
no earlier hand-over was of the same (`HandedOver`), and a report of ESP_OK is
allowed because everything arrived (`OkMeansArrived`).

`FluxSessionsProofs` proves, under `OneControl` and for any number of sessions,
transfers, queue places and events: `SessionsTypes`, `SessionsNoUseAfterFree`,
`SessionsDestroyDrains`, `SessionsAreServed`, `SessionsToldOnce`. One invariant
serves all five. `ListSound` and `CallerKnows` say that what a call of destroy
found out about the list (its head, whether it was the last) is still true when it
uses it, which is where one control task is needed: a second one could insert
between the look and the unlinking. `TaskServes` is the life of the transmit task,
`Reservations` that `callback_pending` and `callback_inflight` count exactly the
events taken out and not yet reported, all of sessions that are listed or whose
destroy has not stopped waiting; use after free and the wait follow. `Reports`
puts every transfer in one place (`OnePlace`): in its slot, due to be reported by
the task, about to be dropped by destroy, or reported.

`GmpStackProofs` proves every safety property of `GmpStack` for all numbers of
links, entries, slots, frames and sending tasks: `GmpStackTypes`,
`GmpFramesOutliveUse`, `GmpFramesKeepTheirLink`, `GmpFramesAccounted`,
`GmpClosingWaits`, `GmpOpenLinksHooked`. None is inductive alone. `Table` says that
every entry is `Sound` (bounds, no frame queued twice, a closing one has dropped
its queue and waits for something) and no link has two; `Registration` that a link
is registered while its session exists, and once. `Places` is the ownership of
memory: a live frame is in the hands of one task (`HandsOwn`), or in a slot or
due (`SlotsOwn`), or queued in one entry (`EntriesOwn`), on the link it was built
for; `in_flight[]` may name a frame that is in hand, in a slot or due, or one
that Flux dropped, and never one that is queued. So whoever frees a frame is the
only one who has it. `Hooks` says who clears a hook, and that one is marked
closing only when its link is about to be closed. `GmpLinkProofs` has one lemma for
each function that works on an entry; lemmas such as `FrameFreed`, `FrameQueued`,
`FrameDrained` and `FrameSwapped` say once what moving a frame does to `Places`, and
each action cites the one it needs.

`OtaProofs` proves all seven safety properties of `Ota`, for all sizes, depths and
numbers of uploads and links, in three layers.

The first is about the device alone: `OtaBootsWhole`, `OtaAbortedNeverBoots`,
`OtaFinishAnsweredOnce`. The invariant `IInv` is theirs
together, since each leans on the others: `WorkerPlaces` ties the place of the
worker to the state of the session (from the middle section of the verification on
it is "applying", so an ABORT is refused); `Sids` says ids are fresh and an aborted
one still in use has its abort flag set; `Digests` that flash holds what was hashed
while a worker runs and only digests of whole images are compared with; `Owed` who
owes the answer to a FINISH. `Records` lists the fields of the records instead of
their types, which is all a step's effect needs. `SameSessionIInv` serves the
host's and the network's steps, `ReceiveKeeps` the draining of held chunks,
`LookedUpIInv` the requests that only look a session up.

The second is about host, device and everything between them: `OtaTypes`,
`OtaStreamContiguous`, `OtaAcceptedIsKept`, `OtaCompletedBoots`, from the invariant
`UInv` beside `IInv`. `Streams` says that flash, the chunk the worker has and the
ring are consecutive chunks of one upload. That chunks of another upload never get
in, and that the host takes no other answer for the one it waits for, is a matter
of numbers: `Numbered`, `Starting`, `Sending` and `Ending` say, for each phase of
the host, which sequence numbers and session ids may still be anywhere (requests,
receive queue, receive task, holds, answers, a FINISH not yet answered), `Base`
being the number before the upload's first chunk. `OnePlace` says that a chunk of
the upload or its answer is in one of those places only, so an answer "ok" is about
a chunk that was taken (`AckedTaken`), and `Completion` that "completed" is only
said of a session whose image was selected for boot. `Receipt` states what one DATA
request may do, the draining of the holds included, and is proved of `ota_rx`'s
decision once. The steps are sorted by how much they touch: `Aside` (queue and
receive task left alone), `Shrinks` (requests only disappear, control answers
only appear), `Onward` (the numbers stay in order), `HostSide` (the device does
nothing); a lemma for each class does most of the work and each action shows which
class it is in.

The third is about the entry between a look-up and its lock: `OtaIdleHoldsNothing`,
from `OInv` beside `IInv`. `Taken` says that no link which is up is torn down while a
control request is in hand, `Orphaned` that a session opened on an unused entry holds
worker, handle and ring buffer and nothing else, because its id is `Unknown`: no
answer that reaches the host carries it, so no chunk does.

`FileTransferProofs` proves all five safety properties of `FileTransfer`, for all
sizes of files, pipe and queues and any amount of trouble, from
`FileTransferConstants`, with two invariants.

`IInv` serves `FileCompletedIsSaved` and `FileAbortAnswered` and has two halves.
`Transfers`: a FINAL that says ok is about a saved file, whether it is on its way
(`net`), waiting, or noted as early in a context, and so is what was reported; it
holds because `finalize_receiver` renames before it answers and a saved file stays.
`Waits`: what the queues and the input handler's hand hold (`Carries`, `Hands`: kinds
of events, truthful FINALs; no abort command among the urgent) and `Answered`, that
the event queue holds one abort command exactly when a caller waits. Lemmas about sequences (`CarriesAppend`,
`CarriesTail`, `CarriesCut`, ...) say what queueing, taking and evicting do to both;
`KeepMoves`, `FinishMoves`, `FillMoves`, ... what a handler does to `Transfers`.

`SInv` = `Typed` /\ `Drives` /\ `Shared` serves `FileTypes`, `FileDriven` and
`FileAckedIsWritten`. `Drives` is `Driven` made inductive: it also says in which
states a transfer can be when the worker left it for another link (`LeftBehind`),
which is before it sends or between two bursts, with nothing to be answered. Taking
an event out of the middle of the queue, by the worker behind those set aside or by
the eviction, loses no expiry but the one taken (`TakenGoes`, `ExpiringCut`). An
armed timer gets a generation that no queued expiry carries; that one is free is a
pigeonhole argument (`ArmedTyped`: more generations than places in the queue). `Shared` relates the
two devices in each direction: a transfer is offered by at most one META (`Once`),
and `Agree` follows it from the sender's preparing it, to the META on its way, to
the receiver's taking it, each excluding the ones before, so a response that calls
a block taken, or a block the sender counts as answered, is of a transfer the
receiver has taken, of a block before its `next`, or of one it has left. `Agree` is
stated of two contexts and the sets of transfers offered and responses on their way,
so each handler is proved against its own context and what it takes out of and adds
to those sets.

Where a proof needs induction over numbers (that a nonempty set of them has a least
element, or a bounded one a greatest), it uses `NatLessThanWellFounded` and `WFMin`, which
state it without an operator parameter.

Only model-checked: the liveness properties `EverySendReported`, `LosslessDelivery`,
`DestroyReturns`, `EveryFrameEnds`, `FinishAnswered`, `TeardownReturns` and
`TransfersEnd`. They rest on fairness, and with it on ENABLED, which the provers do
not handle. The properties of the runs that expect a violation are false, so
there is nothing to prove; `DeliveryIntact` and `OkIsArrival` say what is true
instead of two of them.

## 6. Not modelled, and the plan

Within the Flux components: time itself (only whether a timeout has
passed), byte offsets, the `progress` and `error` callbacks' contents, logging,
two control tasks destroying at once. The hazards without a property are in
`PROJECT.json` with the reason.

In the GMP core, the handler table and the matching of replies, and that the
sequence number is drawn by several tasks without a lock; of the GATT adapter
the NimBLE side. In OTA: two links at once (sessions are per link, the update
partition is one), the delayed restart and manual apply, a teardown for a
transport error that overlaps the one for the DOWN event, and a worker whose entry
is cleared under it (`LeftToWorker`, section 4). Frame
encoding and CRC are pure functions of bytes with unit tests of their own. In
the file transfer: start and stop of the component, a change of MTU and the
block size negotiated from it, several live links, of which the worker serves
one at a time, and the leftovers of an earlier boot in the file system.

In this order:

1. `FluxFragments`: the tiling of a message, change of MTU, width of the counts.
2. `GmpInput`: handler registration against dispatch, sequence numbers.
3. `FluxGatt`: GAP and MTU events against `FluxSessions`.
4. Proofs: with each of these its types and safety, on the pattern of the others;
   which of the theorems about the sender (`CountersCount`, `WindowHolds`) hold
   without `NoReuse`.
