----------------------------- MODULE FluxPackets -----------------------------
(***************************************************************************)
(* The vocabulary the Flux protocol modules share: the compile-time        *)
(* constants of esp_flux_transport.h, and the three packets of a           *)
(* fragmented transfer.  A packet carries, beside the fields the code puts *)
(* on the wire, the transfer its payload was cut from; no handler reads    *)
(* it, the properties do.                                                  *)
(***************************************************************************)
EXTENDS Integers, FiniteSets

CONSTANTS
    MaxFragments,   \* FLUX_MAX_FRAGMENTS, the most fragments of a transfer
    MaxRetries,     \* FLUX_MAX_RETRANSMIT_RETRIES
    MaxBatch,       \* FLUX_MAX_BATCH_SENT_COUNT, new fragments of one call
    NumStreams,     \* FLUX_STREAM_ID_MASK + 1
    MaxTransfers    \* bound: how many messages the application sends

ASSUME PacketConstants ==
    /\ MaxFragments \in Nat \ {0}
    /\ MaxRetries \in Nat
    /\ MaxBatch \in Nat \ {0}
    /\ NumStreams \in Nat \ {0}
    /\ MaxTransfers \in Nat \ {0}

Unlimited == 255      \* window_size 0xFF: the window does not limit the sender
DefaultWindow == 6    \* what window_size 0 stands for

Fragments == 0 .. MaxFragments - 1
Streams   == 0 .. NumStreams - 1
Transfers == 1 .. MaxTransfers
NoTransfer == 0

Smaller(a, b) == IF a < b THEN a ELSE b

\* Fragment 0 travels in a START packet, which alone carries the transfer's
\* metadata; the fields of the others stay at what START would have set.
StartPacket(stream, total, window, threshold, tid) ==
    [stream |-> stream, idx |-> 0, total |-> total, window |-> window,
     threshold |-> threshold, tid |-> tid]

FragmentPacket(stream, idx, tid) ==
    [stream |-> stream, idx |-> idx, total |-> 0, window |-> 0,
     threshold |-> 0, tid |-> tid]

\* A SACK names the highest fragment received and those missing below it.  An
\* empty "lost" is the packet without a bitmap: both acknowledge 0 .. num.
SackPacket(stream, num, lost) == [stream |-> stream, num |-> num, lost |-> lost]

DataPackets ==
    [stream : Streams, idx : Fragments, total : 0 .. MaxFragments,
     window : 0 .. Unlimited, threshold : 0 .. 100, tid : Transfers]

SackPackets == [stream : Streams, num : Fragments, lost : SUBSET Fragments]

\* The strictly increasing enumerations of a finite set of numbers: there is
\* exactly one, and a burst of fragments is sent in that order.
Ascending(S) ==
    {q \in [1 .. Cardinality(S) -> S] :
        \A a, b \in 1 .. Cardinality(S) : a < b => q[a] < q[b]}
==============================================================================
