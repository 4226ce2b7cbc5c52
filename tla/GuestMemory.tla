---------------------------- MODULE GuestMemory ----------------------------
(***************************************************************************)
(* QEMU's address_space_memory as the P210 accelerators use it: the words  *)
(* that RAM answers, and what dma_memory_read and dma_memory_write leave   *)
(* behind when a part of the range is not RAM.                             *)
(***************************************************************************)
LOCAL INSTANCE Integers

CONSTANT Ram    \* the addresses, in words, that RAM answers

Span(address, length) == address .. address + length - 1

\* A DMA write stores the words that RAM answers, also when it reports an error.
Stored(mem, address, data) ==
    [w \in Ram |-> IF w - address \in DOMAIN data THEN data[w - address] ELSE mem[w]]
=============================================================================
