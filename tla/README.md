# Verification of the accelerators and programs of ase-testing

The repository is the regression suite of ASE, the simulation environment for
FPGA accelerators attached to a host over the CCI-P link.  ASE itself is not
in it.  What is in it, and what carries logic of its own, are the accelerators
(AFUs) the suite runs and the host programs that drive them (`src/apps`,
`src/test_afus/*/SW`).  This project covers four of these systems: the **NLB**
("native loopback") in `src/test_afus/ccip_nlb_all_SKX1/HW`, a memory-copy and
traffic-generating AFU, with its programs; the **MMIO stress** AFU and its
multi-threaded program (`src/test_afus/ccip_mmio_rdwr_stress`); the
**local-memory** AFU and its program (`src/test_afus/ccip_dcp_hello_mem`); and
the **AAL programs**, whose main thread and callbacks meet at a semaphore
(`MMIOStressTest.cpp`, `InitRelease.cpp`, `HelloALIVTPNLB.cpp.SKX1`).

Contents: [inventory](#1-inventory), [modules](#2-modules-and-how-they-correspond-to-the-code),
[runs](#3-runs), [fairness](#4-fairness), [proofs](#5-proofs),
[divergences found](#6-divergences-between-code-and-documentation),
[what is not covered](#7-what-is-not-covered), [plan](#8-plan).

Paths of the NLB are relative to `src/test_afus/ccip_nlb_all_SKX1/HW`; the
other systems' files are named in the inventory.

## 1. Inventory

```
 host program ── MMIO writes ──> nlb_csr ──cr2re_*──> requestor ──re2xy_go, NumLines──> engine
      ^                             ^                  |    ^  ^                          |
      |                             └─re2cr_wrlock_n───┘    |  └── arbiter <── ab2re_* ───┘
      |                                                     |        (arb_rd_mem)
      └── polls the status line (DSM) <── C1 ── nlb_C1Tx_fifo ── C0 ──> host memory
```

| component | state | operations | what makes it correct |
|---|---|---|---|
| `nlb_C1Tx_fifo.sv`, write-request FIFO | control words in registers, data in a RAM with two read stages, two addresses, a count, `empty`, `dram_v`, `almFull`, two error flags | write, acknowledge, both at once, reset | it is a queue: nothing lost, duplicated, reordered or paired with another entry's control word; three separately updated flags agree with its counter |
| `test_lpbk1.sv`, memory copy engine (LPBK1) | read machine, two response RAMs with a status and "complete" flags each, read throttle, two hand-over machines, write machine, five-stage pipeline, line counters | read requests, read responses in any order, hand-over of a buffer, write requests in packets, write responses, completion | every line is copied once and unchanged; packets leave without gaps; the FIFO never refuses a line; completion comes, and comes last |
| `test_rdwr.sv`, READ / WRITE / TRPUT engine | two state machines, pending counters, packet position | reads, writes, responses, completion | completion only when all lines are answered; whole packets |
| `test_sw1.sv`, SW1 engine | write, read and poll machines, two response counters, a data check | lines, fence and flag; the software's notice by polling, CSR write or UMsg; reading back | the flag never overtakes the lines; polls are not counted as lines; the verdict is right; the round trip ends |
| `requestor.sv` | run control (`re2xy_go`, `test_stop`, `WrFence_sent`, `status_write`, ...), write pipeline T1-T4, pending counters, credits, error vector | start of a run, sending of reads (C0), writes, fence, status, interrupt (C1), forced completion | C1 carries whole packets, one fence, one status write, one interrupt, in this order; a forced run ends |
| `arbiter.sv` | the address of every request tag, two response stages | connects one engine with the requestor | a response gets the address of its own request |
| `nlb_csr.sv` | a register file behind a write stage | MMIO write and read | a run keeps the configuration it was started with |
| `nlb_lpbk.sv`, `ccip_std_afu.sv` | register stages | wiring; documents the test flow | |
| host programs (`src/apps/nlb_lpbk1_test.c`, ...) | position in the test flow | reset, configure, start, poll, compare | |

The other three systems:

```
 mmio_stress.c threads ── MMIO, one request per clock ──> mmio_stress_afu ──> ram_1r1w
        ^                                                  (one tid register)     |
        └──────────────── responses by transaction id <──────────────────────────┘

 hello_mem_afu.c ── MMIO ──> mem_csr ── avm_* ──> mem_fsm ── bridge ──> memory
        └── polls rdwr_done <──────────────────────┘  (waitrequest)

 main ── start, allocService, Release, stop ──> AAL runtime ── callbacks ──┐
   └── m_Sem.Wait                    m_Sem.Post, m_bIsOK, m_Result <───────┘
```

| component | state | operations | what makes it correct |
|---|---|---|---|
| `mmio_stress_afu.sv`, `ram_1r1w.v` (`ccip_mmio_rdwr_stress/HW`) | a memory, its port registers, one register each for the id, length and half of the read under way, a three-stage answer, a reset machine | 32- and 64-bit MMIO writes and reads, reset | an answer has its own read's id and half; a reset restores the header |
| `mmio_stress.c` | step, workers, their offsets | create and join workers, write, read back | disjoint parts, steps separated by joins, no mismatch, it ends |
| `mem_csr.sv`, `mem_fsm.sv`, `hello_mem_afu.sv` (`ccip_dcp_hello_mem/HW`) | request registers, a six-state Avalon master, done bits | single and burst writes and reads, address sweep | a request is started once; answers are paired with requests; no command is lost |
| `hello_mem_afu.c` | position in three tests | MMIO accesses, sleeps, polling | the memory holds what was written; the loops end |
| `MMIOStressTest.cpp`, `InitRelease.cpp`, `HelloALIVTPNLB.cpp.SKX1` | semaphore, `m_bIsOK`, `m_Result`, services, buffers | start, allocate, release, stop, and eleven callbacks | a Wait returns for its own operation; no pointer is used before it is set; failures are reported; main does not hang |

Behaviours that are hard here: everything is clocked in parallel and most
conditions are seen one to five clocks late; the host answers in any order and
may hold back either channel for any time; the software may force completion
at any moment; buffers, queue and packets end at different places.  The programs add threads that share one MMIO port, callbacks on other threads,
status bits that are cleared by reading them and operations any of which may
fail.  Every
hazard, with its line and the properties that cover it, is listed under
`hazards` in `PROJECT.json`.

Other parts of the repository (the asynchronous CCI-P shim, the multiplexer
AFUs, older copies of the NLB, the command-queue NLB, the session and
allocation stress programs, the vendored googletest) are listed as components
there with the reason why they are not modelled.

## 2. Modules and how they correspond to the code

A step of every model of hardware is one rising edge of `Clk_400`; a
non-blocking assignment is a primed variable, a register that is not assigned
keeps its value, and all processes of a clock are one conjunction.  Registers
keep the names of the source.

| module | models | notes |
|---|---|---|
| `TxQueue` | abstract: what the users of the FIFO rely on | bounded queue, head visible at once, data two clocks after the acknowledge |
| `C1TxFifo` | `nlb_C1Tx_fifo.sv`, every register, both memories, reset | the RAM is written on every clock unless full, as in the code; reading the address being written gives an arbitrary word; a request is one value written to both inputs |
| `TestLpbk1` | `test_lpbk1.sv` out of reset, as a function of its inputs | the contents of a line is the address it was read from; the RAM returns an unknown line on a read-write clash |
| `MemCopy` | abstract: the promise of the loopback test | each line once, unchanged, completion last |
| `Lpbk1Bench` | the engine with the arbiter's address memory, `TxQueue`, a requestor that drains the queue when it likes, and a host that answers out of order | the response registers of the arbiter are part of a response's flight time |
| `NlbCsr` | reception of a CSR write, write lock, defaults | `CFG` stands for the locked registers, `LINES` for the unlocked ones, `CTL` is a set of bits |
| `Requestor` | `requestor.sv`: run control, C0, C1 and the pipeline | a write is its `sop` flag and the number of lines of its packet that follow |
| `TestRdWr` | `test_rdwr.sv` with reset | addresses and data abstracted |
| `C1Stream` | abstract: what the link sees of a run on C1 | |
| `NlbFlow` | the host programs' side of a test (`SW/hello_fpga.c`, `src/apps/nlb_lpbk1_test.c`): one step per CSR write | a program that ends a test by force is one whose `Forces` is true; every program may write `CSR_CTL = 7` once the run is over, as `hello_fpga.c` does |
| `NlbRun` | CSRs + requestor + READ/WRITE/TRPUT engine + queue + software + link + host | whole runs, repeated |
| `TestSw1` | `test_sw1.sv` with reset | the contents of a line is a number; the line of ones is `Flag` |
| `NlbSw1` | CSRs + requestor + SW1 engine + queue + software + memory | memory carries out writes in any order a fence allows and answers reads in any order; the software copies line by line and may copy wrongly |
| `PendTracker` | the requestor's pending counters, their thresholds and its two error conditions, with the register stages on both sides of them | a stage is the number of lines of the request in it; engine, queue and link are a choice in every clock |
| `StressAfu` | `mmio_stress_afu.sv` with its RAM: every register, reset included | a word is a pair of 32-bit halves, the byte enable a set of halves; the RAM shows junk after a write |
| `MmioStress` | `mmio_stress.c`: main, its workers, and the link | a word is given its offset, as the program does; the driver lets at most one request arrive per clock, reads `MinGap` clocks apart |
| `MemAfu` | `mem_csr.sv`, `mem_fsm.sv` and the registered waitrequest of `hello_mem_afu.sv` | the done bits are a set |
| `HelloMem` | `hello_mem_afu.c` as a list of accesses, sleeps and polling loops, with the clock-crossing bridge and a memory of any speed | |
| `AalApp` | three AAL programs as one object: main, the callbacks, the semaphore; they differ in the services and buffers they allocate and in what becomes of a failed test | the runtime answers in any order, may fail any operation and may want a service back at any time |
| `MCRun`, `MCSw1`, `MCAal` | the configurations of `NlbRun`'s and `NlbSw1`'s runs, the three programs of `AalApp` | the other modules get theirs from the `.cfg` alone |
| `Lpbk1Inv` | the inductive invariants `Lpbk1Proofs` proves | no theorem of its own |
| `C1TxFifoProofs`, `Lpbk1Proofs`, `PendProofs`, `NlbRunProofs`, `NlbSw1Proofs`, `MmioProofs`, `HelloMemProofs`, `AalProofs` | the theorems | one module of theorems for each composition |

`Lpbk1Bench`, `NlbRun` and `NlbSw1` are compositions of the same system.  The
first has its engine with data and addresses and leaves the requestor to a
choice; the second has the requestor and the CSRs and an engine without data;
the third has both.  All use `TxQueue` for the FIFO, which `C1TxFifo` is proved
to implement; `NlbRun` and `NlbSw1` share `NlbFlow`, `NlbCsr` and `Requestor`.

```
 TxQueue <── C1TxFifo <── C1TxFifoProofs        NlbCsr <── NlbFlow ──┐
    ^                                           Requestor ───────────┤
    ├── Lpbk1Bench <── Lpbk1Inv <── Lpbk1Proofs TestRdWr ── NlbRun <─┤<── MCRun
    │     ├─ TestLpbk1                             └ C1Stream        │
    │     └─ MemCopy (implemented by it)        TestSw1 ─── NlbSw1 <─┘<── MCSw1
    └── NlbRun, NlbSw1                          PendTracker <── PendProofs

 NlbRun <── NlbRunProofs                        NlbSw1 <── NlbSw1Proofs
 StressAfu <── MmioStress <── MmioProofs        AalApp <── AalProofs, MCAal
 MemAfu <── HelloMem <── HelloMemProofs
```

Modelling decisions a reader should know:

- **One register for the read under way.**  `StressAfu` keeps the id of the
  *last* read that arrived, as the code does.  The link of `MmioStress` lets
  reads arrive at least three clocks apart, which is what the AFU needs (a
  fourth register, `c2`, holds the answer itself): with `MinGap = 2` the run
  `mmio_stress` fails, see section 6.
- **Sleeps.**  A `sleep` of `hello_mem_afu.c` lasts, with `Sleeping`, until the
  AFU and the memory have nothing left to do, which is what the program counts
  on.  An MMIO access arrives four clocks after the last one at the earliest;
  the hardware needs that (section 6).
- **Releases nobody waits for.**  `AalApp` counts in `stray` the posts of the
  semaphore that no Wait is meant for; `silent` says that a callback main
  waits for has posted nothing; `failed` collects every kind of failure met,
  whether or not the code takes note of it.  All are history variables.
- **Reset of a run.**  `NlbRun` resets and restarts runs; its software resets
  only when the status line is there and all responses are back.
  `Lpbk1Bench` is one run from reset.
- **Pending thresholds.**  The requestor holds a channel back when its own
  pending counters reach 1536.  `PendTracker` models this by itself; in the
  compositions it is part of the link's freedom to hold a channel at any clock
  (`c0Hold`, `c1Hold`, `drain`), which allows every delay a threshold causes.
- **The SW1 software.**  The repository has no program for the SW1 test; its
  peer is modelled as the engine needs it: it waits for the flag, copies, and
  gives notice once, by the configured method.  `Garbage` stands for a copy
  gone wrong, so that the engine's check has something to find.
- **The LPBK1 mode in `NlbRun`.**  The arbiter connects the engine of
  `NlbRun` in its own three modes (`Connected`); LPBK1 is the mode after the
  interface reset and no run of `NlbRun` uses it.
- **Spacing of CSR writes.**  The software of `NlbRun` leaves one clock
  between the CSR writes of its test flow.  (The write lock is registered, so
  a configuration write in the clock after the one that releases the reset
  would be lost.)  Writes made *during* a run come in any clock.
- **Mutants.**  An operator named `<operator>_<fault>` is what the operator
  after it would be with a plausible bug.  No specification uses it; it is
  there to show that the property listed with it in `PROJECT.json` can fail.
- In the FIFO's comments `almFull` is raised by *more than* `FULL_THRESH`
  entries (`nlb_C1Tx_fifo.sv:63,74,90`); in the code, and here, by
  `FULL_THRESH` or more.

## 3. Runs

| run | question | bounds |
|---|---|---|
| `fifo` | is the FIFO a queue, and do its flags agree, whatever is written, acknowledged and reset when? | 4 entries, threshold 3, two values |
| `lpbk1_packets` | copies in packets of 4 lines, answered line by line out of order: each line once, unchanged, completion last, packets without gaps; is almost full seen early enough? | 2 packets per buffer; 1 and 5 packets: within the first buffer, and past both, with a third block; responses overtake one older one; threshold 2 and 12 entries, the smallest slack that suffices |
| `lpbk1_ends` | a finite copy completes, a continuous one goes on | single lines, 2 requests per buffer; finite: 1, 4, 5 lines; continuous: passes of 3 lines, which end inside a block |
| `run_finite` | repeated READ and TRPUT runs with interrupt, also empty ones; software also writes the configuration of a running test, from the clock after the start on | packets of 2 lines; 0 or 4 lines; queue of 3 |
| `run_forced` | WRITE runs, finite and continuous, cut off by software or an error at any clock: what reaches the link, with which configuration, and does the run end? | packets of 2 lines, 2 or 4 lines, queue of 2 |
| `sw1` | repeated round trips through the software, by each of the four methods, with a copy that may be wrong: does the flag come last, are the lines counted and judged rightly, does the test end? | 0, 1 and 3 lines, queue of 2 (smaller than the lines, fence and flag of one run) |
| `sw1_forced` | violated: see section 6 | polling, 2 lines |
| `pending` | are the pending counters exact, is bit 11 never set, is the host's load bounded, and is a channel held at its threshold released again? | threshold 3, bit 11 at 15 (the least that leaves room for what passes the threshold); reads of 2 lines, answered line by line; write responses of 1 or 2 lines |
| `mmio_stress` | does every worker read back what was written, is every answer waited for, is the header restored for the next program, does every program end? | 6 words (the header and three more), three workers of two words each, reads three clocks apart; program after program |
| `hello_mem` | are requests started once and answers paired, is the bridge never full, does the memory hold what was written, does the sweep end? | the code's own sizes: 64 addresses, burst of 32, 11-bit burst count, 128 commands |
| `hello_mem_ends` | violated: see section 6 | the same |
| `aal_app` | what can a release nobody waits for, or a failed buffer, cause; which failures are in the result; can main hang? | the three programs of the repository: 1, 1 and 2 services, 0, 0 and 3 buffers; two release requests |

Named bounds: `BufReqs`, `LineLen`, `TxCap`, `TxThresh` and `Depth` are the
code's own parameters (128, 1/2/4, 512, 496, 512) made small.  `CountMod`
(2^20) and `PendMod` (2^11) are the widths of counters, larger than anything
they count in a run except in continuous mode, where they wrap.
`MaxOvertake`, `PendLimit`, `MaxReads` and `MaxWrites` bound what is
outstanding at the host.  `MaxRequests` bounds the release requests of `AalApp` (its theorems hold for
any number).  `Thresh` (1536) and `Top` (2048) are what bits 10, 9
and bit 11 of the pending counters stand for; `ResetClocks` is how long the
software holds the reset, at least, two clocks being what it takes for the
last register stage to empty.  They are enough because the engine's behaviour
depends on where the line count falls relative to a buffer and a packet, and
on whether a queue or buffer is empty, full or in between, and the bounds
reach each of these cases; the slack result is proved for every value.

## 4. Fairness

Safety runs need none.  `Lpbk1Bench!FairSpec`
(`lpbk1_ends`): the clock runs; a read request that stays enabled is
accepted, outstanding reads and writes are answered, the queue is drained and
the software starts the test, each eventually (weak fairness).  The link's
almost-full signals are the only thing that can hold these back, and CCI-P
releases them.  `NlbRun!FairSpec` (`run_forced`): the host answers everything
(weak fairness), and the link lets each channel through again and again
(strong fairness: the clock in which it does and the clock in which the
requestor wants to send need not coincide the first time).  The software is
not assumed to force completion; the property speaks of runs it has forced.
`NlbSw1!FairSpec` (`sw1`, `sw1_forced`): each channel is let through, posted
writes are carried out, reads answered, and the software, once it has seen the
flag, copies and gives notice (weak fairness).  `PendTracker!FairSpec`
(`pending`): the clock runs, without the run having to end, and the host
answers reads and writes (weak fairness); the link need not take a request.
`MmioStress!FairSpec` (`mmio_stress`): the clock runs, each thread makes its
next access and main its next step when it can (weak fairness: threads are
scheduled, and an access that waits for the minimum distance between reads
gets its turn).  `pthread_create` need not fail.  `HelloMem!FairSpec`
(`hello_mem`, `hello_mem_ends`): the clock runs, the memory carries out a
command that waits, and the program makes its next access; strong fairness for
the accesses, since the clock in which one may arrive again comes and goes with
the clocks in between.  `AalApp!FairSpec` (`aal_app`): main goes on when it
may and the runtime makes some callback as long as it owes one (weak
fairness); nothing is assumed about release requests or about which callback it
makes.  Deadlock is not checked there: after a callback that only prints, main
waits for ever and the runtime has nothing left to do.  `Ends` is about
exactly this: it happens in no other way.

## 5. Proofs

`tlapm` checks the eight modules `*Proofs`.  Every theorem holds for all values
of the constants that meet the named assumptions of the module it is about;
what it needs besides is written in the theorem.

**The FIFO** (`DepthAssumption`: at least 2 entries; `ThreshAssumption`:
threshold between 1 and the depth; `NoItemAssumption`).  `FifoInvariant` is
`Spec => []FifoInv` with `FifoInv` = types, `FlagsAgree`, `PointersAgree`,
`WordsAgree`.  The conjunction is inductive and no part of it is: the flags
need the pointers (an address comparison is how a slot's overwriting is
excluded) and the words need both.  `FifoImplementsQueue` is
`Spec => Queue!Spec`: under the invariant the initial state maps to the empty
queue, a reset to `Clear`, and a clock to `Clock(wen, v, rdack)` with the same
arguments.  The lemmas before it say what the mapped sequence becomes when the
head leaves and a word arrives.

**The copy engine: its queue** (`LenAssumption`, `QueueAssumption`).
`NeverRefusedInvariant`: with `TxCap >= TxThresh + LineLen + 6` the FIFO never
refuses a write request, whatever host, link and buffers do.  (In the code
512 >= 496 + 4 + 6.)  `NeverRefused` says nothing of how the queue got full;
`SlackInv` is the strengthening: it bounds queue, pipeline and the lines owed
to a packet already begun, by three bounds according to how old the news of
almost full is.  Only the first line of a packet looks at the flag, hence
`LineLen`; five stages of pipeline and three of delay make the rest.  The
bound is tight: `lpbk1_packets` runs with exactly that many entries.

**The copy engine: the copy** (also `BufAssumption`, `ModAssumption`,
`CountsAssumption`, `NoItemAssumption`).  `Lpbk1Types` holds in both modes.
`Lpbk1LinesIntact`, `Lpbk1OncePerLine`, `Lpbk1PacketsContiguous` and
`Lpbk1ImplementsCopy` are about a finite copy of at least one line
(`FiniteCopy`) with the queue's slack above: for any number of requests per
buffer, any line count the counters can hold and responses in any order.  All
four follow from one invariant, `CopyIInv` in `Lpbk1Inv`, and none is inductive
without the whole of it: a write request is right because its slot is, the slot
because the buffer is refilled only after it has been emptied, that because
hand-over follows counts, and the counts because no request is answered twice.
It follows a line from source to destination:

- *The read side.*  What has been asked for is a prefix of the source, whose last
  block goes into the buffer being filled (`FillInv`); every slot of both
  buffers stands for one line (`At`).  A request in flight is about the line of
  its slot, the arbiter has the address of its tag, and no line is in flight
  twice (`ReadsInv`).  A slot whose line is asked for and neither in flight nor
  about to be stored holds it (`RamInv`).  A buffer's response counter is what
  was asked for less what is open (`CountInv`), as a cardinality, so that a
  buffer is called full only when nothing of its block is open.
- *The hand-over.*  `CtlInv` is the writer's control: it empties at most one
  buffer, the one whose turn it is, and says what the clocks between a buffer's
  last line and its release look like.  `TurnInv` relates the two sides: the
  block being emptied is the one filled before, the one being filled, or the one
  not begun yet, and which it is follows from the two service flags.  It is what
  excludes that both sides use a buffer at a time.
- *The write side.*  From the number of lines taken out of the RAMs count
  backwards: each stage of the pipeline, the queue, its two output registers and
  the destination hold the lines before, without a gap (`at1` to `atO2`).
  `FetchInv` says that the slot being read is settled, `PipeInv` that each stage
  carries its line at its place in the packet and that a packet is followed by
  its own next line, `OutInv` that the destination is exactly the prefix
  acknowledged or owed.

The refinement needs no more: a clock that moves the head of the output into the
destination is `CopyLine`, completion is `Finish`, and the count of write
responses reaches the line count only when the prefix is the whole buffer.  An
empty copy is excluded because the engine makes write requests of lines nobody
read in it (`test_lpbk1.sv:536`), and continuous mode because it reuses addresses
and promises no copy.

**The pending counters** (`LinesAssumption`: a request has at least one line;
`TopAssumption`: six read requests, or nine writes, fit between the threshold
and bit 11, in the code 1536 + 24 <= 2048; `ResetAssumption`: a reset lasts two
clocks).  `CountersExact`, `NeverFalseError` and `HostLoadBounded` follow from
`PendInvariant`, and none of the three is inductive: a counter is exact as long
as it does not wrap, it does not wrap as long as it is bounded, and it is
bounded because it is exact.  `PendInv` adds what carries the bounds (how many
requests can still be under way when the threshold is seen, by the age of the
news) and what carries exactness over a reset: the stages are empty when the
counters start again, which is where the length of the reset is needed.
`PendTypes` is the type invariant.

**Runs of READ, WRITE and TRPUT.**  The first half of `NlbRunProofs` is about where the software
is in a test and what registers two and three clocks further on show of it.
`FlowInvariant` is inductive and the basis of the rest: which bits of `CSR_CTL`
have landed and which are in the write stage (`CtlFlow`), that the
configuration is open only between reset and start (`LockFlow`), that a reset is
released only after everything of the last run has been cleared
(`ResetFlow`, `PristineFlow`), and that the status line the software waits for
means that the run is over (`DsmFlow`).  From it follow `RunTypes`,
`RunConfigFrozen` (the registered write lock closes no later than the
registered start, so that no late write gets through) and, if the software does
not meddle with a running test, `RunAsConfigured`.

The second half is about what such a run sends.  `CounterInv`: the pending
counters are exact.  A counter is exact until it wraps, so the theorem needs
`CountersWide`: queue, stages and what the host owes fit into its 11 bits.  In
the code that leaves 1530 lines for the host (2048 - 512 - 5).  The
comment at `requestor.sv:418` promises at most 1024; the throttle itself, at
1536 plus what is under way, does not establish it (the hazard at
`test_rdwr.sv:147`, and item 9 of the plan).  `EndInv`: with exact counters,
`TestCmp` means that nothing of the run is left anywhere (`Done`), and fence,
status and interrupt follow one another.  `RunPendingExact`,
`RunCompleteWhenDrained` and `RunDataMatchesRequest` follow.

`RunStreamOrder` is `Spec => StreamOrder`: `NlbRun` implements `C1Stream`, the
initial state and every step of it.  `StreamInv` carries the packets: from the
engine through the queue and the four stages, each request may follow the one
before it (`ChainInv`), lines are counted in whole packets (`Aligned`), and no
packet is open where something else is sent (`OpenInv`).  It has two more
hypotheses, and TLC finds a counterexample without either.  `CutsApart`: tests
that read and tests that write are not mixed in a program that ends tests by
force or meets errors, because of the stale mode of section 6.  `IntrAwaited`:
if errors raise interrupts, then so does every test, because software that does
not wait for the interrupt of an error may reset while it is being sent.

**Round trips of SW1.**  `SafeInv` of `NlbSw1Proofs` is inductive for any number
of lines, any depth of the queue and any order of memory.  Its parts: the flow
of the software (`FlowInv`, as above); while a run is neither cut off nor over,
the chain of requests from the engine to channel C1 without a gap, each known by
its place in the order lines, fence, flag (`ChainInv`); what is on its way to
memory (`SentInv`): every line below the place in stage T4 is in memory or on
its way, a fence is behind the last of them, and every line is followed by a
fence before the flag; that nothing follows the flag (`FlagInv`); and the notice,
the reads and the end.  `Sw1DataBeforeFlag` is a conjunct of `SentInv` that no
part of it implies: a forced end, a reset or a new run leave the rest without
force, and it has to survive them.  `Sw1CountsLines` needs all of the flow of
notice (`NoticeInv`, `ReadInv`): the response counter counts answers of polls
too, and is right because each poll is answered before the next is sent and
the notice is the answer of the last one.  `StopInv` ties the two halves
together: whoever gives notice has seen the flag, behind which nothing is left
to be cut off, so that a test that has been told cannot be stopped any more
(the reason of `sw1_forced`).  `Sw1ReportsTruth` adds `TruthInv`: a wrong line
among those answered is in the error bit, in the engine's flag one clock behind
it, or in the response about to be checked.  Its hypothesis `~Forces` is
needed: a test that is forced to end reports what it has found so far.

**MMIO stress** (`GapAssumption`, `TidsAssumption`, `WorkersAssumption`,
`WordsAssumption`, `ResetAssumption`, and `MinGap >= 3` as the theorem's
hypothesis).  `AnswersAreWaitedForInvariant`, for any number of threads and any
size of memory, follows from `WaitInv`: the stage a read is in tells how long
ago it arrived (`Ages`), so there is one read at most in the stages, and it is
the one `ram_tid_out` is about; it and the one being answered are waited for,
by two threads (`Waited`); a thread waits only where it works, so that main
finds nothing under way when it starts a reset (`Placed`, `Calm`).  The
program's side matters as much as the AFU's: nothing in a stage is cleared by
the reset.  `ReadBackInvariant` and `HeaderRestoredInvariant` follow from
`WaitInv` and `DataInv`.  The latter follows the data: what the memory will hold
at the next edge (`Eff`), the header as far as the reset machine has got
(`Header`), the part of its share a worker has written, or all of it once main
has joined the workers (`Written`), and in every stage of a read the word the
thread that waits for it wants (`Carried`).

**The local-memory test** (`DataAssumption`, `PlaceAssumption`, `CapAssumption`,
`GapAssumption`; hypotheses `Sleeping`, `MmioGap >= 4` and
`Cap >= SweepWords + 2`, in the code 128 >= 64 + 2).  The four theorems hold for
any number of addresses, any burst that fits, anywhere, a memory of any speed,
accesses that fail at any place, and any number of programs one after another.
They rest on `MemPhases`, whose invariant `MemIInv` says what the request
registers, the master, the bridge and the memory hold while the program is at
its k-th step (`Phase(k)`), and, if it has failed there, until the next reset.
A clock keeps a phase; an access, the end of a sleep or of a poll leads to the
next; a reset leads to the first.  A property like `AsTested` is far from
inductive: to know what is in memory after a burst one has to know which writes
are still in the bridge (`Landing`: the last `w` of them are its first `w`
entries, the others are in memory), how far the master is, and that the registers it
puts on the bus have not changed since the request.  What the hypotheses are
for shows in the phases.  The request takes three clocks to be taken up and
taken back (`Coming`, `Taken`), so that a fourth is the first in which the next
may be written.  The program asks for a read right behind the first write
without waiting, and nothing but the order of the bridge gives it the new data
(`ReadingBack`).  The sweep writes a word per clock and the memory may take
none, hence a bridge with room for all of them, and for the read behind them;
the sweep ends without the answer to its last read, which is still in the bridge
(`SweepDone`), and only the sleep keeps it from being taken for the answer of
another request.  `CapAssumption` and the room make `waitrequest` constant, which
is the one thing the master, which looks at it a clock late or not at all,
depends on.

**The AAL programs** (`ProgramsAssumption`: each program has at least one
service).  For any set of programs, numbers of services and buffers and number
of release requests.  `NoCallbackOwedInvariant` rests on `Ahead`: operations not
answered and a post not taken together are at most the stray posts, and one
more while main waits.  It is inductive because main asks for an operation only
where it goes on to wait, and the three places where it is not so (a service
wanted back, a buffer that cannot be allocated but for the first) count as
stray.  The semaphore holds one post at most, so posts may be lost in it; the
inequality allows that.  `NoNullPointerInvariant` uses `Ahead` to show that
with nothing astray the operation under way is the only one there is, so that
the post main takes while it allocates service `n` is the answer about service
`n`, and that in a program with one service the only other operation there can
be is the release of that same service, which is asked for only once it is
there.  `GivenInv` says what main has been given at each place.
`FailureToldInvariant` rests on `ToldInv`: with nothing astray main leaves a
Wait only with the answer it waits for, so that a failure is counted before
main goes on (`Counted`, `Ending`), what is counted is not taken back, and
after a callback that only prints main does not go on at all (`Stuck`).  So a
program that returns 0 has met no failure of the start, of an allocation, of a
buffer or of a test that counts its errors.  Three kinds of failure no code
enters in the result, and the theorem allows them (`Untold`): that of a
Release, that of the stop, and a mismatch the test only prints.  All
are recorded in `failed`; that these three may be in it while the program returns 0
is a divergence of the code (section 6).

Only model-checked:

- *Liveness* (`Completes`, `GoesOn`, `Ends`, `ForcedEnds`, `RoundTripEnds`,
  `SweepEnds`, `Released`): it needs `ENABLED`, which the
  provers do not reason about.
- *`Lpbk1Bench` in continuous mode*: the types and the slack are proved in both
  modes, the rest is proved for a finite copy and claimed of no other.
- *`HelloMem` without its hypotheses.*  TLC finds a counterexample without each
  of them, on six addresses: a bridge of `SweepWords + 1` commands violates
  `CommandsFit`, accesses three clocks apart violate `StartedOnce`, and sleeps
  that may be over at once violate `AnswersPaired` and `AsTested`
  (`CommandsFit` and `StartedOnce` still hold in that instance; the theorems
  do not say so).

## 6. Divergences between code and documentation

Two are shown by runs:

- `sw1_forced`.  `test_stop` waits for the last line of a packet in pipeline
  stage T4 unless the test only reads.  A SW1 test whose software never gives
  notice (which is when one would force it) has no write to send any more, so
  the forced completion, like a detected error, has no effect, against
  `nlb_lpbk.sv:189`.  The mode-7 variant of the requestor
  (`src/test_afus/ccip_mode7_mt/HW/requestor.sv:503`) has no such condition.
- `hello_mem_ends`.  `hello_mem_afu.c:256` reads the status register once and
  does not use the value; the read clears the done bits a clock later unless
  the burst is still being read.  If the burst is over by then, the loop of
  lines 262-266 polls the cleared bit for ever.

More that the models show, with no run of their own:

- *Stale mode.*  `read_only_test` is set while the mode of the *previous* test
  is still in `CSR_CFG` (the reset is released before the new configuration is
  written) and is not cleared by the new mode.  A WRITE test that follows a
  READ test then does not wait for the end of a packet when it is forced to
  complete, against `requestor.sv:484`.  `RunForced.cfg` with
  `Configs <- ReadThenWrite` (in `MCRun`) violates `StreamOrder`.
- *Zero lines.*  A copy of no lines offers write requests made of RAM contents
  nobody read (`test_lpbk1.sv:536`: the count of responses equals the line count
  from the start).  Whether they reach memory before the status write ends the
  run depends on how long the link holds the queue.
- *MMIO stress.*  Reads that arrive less than three clocks apart are answered
  with the later one's transaction id or half: `MinGap = 2` violates
  `ReadBack`.  The "4-cycle long internal reset" of `mmio_stress_afu.sv:65` is
  a state machine of five states that goes round for as long as the reset
  lasts.  The program overwrites the device feature header; a mismatch is
  printed and changes nothing about the exit code.
- *Local memory.*  A second write of `MEM_RDWR` within three clocks of the
  first is lost (`MmioGap = 3` violates `StartedOnce`).  The loop of
  `hello_mem_afu.c:218` is never entered, since `0x40 != data32&0x40` is
  `(0x40 != data32) & 0x40`; line 227's mismatch is printed and not counted; the
  condition of line 268 cannot hold after the loop before it; the failure
  branch to `out_close` leaves the MMIO space mapped.  `burstcount` is not taken
  back after a burst is read (`mem_fsm.sv:146`), so a second burst read would
  end at its first answer.  The counter is advanced by a blocking assignment
  (`mem_fsm.sv:134,151`) and read by another block on the same edge
  (`mem_fsm.sv:188`), so a simulator may set the read's done bit one answer
  early; the model allows either order (`NextDone`), and the properties hold
  in both.
- *AAL programs.*  `runtimeStartFailed` and `runtimeAllocateServiceFailed` post
  nothing, nor does `serviceAllocated` if an interface is missing: main hangs,
  although `MMIOStressTest.cpp:234` says that `runtimeStartFailed` "should set
  m_bIsOK appropriately" (it sets nothing, and the constructor would overwrite
  it).  A service that is wanted back, and a buffer other than the first that
  cannot be allocated, make a post nobody waits for; a later Wait returns
  early, main may return before the runtime has stopped, and a program with two
  services may use the second before it is there.  If the second service cannot
  be allocated the first is not released (`done_1` is not used).
  Failures are lost: `MMIOStressTest.cpp:127` and `:171` say of `run()` and of
  `m_Result` that they are 0 if the program succeeds, but a failed Release
  (`serviceReleaseFailed`, line 485) and a failed stop of the runtime
  (`runtimeStopFailed`, line 534) only take `m_bIsOK` back, which the exit
  does not look at, and a mismatch (lines 361, 387) is printed and goes to
  `done_1`; `m_Result` stays 0 and is returned.  `InitRelease` and
  `HelloALIVTPNLB` share the first two.  With nothing in `Untold` the run
  `aal_app` violates `FailureTold`.

Four more are visible in the NLB's code and need no run: `nlb_lpbk.sv:147` documents
`CSR_CFG[8]` as a random delay of requests, which `requestor.sv:400` ties to 0;
`test_sw1.sv:51` puts the
message register at 0xB00, `nlb_csr.sv:138` at 0x158; `CSR_NUM_LINES`
(`nlb_csr.sv:404`) is not behind the write lock, although
`nlb_lpbk.sv:184` allows configuration only before the start, and the engines
compare their counters with it for equality; and clearing `CSR_CTL[0]` does
not restore the configuration defaults as `nlb_lpbk.sv:138` says, only the
interface reset does (`nlb_csr.sv:517`), which is what makes the stale mode
possible.

## 7. What is not covered

- Reset of a run in progress, and responses of one run arriving in the next.
  The counters of `PendTracker` are exact because its software waits for every
  response before it resets.  The programs of the repository wait for the
  status line only, whose own response may still be on its way; what a counter
  makes of a response that arrives in the next run is the first question of
  the plan.
- The read credits of the requestor (`stallRd`): the engines are given the
  signal and none looks at it.
- Request addresses beyond the line number, virtual channels, request types,
  performance counters, the inactivity timer (a debug signal), CSR reads.
- The asynchronous shim and the AFUs listed as not modelled.
- In `hello_mem`: the header and scratch registers, the bank select, the error
  bits, and `SIM_MODE` (`mem_fsm.sv:67-70`, write data made of burst count and
  address), which no build file of this AFU defines; in the AAL programs: what the tests do with the accelerator.
- Two values of the copy engine's packet length are run (1 in `lpbk1_ends`, 4
  in `lpbk1_packets`); the end of a forced READ test is not run.
- Four fifths of the C and C++ lines under `src/` are a vendored googletest
  (`src/test_afus/gtest`), third-party code that carries none of the system's
  logic; most of what is modelled here is SystemVerilog.
- The CCI-P link and the host beyond what `requestor.sv` and the programs rely
  on: every accepted request is answered once, per line for reads, per line or
  per packet for writes.

## 8. Plan

Done: (1) FIFO and its proof, (2) copy engine, the proofs of its slack
and that it implements the copy, (3) whole runs of READ, WRITE, TRPUT and their
proofs, (4) round trips of SW1 and their
proof, (5) the requestor's pending counters and their proof, (6) MMIO stress
and its proof, (7) the local-memory test and its proof, (8) the AAL programs and
their proofs.  Every safety property and every refinement a passing run checks
is stated by a theorem.

Next, in this order:

9. `PendTracker` with a software that resets when it sees the status line, or
   at any time, as the programs do: which errors can the next run report, and
   how long must the reset last to exclude them?  Then a second question for
   the same counters: the 11-bit `Num_WrPend` of `test_rdwr.sv` counts what
   waits in the FIFO (512) besides what the requestor's threshold (1536) lets
   out, which together is its whole range.
10. `NlbLpbk1`: `TestLpbk1` with `Requestor`, status line and memory, to state
   completion as the program sees it (`memcmp` after the status line).
11. `AsyncShim`: the clock-crossing FIFOs and their almost-full margins.
