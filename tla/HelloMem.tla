------------------------------- MODULE HelloMem ------------------------------
(***************************************************************************)
(* hello_mem_afu.c, its AFU and the memory.  The program is a list of MMIO *)
(* accesses, sleeps and polling loops; it resets the AFU first and is run  *)
(* again and again.  The memory is behind a clock-crossing bridge that     *)
(* queues Cap commands and raises waitrequest when it is full (external).  *)
(* Accesses arrive at least MmioGap clocks apart.  Sleeping says whether a *)
(* sleep lasts until the AFU has nothing left to do, which is what the     *)
(* program counts on, or may be over at once.                              *)
(***************************************************************************)
EXTENDS MemAfu, Sequences, FiniteSets

CONSTANTS
  Data1, Data3,  \* what the first and the third test write
  Addr,          \* AVM_ADDRESS_REG
  Burst,         \* length of the burst of the third test
  Cap,           \* COMMAND_FIFO_DEPTH
  MmioGap,       \* clocks between two MMIO accesses, at least
  Sleeping

ASSUME DataAssumption == Data = {Data1, Data3}
ASSUME PlaceAssumption ==
  /\ Addr \in Nat /\ Burst \in Nat \ {0}
  /\ Addr + Burst <= SweepWords /\ Burst < BurstMod
ASSUME CapAssumption == Cap \in Nat
ASSUME GapAssumption == MmioGap \in Nat /\ MmioGap >= 2

VARIABLES
  ip, resetting, gap, errors, data,   \* the program; data is what it read last
  queue, valid, rdata, mem, beat,     \* the bridge and the memory
  asked                               \* history: a request was written, not yet started

progVars == <<ip, resetting, gap, errors, data>>
memVars == <<queue, valid, rdata, mem, beat>>
vars == <<afuVars, progVars, memVars, asked>>

-----------------------------------------------------------------------------
(* The program.  An access is checked if a failure ends the program.       *)
Wr(reg, val, checked) == [op |-> "write", reg |-> reg, val |-> val, checked |-> checked]
Rd(reg, checked) == [op |-> "read", reg |-> reg, checked |-> checked]
Sleep == [op |-> "sleep"]
Poll(reg) == [op |-> "poll", reg |-> reg]

DoWrite == [en |-> TRUE, rd |-> FALSE]
DoRead == [en |-> TRUE, rd |-> TRUE]

(* The condition of the loop after the first sleep, 0x40 != data32&0x40,   *)
(* is (0x40 != data32) & 0x40, that is 0: the loop is not there.           *)
Test1 == << Wr("MEM_ADDRESS", Addr, TRUE), Wr("MEM_WRDATA", Data1, TRUE),
            Wr("MEM_RDWR", DoWrite, TRUE), Wr("MEM_RDWR", DoRead, TRUE),
            Rd("MEM_RDWR_STATUS", TRUE), Sleep, Rd("MEM_RDDATA", TRUE) >>
Test2 == << Wr("MEM_ADDR_TESTMODE", TRUE, FALSE), Sleep, Poll("MEM_ADDR_TEST_STATUS") >>
Test3 == << Wr("MEM_WRDATA", Data3, FALSE), Wr("MEM_BURSTCOUNT", Burst, FALSE),
            Wr("MEM_RDWR", DoWrite, FALSE), Sleep, Wr("MEM_RDWR", DoRead, FALSE),
            Rd("MEM_RDWR_STATUS", FALSE), Sleep, Poll("MEM_RDWR_STATUS"), Sleep >>
Prog == Test1 \o Test2 \o Test3

Checked == Len(Test1)                  \* ip at which the data is compared
Swept == Len(Test1 \o Test2)           \* the sweep has been waited for
BurstSlept == Swept + 4                \* the burst has been written
Over == Len(Prog) + 1
Instr == Prog[ip]

Init ==
  /\ AfuInit
  /\ ip = 1 /\ resetting = TRUE /\ gap = 0 /\ errors = 0 /\ data = Nothing
  /\ queue = <<>> /\ valid = FALSE /\ rdata = Nothing /\ beat = 0
  /\ mem = [a \in 0 .. LastWord |-> Nothing]
  /\ asked = FALSE

-----------------------------------------------------------------------------
(* The bridge and the memory: commands are carried out in order, at any    *)
(* pace.  A burst is written at, and read from, consecutive addresses.     *)
avs_waitrequest == Len(queue) >= Cap

Command ==
  CASE avs_write -> << [write |-> TRUE, at |-> avs_address + beat, val |-> avm_writedata] >>
    [] avs_read -> [i \in 1 .. avm_burstcount |-> [write |-> FALSE, at |-> avs_address + i - 1]]
    [] OTHER -> <<>>

Memory(serves) ==
  /\ beat' = IF avs_write THEN (beat + 1) % avm_burstcount ELSE beat
  /\ queue' = (IF serves THEN Tail(queue) ELSE queue)
                \o (IF avs_waitrequest THEN <<>> ELSE Command)
  /\ mem' = IF serves /\ Head(queue).write
              THEN [mem EXCEPT ![Head(queue).at] = Head(queue).val] ELSE mem
  /\ valid' = (serves /\ ~Head(queue).write)
  /\ rdata' = IF serves /\ ~Head(queue).write THEN mem[Head(queue).at] ELSE rdata

Starts == state = "IDLE" /\ state' \in {"WR_REQ", "RD_REQ"}

(***************************************************************************)
(* A clock of the AFU, in which the request rx arrives.                    *)
(***************************************************************************)
Clock(rx) ==
  /\ \E serves \in BOOLEAN : (serves => queue # <<>>) /\ Memory(serves)
  /\ Clk(FALSE, rx, valid, rdata, avs_waitrequest)
  /\ asked' = (writes(rx, "MEM_RDWR") \/ (asked /\ ~Starts))

Tick ==
  /\ ~resetting
  /\ Clock(NoReq)
  /\ gap' = IF gap < MmioGap THEN gap + 1 ELSE gap
  /\ UNCHANGED <<ip, resetting, errors, data>>

(* A clock with the AFU and the bridge in reset: their commands are gone.  *)
(* softReset lasts as long as it takes, MmioGap clocks at least.           *)
ResetTick ==
  /\ resetting
  /\ Clk(TRUE, NoReq, valid, rdata, FALSE)
  /\ queue' = <<>> /\ valid' = FALSE /\ beat' = 0 /\ UNCHANGED <<rdata, mem>>
  /\ asked' = FALSE
  /\ gap' = IF gap < MmioGap THEN gap + 1 ELSE gap
  /\ UNCHANGED <<ip, resetting, errors, data>>

ResetOver ==
  /\ resetting /\ gap = MmioGap
  /\ resetting' = FALSE
  /\ UNCHANGED <<afuVars, memVars, asked, ip, gap, errors, data>>

Reaches == ~resetting /\ ip < Over
Access(op) == Reaches /\ Instr.op = op /\ gap = MmioGap /\ gap' = 1

Write ==
  /\ Access("write")
  /\ Clock([op |-> "write", reg |-> Instr.reg, val |-> Instr.val])
  /\ ip' = ip + 1
  /\ UNCHANGED <<resetting, errors, data>>

Read ==
  /\ Access("read")
  /\ Clock([op |-> "read", reg |-> Instr.reg])
  /\ ip' = ip + 1
  /\ data' = IF Instr.reg = "MEM_RDDATA" THEN ReadValue(Instr.reg) ELSE data
  /\ UNCHANGED <<resetting, errors>>

PollDone ==
  CASE Instr.reg = "MEM_ADDR_TEST_STATUS" -> addr_test_done
    [] Instr.reg = "MEM_RDWR_STATUS" -> "rd" \in rdwr_done

PollOnce ==
  /\ Access("poll")
  /\ Clock([op |-> "read", reg |-> Instr.reg])
  /\ ip' = IF PollDone THEN ip + 1 ELSE ip
  /\ UNCHANGED <<resetting, errors, data>>

(* Nothing is under way, and nothing will happen without the program.      *)
Still ==
  /\ queue = <<>> /\ ~valid /\ ~avs_write /\ ~avs_read
  /\ ~mem_RDWR.en /\ ~avm_write /\ ~avm_read
  /\ state \in {"RD_RSP", "TEST_READ"} \/ (state = "IDLE" /\ (mem_testmode => addr_test_done))

SleepOver ==
  /\ Reaches /\ Instr.op = "sleep"
  /\ Sleeping => Still
  /\ ip' = ip + 1
  /\ UNCHANGED <<afuVars, memVars, asked, resetting, gap, errors, data>>

(* ON_ERR_GOTO: s_error_count += 1, and the AFU is closed as it is.        *)
Fail ==
  /\ Reaches /\ errors = 0
  /\ Instr.op = "poll" \/ (Instr.op \in {"write", "read"} /\ Instr.checked)
  /\ errors' = 1 /\ ip' = Over
  /\ UNCHANGED <<afuVars, memVars, asked, resetting, gap, data>>

(* The next program opens the AFU and resets it.                           *)
Restart ==
  /\ ip = Over /\ ~resetting
  /\ ip' = 1 /\ resetting' = TRUE /\ errors' = 0 /\ data' = Nothing
  /\ gap' = 0
  /\ UNCHANGED <<afuVars, memVars, asked>>

ProgStep == Write \/ Read \/ PollOnce \/ SleepOver \/ ResetOver \/ Restart
Next == Tick \/ ResetTick \/ ProgStep \/ Fail

Spec == Init /\ [][Next]_vars

(***************************************************************************)
(* The clock goes on, the memory answers, and the program takes its next   *)
(* step when it may.                                                       *)
(***************************************************************************)
FairSpec ==
  /\ Spec
  /\ WF_vars(Tick) /\ WF_vars(ResetTick) /\ WF_vars(ResetOver)
  /\ WF_vars(Next /\ queue # <<>> /\ queue' # queue /\ Len(queue') <= Len(queue))
  /\ SF_vars(Write) /\ SF_vars(Read) /\ SF_vars(PollOnce)
  /\ WF_vars(SleepOver) /\ WF_vars(Restart)

-----------------------------------------------------------------------------
(***************************************************************************)
(* The master ignores waitrequest while it writes a burst and looks at it  *)
(* a clock late while it sweeps.  It may: the bridge is never full.        *)
(***************************************************************************)
CommandsFit == ~avs_waitrequest

(***************************************************************************)
(* A request written to MEM_RDWR is started once, not lost while the       *)
(* master is busy or the enable bit is taken back, and not started twice   *)
(* though the bit stays set for some clocks.                               *)
(***************************************************************************)
StartedOnce ==
  /\ [](Still => ~asked)
  /\ [][Starts => asked]_vars

(***************************************************************************)
(* The answers on their way are those the master waits for: the late       *)
(* answer of one request is never taken for that of another, and once the  *)
(* burst has been read none is left.                                       *)
(***************************************************************************)
Answers == Cardinality({i \in 1 .. Len(queue) : ~queue[i].write})
             + (IF valid THEN 1 ELSE 0) + (IF avs_read THEN avm_burstcount ELSE 0)

AnswersPaired ==
  /\ state = "RD_RSP" => Answers = avm_burstcount - burstcount + 1
  /\ state = "IDLE" /\ ip > BurstSlept /\ errors = 0 => Answers = 0

(***************************************************************************)
(* After a sleep the memory holds what the tests so far have written: the  *)
(* sweep has covered every address, and the burst has gone where it should *)
(* and nowhere else.  "Write Data does NOT Match Read Data" is not printed *)
(* by the first test.                                                      *)
(***************************************************************************)
InBurst(a) == a \in Addr .. Addr + Burst - 1

AsTested ==
  errors = 0 /\ ~resetting =>
    /\ ip = Checked => mem[Addr] = Data1
    /\ ip = Checked + 1 => data = Data1
    /\ ip = Swept /\ addr_test_done => \A a \in 0 .. LastWord : mem[a] = Data1
    /\ ip > BurstSlept => \A a \in 0 .. LastWord : mem[a] = IF InBurst(a) THEN Data3 ELSE Data1

(***************************************************************************)
(* The sweep ends, or the program fails: it is not polled for ever.        *)
(***************************************************************************)
SweepEnds == ip = Swept ~> ip # Swept

(***************************************************************************)
(* The program ends.                                                       *)
(***************************************************************************)
Ends == []<>(ip = Over)
=============================================================================
