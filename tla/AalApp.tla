-------------------------------- MODULE AalApp --------------------------------
(***************************************************************************)
(* The AAL programs: MMIOStressTest, InitRelease and HelloALIVTPNLB.  The  *)
(* application object is the client of the AAL runtime: main asks for one  *)
(* operation at a time and sits on the semaphore m_Sem, a callback posts   *)
(* it.  The runtime and the services (external) answer each operation by   *)
(* one callback, in any order, on a thread of their own; a service may     *)
(* also ask to be released.  The programs have the same object and differ  *)
(* in what they allocate and in the test they run.                         *)
(* Definitions named <op>_<fault> are mutants of the operator after them.  *)
(***************************************************************************)
EXTENDS Integers, Sequences

CONSTANTS
  NumServices,   \* [programs -> Nat]: services a program allocates
  NumBuffers,    \* [programs -> Nat]: buffers it allocates then
  TestOf,        \* [programs -> TestKinds]: what becomes of a failed test
  MaxRequests    \* bound on serviceReleaseRequest

Programs == DOMAIN NumServices
TestKinds == {"none", "printed", "told"}

ASSUME ProgramsAssumption ==
  /\ NumServices \in [Programs -> Nat \ {0}]
  /\ NumBuffers \in [Programs -> Nat]
  /\ TestOf \in [Programs -> TestKinds]
ASSUME RequestsAssumption == MaxRequests \in Nat

Kinds == {"start", "alloc", "release", "stop"}   \* of operations

VARIABLES
  prog,        \* the program that runs
  pc, n,       \* where main is, and at which service or buffer
  m_Sem, m_bIsOK, m_Result,
  services,    \* the services whose m_pAALService is set
  usable,      \* those all of whose interfaces are set
  asked,       \* the operations the runtime has not answered yet
  requests,    \* serviceReleaseRequests so far
  \* history
  stray,       \* posts, made or to be made, that no Wait is meant for
  silent,      \* a callback main waits for has not posted
  failed       \* what has failed: Kinds, "buffer", "test"

mainVars == <<pc, n, failed>>
semVars == <<m_Sem, stray>>
resultVars == <<m_bIsOK, m_Result>>
serviceVars == <<services, usable>>
vars == <<prog, mainVars, semVars, resultVars, serviceVars, asked, requests, silent>>

Waiting == {"starting", "allocating", "released", "stopping"}

(* m_bIsOK is not initialised.                                             *)
Init ==
  /\ prog \in Programs /\ pc = "start" /\ n = 1
  /\ m_Sem = 0 /\ m_bIsOK \in BOOLEAN /\ m_Result = 0
  /\ services = {} /\ usable = {} /\ asked = <<>> /\ requests = 0
  /\ stray = 0 /\ silent = FALSE /\ failed = {}

-----------------------------------------------------------------------------
(***************************************************************************)
(* Main.  It asks for an operation and goes on to wait for the semaphore.  *)
(***************************************************************************)
Asks(kind, s, at) ==
  /\ asked' = Append(asked, [kind |-> kind, of |-> s])
  /\ pc' = at

Wait(at) == pc = at /\ m_Sem = 1 /\ m_Sem' = 0 /\ UNCHANGED stray

(* A semaphore created with the maximum 1.                                 *)
Post(isStray) ==
  /\ m_Sem' = 1
  /\ stray' = IF isStray THEN stray + 1 ELSE stray

(* The constructor.  m_bIsOK is set whatever the callback was.             *)
Start ==
  /\ pc = "start"
  /\ \/ Asks("start", 0, "starting") /\ UNCHANGED m_bIsOK
        /\ UNCHANGED failed
     \/ pc' = "constructed" /\ m_bIsOK' = FALSE /\ UNCHANGED asked
        /\ failed' = {"start"}
  /\ UNCHANGED <<semVars, m_Result, n>>

Started ==
  /\ Wait("starting")
  /\ pc' = "constructed" /\ m_bIsOK' = TRUE
  /\ UNCHANGED <<asked, m_Result, n, failed>>

(* main: exit(1), or run(), which allocates the first service.             *)
Constructed ==
  /\ pc = "constructed"
  /\ \/ m_bIsOK /\ Asks("alloc", 1, "allocating") /\ UNCHANGED m_Result
     \/ ~m_bIsOK /\ pc' = "over" /\ m_Result' = 1 /\ UNCHANGED asked
  /\ UNCHANGED <<semVars, m_bIsOK, n, failed>>

(* After an allocation: the next one, the buffers, or done_0, which leaves *)
(* the services that have been allocated before.                           *)
Allocated ==
  /\ Wait("allocating")
  /\ \/ ~m_bIsOK /\ Asks("stop", 0, "stopping") /\ UNCHANGED n
     \/ /\ m_bIsOK /\ n < NumServices[prog]
        /\ n' = n + 1 /\ Asks("alloc", n + 1, "allocating")
     \/ /\ m_bIsOK /\ n = NumServices[prog]
        /\ n' = 1 /\ pc' = "buffers" /\ UNCHANGED asked
  /\ UNCHANGED <<resultVars, failed>>

(* bufferAllocate is synchronous.  When it fails for any buffer but the    *)
(* first the semaphore is posted, though nobody waits for it.              *)
Buffer ==
  /\ pc = "buffers" /\ n <= NumBuffers[prog] /\ NumServices[prog] \in usable
  /\ \/ n' = n + 1 /\ UNCHANGED <<pc, semVars, resultVars, failed>>
     \/ /\ m_bIsOK' = FALSE /\ m_Result' = -1 /\ failed' = failed \cup {"buffer"}
        /\ pc' = "releasing" /\ n' = NumServices[prog]
        /\ IF n = 1 THEN UNCHANGED semVars ELSE Post(TRUE)
  /\ UNCHANGED asked

(* The test, left out when m_bIsOK has been taken back meanwhile.  It can  *)
(* find a mismatch, or two.                                                *)
Test ==
  /\ pc = "buffers" /\ n > NumBuffers[prog]
  /\ m_bIsOK /\ TestOf[prog] # "none" => 1 \in usable
  /\ pc' = "releasing" /\ n' = NumServices[prog]
  /\ \/ UNCHANGED <<m_Result, failed>>
     \/ /\ m_bIsOK /\ TestOf[prog] # "none" /\ failed' = failed \cup {"test"}
        /\ IF TestOf[prog] = "told" THEN \E k \in {1, 2} : m_Result' = m_Result + k
                                    ELSE UNCHANGED m_Result
  /\ UNCHANGED <<semVars, asked, m_bIsOK>>

(* Release() of the services, the last one first, each with its Wait.      *)
Release ==
  /\ pc = "releasing" /\ n \in services
  /\ Asks("release", n, "released")
  /\ UNCHANGED <<semVars, resultVars, n, failed>>

Released_unwaited ==
  /\ Wait("released")
  /\ \/ n > 1 /\ n' = n - 1 /\ pc' = "releasing" /\ UNCHANGED asked
     \/ n = 1 /\ Asks("stop", 0, "over") /\ UNCHANGED n
  /\ UNCHANGED <<resultVars, failed>>

Released ==
  /\ Wait("released")
  /\ \/ n > 1 /\ n' = n - 1 /\ pc' = "releasing" /\ UNCHANGED asked
     \/ n = 1 /\ Asks("stop", 0, "stopping") /\ UNCHANGED n
  /\ UNCHANGED <<resultVars, failed>>

(* run() returns and the semaphore is destroyed.                           *)
Stopped ==
  /\ Wait("stopping") /\ pc' = "over"
  /\ UNCHANGED <<asked, resultVars, n, failed>>

(* A service is used through a pointer that has not been set.              *)
NullPointer ==
  \/ /\ pc = "buffers"
     /\ \/ n <= NumBuffers[prog] /\ NumServices[prog] \notin usable
        \/ n > NumBuffers[prog] /\ m_bIsOK /\ TestOf[prog] # "none" /\ 1 \notin usable
  \/ pc = "releasing" /\ n \notin services

Crash ==
  /\ NullPointer
  /\ pc' = "over" /\ m_Result' = 139
  /\ UNCHANGED <<semVars, asked, m_bIsOK, n, failed>>

Main ==
  /\ Start \/ Started \/ Constructed \/ Allocated \/ Buffer \/ Test \/ Release
       \/ Released \/ Stopped \/ Crash
  /\ UNCHANGED <<prog, serviceVars, requests, silent>>

-----------------------------------------------------------------------------
(***************************************************************************)
(* The callbacks.  op is the operation that is answered.                   *)
(***************************************************************************)
(* A missing interface is found after m_pAALService has been set.          *)
serviceAllocated(op) ==
  /\ op.kind = "alloc"
  /\ \/ /\ services' = services \cup {op.of} /\ usable' = usable \cup {op.of}
        /\ Post(FALSE) /\ UNCHANGED <<m_bIsOK, silent, failed>>
     \/ /\ services' \in {services, services \cup {op.of}} /\ UNCHANGED usable
        /\ m_bIsOK' = FALSE /\ silent' = TRUE /\ UNCHANGED semVars
        /\ failed' = failed \cup {"alloc"}
  /\ UNCHANGED m_Result

serviceAllocateFailed_notCounted(op) ==
  /\ op.kind = "alloc"
  /\ failed' = failed \cup {"alloc"}
  /\ m_bIsOK' = FALSE /\ Post(FALSE)
  /\ UNCHANGED <<serviceVars, silent, m_Result>>

serviceAllocateFailed_stillOK(op) ==
  /\ op.kind = "alloc"
  /\ failed' = failed \cup {"alloc"}
  /\ m_Result' = m_Result + 1 /\ Post(FALSE)
  /\ UNCHANGED <<serviceVars, silent, m_bIsOK>>

serviceAllocateFailed(op) ==
  /\ op.kind = "alloc"
  /\ failed' = failed \cup {"alloc"}
  /\ m_Result' = m_Result + 1 /\ m_bIsOK' = FALSE /\ Post(FALSE)
  /\ UNCHANGED <<serviceVars, silent>>

runtimeStarted(op) == op.kind = "start" /\ m_bIsOK' = TRUE /\ UNCHANGED failed

serviceReleased(op) == op.kind = "release" /\ UNCHANGED <<m_bIsOK, failed>>

runtimeStopped(op) == op.kind = "stop" /\ m_bIsOK' = FALSE /\ UNCHANGED failed

(* These two do not enter the failure in m_Result.                         *)
serviceReleaseFailed(op) ==
  op.kind = "release" /\ m_bIsOK' = FALSE /\ failed' = failed \cup {"release"}

runtimeStopFailed(op) ==
  op.kind = "stop" /\ m_bIsOK' = FALSE /\ failed' = failed \cup {"stop"}

Answers(op) ==
  \/ runtimeStarted(op) \/ runtimeStopped(op) \/ runtimeStopFailed(op)
  \/ serviceReleased(op) \/ serviceReleaseFailed(op)

Posts_notReleased(op) ==
  /\ Answers(op)
  /\ IF op.kind = "release" THEN UNCHANGED semVars ELSE Post(FALSE)
  /\ UNCHANGED <<serviceVars, silent, m_Result>>

Posts(op) ==
  /\ Answers(op)
  /\ Post(FALSE)
  /\ UNCHANGED <<serviceVars, silent, m_Result>>

(* runtimeStartFailed and runtimeAllocateServiceFailed only print.         *)
Prints(op) ==
  /\ op.kind \in {"start", "alloc"} /\ silent' = TRUE /\ failed' = failed \cup {op.kind}
  /\ UNCHANGED <<semVars, resultVars, serviceVars>>

Without(i) == SubSeq(asked, 1, i - 1) \o SubSeq(asked, i + 1, Len(asked))

Callback ==
  /\ pc # "over"
  /\ \E i \in 1 .. Len(asked) :
       /\ asked' = Without(i)
       /\ \/ serviceAllocated(asked[i]) \/ serviceAllocateFailed(asked[i])
          \/ Posts(asked[i]) \/ Prints(asked[i])
  /\ UNCHANGED <<prog, pc, n, requests>>

(* The first service is wanted back and released once more, as often as it *)
(* is asked for; the callback of that posts the semaphore for nobody.      *)
serviceReleaseRequest ==
  /\ pc # "over" /\ 1 \in services /\ requests < MaxRequests
  /\ requests' = requests + 1
  /\ Asks("release", 1, pc)
  /\ stray' = stray + 1
  /\ UNCHANGED <<prog, n, failed, m_Sem, resultVars, serviceVars, silent>>

(* The next program.                                                       *)
Again ==
  /\ pc = "over"
  /\ prog' \in Programs /\ pc' = "start" /\ n' = 1
  /\ m_Sem' = 0 /\ m_bIsOK' \in BOOLEAN /\ m_Result' = 0
  /\ services' = {} /\ usable' = {} /\ asked' = <<>> /\ requests' = 0
  /\ stray' = 0 /\ silent' = FALSE /\ failed' = {}

Next == Main \/ Callback \/ serviceReleaseRequest \/ Again

Spec == Init /\ [][Next]_vars

(* Main goes on when it may, and the runtime answers what it is asked.     *)
FairSpec == Spec /\ WF_vars(Main) /\ WF_vars(Callback) /\ WF_vars(Again)

-----------------------------------------------------------------------------
(***************************************************************************)
(* When main returns and destroys the semaphore the runtime owes it no     *)
(* callback any more, but for one for each stray post: nothing else makes  *)
(* a Wait return for another operation than its own.                       *)
(***************************************************************************)
NoCallbackOwed == pc = "over" => Len(asked) <= stray

(***************************************************************************)
(* No service is used through a pointer that has not been set, unless one  *)
(* Wait has returned for another; a program with one service has all it    *)
(* uses even then.                                                         *)
(***************************************************************************)
NoNullPointer == NullPointer => stray > 0 /\ NumServices[prog] > 1

(***************************************************************************)
(* Failures that no code enters in the result: that of a Release or of the *)
(* stop of the runtime, and a mismatch the test only prints.               *)
(***************************************************************************)
Untold == {"release", "stop"} \cup (IF TestOf[prog] = "printed" THEN {"test"} ELSE {})

(***************************************************************************)
(* Any other failure (the start of the runtime, an allocation, a buffer, a *)
(* "told" test) is in the result of the program, unless a Wait has         *)
(* returned for another operation: a program that returns 0 has not met    *)
(* one.                                                                    *)
(***************************************************************************)
FailureTold == pc = "over" /\ m_Result = 0 /\ stray = 0 => failed \subseteq Untold

(***************************************************************************)
(* Main never waits for ever, whatever stray posts there were and though   *)
(* the semaphore counts to 1 only, unless a callback has only printed.     *)
(***************************************************************************)
Ends == []<>(pc = "over" \/ silent)
=============================================================================
