------------------------------ MODULE AalProofs ------------------------------
(***************************************************************************)
(* For every set of programs, however many services and buffers they have  *)
(* and however often a service asks to be released: main is never further  *)
(* ahead of the runtime than the operation it waits for and one more for   *)
(* each stray post, so that nothing else can make it return early; and     *)
(* unless something is astray, in a program of several services, main and  *)
(* the callbacks use no service and no buffer they have not been given.    *)
(***************************************************************************)
EXTENDS AalApp, TLAPS

Ops == [kind : Kinds, of : Nat]

(* Main has asked for one operation at most that is not answered yet.      *)
Ahead == Len(asked) + m_Sem <= stray + (IF pc \in Waiting THEN 1 ELSE 0)

Types ==
  /\ asked \in Seq(Ops) /\ m_Sem \in {0, 1} /\ stray \in Nat
  /\ n \in Nat /\ NumServices \in [Programs -> Nat] /\ prog \in Programs

AheadInv == Types /\ Ahead

(* Asking makes the queue longer by one operation.                         *)
LEMMA AsksOne ==
  ASSUME asked \in Seq(Ops), NEW kind \in Kinds, NEW s \in Nat, NEW at, Asks(kind, s, at)
  PROVE  asked' \in Seq(Ops) /\ Len(asked') = Len(asked) + 1 /\ pc' = at
BY DEF Asks, Ops

(* Answering an operation makes it shorter by that one.                    *)
LEMMA WithoutOne ==
  ASSUME asked \in Seq(Ops), NEW i \in 1 .. Len(asked)
  PROVE  Without(i) \in Seq(Ops) /\ Len(Without(i)) = Len(asked) - 1
<1> DEFINE before == SubSeq(asked, 1, i - 1)
           after == SubSeq(asked, i + 1, Len(asked))
<1>1. Len(asked) \in Nat
  OBVIOUS
<1>2. before \in Seq(Ops) /\ Len(before) = i - 1
  BY <1>1
<1>3. after \in Seq(Ops) /\ Len(after) = Len(asked) - i
  BY <1>1
<1>4. Without(i) = before \o after
  BY DEF Without
<1> HIDE DEF before, after
<1>5. before \o after \in Seq(Ops) /\ Len(before \o after) = Len(before) + Len(after)
  BY <1>2, <1>3
<1> QED BY <1>1, <1>2, <1>3, <1>4, <1>5

LEMMA AheadInit == Init => AheadInv
<1> SUFFICES ASSUME Init PROVE AheadInv
  OBVIOUS
<1>1. NumServices \in [Programs -> Nat]
  BY ProgramsAssumption
<1> QED BY <1>1 DEF Init, AheadInv, Types, Ahead, Waiting

(***************************************************************************)
(* A step of main: each operation it asks for is one it goes on to wait    *)
(* for, each Wait takes a post, and a failed bufferAllocate is stray.      *)
(***************************************************************************)
LEMMA MainAhead == AheadInv /\ Main => AheadInv'
<1> SUFFICES ASSUME AheadInv, Main PROVE AheadInv'
  OBVIOUS
<1> USE DEF AheadInv, Types, Ahead, Waiting
<1>0. prog' = prog /\ Len(asked) \in Nat
  BY DEF Main
<1>1. CASE Start
  <2>1. CASE Asks("start", 0, "starting")
    BY <1>0, <1>1, <2>1, AsksOne DEF Start, Kinds, semVars
  <2>2. CASE pc' = "constructed" /\ asked' = asked
    BY <1>0, <1>1, <2>2 DEF Start, semVars
  <2> QED BY <1>1, <2>1, <2>2 DEF Start
<1>2. CASE Started
  BY <1>0, <1>2 DEF Started, Wait
<1>3. CASE Constructed
  <2>1. CASE Asks("alloc", 1, "allocating")
    BY <1>0, <1>3, <2>1, AsksOne DEF Constructed, Kinds, semVars
  <2>2. CASE pc' = "over" /\ asked' = asked
    BY <1>0, <1>3, <2>2 DEF Constructed, semVars
  <2> QED BY <1>3, <2>1, <2>2 DEF Constructed
<1>4. CASE Allocated
  <2>1. CASE Asks("stop", 0, "stopping") /\ n' = n
    BY <1>0, <1>4, <2>1, AsksOne DEF Allocated, Wait, Kinds
  <2>2. CASE n' = n + 1 /\ Asks("alloc", n + 1, "allocating")
    BY <1>0, <1>4, <2>2, AsksOne DEF Allocated, Wait, Kinds
  <2>3. CASE n' = 1 /\ pc' = "buffers" /\ asked' = asked
    BY <1>0, <1>4, <2>3 DEF Allocated, Wait
  <2> QED BY <1>4, <2>1, <2>2, <2>3 DEF Allocated
<1>5. CASE Buffer
  <2>1. pc = "buffers" /\ asked' = asked
    BY <1>5 DEF Buffer
  <2>2. CASE pc' = pc /\ n' = n + 1 /\ UNCHANGED semVars
    BY <1>0, <2>1, <2>2 DEF semVars
  <2>3. CASE pc' = "releasing" /\ n' = NumServices[prog] /\ UNCHANGED semVars
    BY <1>0, <2>1, <2>3 DEF semVars
  <2>4. CASE pc' = "releasing" /\ n' = NumServices[prog] /\ Post(TRUE)
    BY <1>0, <2>1, <2>4 DEF Post
  <2> QED BY <1>5, <2>2, <2>3, <2>4 DEF Buffer
<1>6. CASE Test
  BY <1>0, <1>6 DEF Test, semVars
<1>7. CASE Release
  BY <1>0, <1>7, AsksOne DEF Release, semVars, Kinds
<1>8. CASE Released
  <2>1. CASE n > 1 /\ n' = n - 1 /\ pc' = "releasing" /\ asked' = asked
    BY <1>0, <1>8, <2>1 DEF Released, Wait
  <2>2. CASE Asks("stop", 0, "stopping") /\ n' = n
    BY <1>0, <1>8, <2>2, AsksOne DEF Released, Wait, Kinds
  <2> QED BY <1>8, <2>1, <2>2 DEF Released
<1>9. CASE Stopped
  BY <1>0, <1>9 DEF Stopped, Wait
<1>10. CASE Crash
  BY <1>0, <1>10 DEF Crash, NullPointer, semVars
<1> QED BY <1>1, <1>2, <1>3, <1>4, <1>5, <1>6, <1>7, <1>8, <1>9, <1>10 DEF Main

(***************************************************************************)
(* A callback answers one operation and posts the semaphore at most once.  *)
(***************************************************************************)
LEMMA CallbackAhead == AheadInv /\ Callback => AheadInv'
<1> SUFFICES ASSUME AheadInv, Callback PROVE AheadInv'
  OBVIOUS
<1> USE DEF AheadInv, Types, Ahead
<1>1. PICK i \in 1 .. Len(asked) :
        /\ asked' = Without(i)
        /\ \/ serviceAllocated(asked[i]) \/ serviceAllocateFailed(asked[i])
           \/ Posts(asked[i]) \/ Prints(asked[i])
  BY DEF Callback
<1>2. asked' \in Seq(Ops) /\ Len(asked') = Len(asked) - 1 /\ Len(asked) \in Nat
  <2>1. asked \in Seq(Ops) /\ i \in 1 .. Len(asked) /\ asked' = Without(i)
    BY <1>1
  <2>2. Without(i) \in Seq(Ops) /\ Len(Without(i)) = Len(asked) - 1
    BY <2>1, WithoutOne
  <2>3. Len(asked) \in Nat
    BY <2>1
  <2> QED BY <2>1, <2>2, <2>3
<1>3. prog' = prog /\ pc' = pc /\ n' = n
  BY DEF Callback
<1>4. Post(FALSE) \/ UNCHANGED semVars
  BY <1>1 DEF serviceAllocated, serviceAllocateFailed, Posts, Prints
<1>5. CASE Post(FALSE)
  BY <1>2, <1>3, <1>5 DEF Post
<1>6. CASE UNCHANGED semVars
  BY <1>2, <1>3, <1>6 DEF semVars
<1> QED BY <1>4, <1>5, <1>6

LEMMA AheadStep == AheadInv /\ [Next]_vars => AheadInv'
<1> SUFFICES ASSUME AheadInv, [Next]_vars PROVE AheadInv'
  OBVIOUS
<1> USE DEF AheadInv, Types, Ahead, Waiting
<1>1. CASE Main
  BY <1>1, MainAhead
<1>2. CASE Callback
  BY <1>2, CallbackAhead
<1>3. CASE serviceReleaseRequest
  <2>1. asked' \in Seq(Ops) /\ Len(asked') = Len(asked) + 1 /\ pc' = pc
    BY <1>3, AsksOne DEF serviceReleaseRequest, Kinds
  <2>2. prog' = prog /\ n' = n /\ m_Sem' = m_Sem /\ stray' = stray + 1
    BY <1>3 DEF serviceReleaseRequest
  <2>3. Len(asked) \in Nat
    OBVIOUS
  <2> QED BY <2>1, <2>2, <2>3
<1>4. CASE Again
  BY <1>4 DEF Again
<1>5. CASE UNCHANGED vars
  BY <1>5 DEF vars, mainVars, semVars
<1> QED BY <1>1, <1>2, <1>3, <1>4, <1>5 DEF Next

(***************************************************************************)
(* When main returns and destroys the semaphore the runtime owes it no     *)
(* callback, but for one for each stray post.                              *)
(***************************************************************************)
THEOREM NoCallbackOwedInvariant == Spec => []NoCallbackOwed
<1>1. AheadInv => NoCallbackOwed
  <2> SUFFICES ASSUME AheadInv, pc = "over" PROVE Len(asked) <= stray
    BY DEF NoCallbackOwed
  <2>1. Len(asked) \in Nat
    BY DEF AheadInv, Types
  <2> QED BY <2>1 DEF AheadInv, Types, Ahead, Waiting
<1> QED BY AheadInit, AheadStep, <1>1, PTL DEF Spec

-----------------------------------------------------------------------------
(***************************************************************************)
(* What is not answered, and the invariant behind NoNullPointer: as long   *)
(* as no Wait can have returned for another operation, or there is but one *)
(* service to wait for, main knows at each place what it has been given.   *)
(***************************************************************************)
Pending == {asked[i] : i \in 1 .. Len(asked)}
NS == NumServices[prog]
Trusted == stray = 0 \/ NS = 1

(* Before run() there is nothing, and nobody to ask for anything back.     *)
Empty ==
  pc \in {"start", "starting", "constructed"} =>
    /\ services = {} /\ stray = 0 /\ n = 1
    /\ \A op \in Pending : op.kind = "start"

(* While service n is allocated: the ones before it are usable, and main   *)
(* is woken by its answer, or by one about service 1 if there is no other. *)
Expected(op) ==
  \/ op.kind = "alloc" /\ op.of = n
  \/ op.kind = "release" /\ stray > 0 /\ NS = 1 /\ 1 \in services

Allocating ==
  Trusted /\ pc = "allocating" =>
    /\ n \in 1 .. NS /\ 1 .. n - 1 \subseteq usable /\ services \subseteq 1 .. n
    /\ \A op \in Pending : Expected(op)
    /\ n \in services => n \in usable \/ m_bIsOK # TRUE
    /\ m_Sem = 1 => n \in services \/ m_bIsOK # TRUE

(* From there on all services are usable.                                  *)
Allotted ==
  Trusted /\ pc \in {"buffers", "releasing", "released"} =>
    /\ 1 .. NS \subseteq usable
    /\ pc # "buffers" => n \in 1 .. NS

GivenInv ==
  /\ usable \subseteq services /\ NS \in Nat \ {0}
  /\ Empty /\ Allocating /\ Allotted

(* Asking adds one operation to those not answered; answering adds none.   *)
LEMMA PendingAsks ==
  ASSUME asked \in Seq(Ops), NEW kind \in Kinds, NEW s \in Nat, NEW at, Asks(kind, s, at)
  PROVE  Pending' \subseteq Pending \cup {[kind |-> kind, of |-> s]}
<1> DEFINE op == [kind |-> kind, of |-> s]
<1>1. asked' = Append(asked, op) /\ op \in Ops /\ Len(asked) \in Nat
  BY DEF Asks, Ops
<1> HIDE DEF op
<1>2. ASSUME NEW i \in 1 .. Len(asked') PROVE asked'[i] \in Pending \cup {op}
  <2>1. Len(asked') = Len(asked) + 1
    BY <1>1
  <2>2. CASE i = Len(asked) + 1
    BY <1>1, <2>2
  <2>3. CASE i \in 1 .. Len(asked)
    <3>1. asked'[i] = asked[i]
      BY <1>1, <2>3
    <3> QED BY <2>3, <3>1 DEF Pending
  <2> QED BY <1>1, <1>2, <2>1, <2>2, <2>3
<1> QED BY <1>2 DEF Pending, op

LEMMA PendingAnswered ==
  ASSUME asked \in Seq(Ops), NEW i \in 1 .. Len(asked), asked' = Without(i)
  PROVE  Pending' \subseteq Pending /\ asked[i] \in Pending
<1> DEFINE before == SubSeq(asked, 1, i - 1)
           after == SubSeq(asked, i + 1, Len(asked))
<1>1. Len(asked) \in Nat
  OBVIOUS
<1>2. before \in Seq(Ops) /\ Len(before) = i - 1
      /\ \A j \in 1 .. i - 1 : before[j] = asked[j]
  BY <1>1
<1>3. after \in Seq(Ops) /\ Len(after) = Len(asked) - i
      /\ \A j \in 1 .. Len(asked) - i : after[j] = asked[i + j]
  BY <1>1
<1>4. asked' = before \o after
  BY DEF Without
<1> HIDE DEF before, after
<1>5. Len(asked') = Len(asked) - 1
  BY <1>1, <1>2, <1>3, <1>4
<1>6. ASSUME NEW j \in 1 .. Len(asked) - 1
      PROVE  \E k \in 1 .. Len(asked) : (before \o after)[j] = asked[k]
  <2>1. CASE j \in 1 .. i - 1
    <3>1. (before \o after)[j] = before[j]
      BY <1>1, <1>2, <1>3, <2>1
    <3> QED BY <1>1, <1>2, <2>1, <3>1
  <2>2. CASE j \in i .. Len(asked) - 1
    <3>1. (before \o after)[j] = after[j - (i - 1)]
      BY <1>1, <1>2, <1>3, <2>2
    <3>2. j - (i - 1) \in 1 .. Len(asked) - i /\ i + (j - (i - 1)) = j + 1
      BY <1>1, <2>2
    <3>3. after[j - (i - 1)] = asked[j + 1]
      BY <1>3, <3>2
    <3> QED BY <1>1, <2>2, <3>1, <3>3
  <2>3. j \in 1 .. i - 1 \/ j \in i .. Len(asked) - 1
    BY <1>1
  <2> QED BY <2>1, <2>2, <2>3
<1>7. Pending' \subseteq Pending
  BY <1>4, <1>5, <1>6 DEF Pending
<1> QED BY <1>7 DEF Pending

LEMMA GivenInit == Init => GivenInv
<1> SUFFICES ASSUME Init PROVE GivenInv
  OBVIOUS
<1>1. NS \in Nat \ {0}
  BY ProgramsAssumption DEF Init, NS
<1>2. Pending = {}
  BY DEF Init, Pending
<1> QED BY <1>1, <1>2 DEF Init, GivenInv, Empty, Allocating, Allotted

(* With nothing astray main waits for the only operation there is.         *)
LEMMA NothingElse ==
  ASSUME AheadInv, stray = 0, pc \in Waiting => m_Sem = 1
  PROVE  asked = <<>> /\ Pending = {} /\ (pc \notin Waiting => m_Sem = 0)
<1>1. Len(asked) = 0 /\ (pc \notin Waiting => m_Sem = 0)
  <2>1. Len(asked) \in Nat
    BY DEF AheadInv, Types
  <2> QED BY <2>1 DEF AheadInv, Types, Ahead
<1>2. asked = <<>>
  BY <1>1 DEF AheadInv, Types
<1> QED BY <1>1, <1>2 DEF Pending

(***************************************************************************)
(* A step of main.                                                         *)
(***************************************************************************)
LEMMA MainGiven == AheadInv /\ GivenInv /\ Main => GivenInv'
<1> SUFFICES ASSUME AheadInv, GivenInv, Main PROVE GivenInv'
  OBVIOUS
<1>0. /\ services' = services /\ usable' = usable /\ prog' = prog /\ NS' = NS
      /\ usable \subseteq services /\ NS \in Nat \ {0}
      /\ Empty /\ Allocating /\ Allotted
      /\ asked \in Seq(Ops) /\ m_Sem \in {0, 1} /\ stray \in Nat /\ n \in Nat
  BY DEF Main, serviceVars, NS, GivenInv, AheadInv, Types
<1>00. asked' = asked => Pending' = Pending
  BY DEF Pending
<1> SUFFICES Empty' /\ Allocating' /\ Allotted'
  BY <1>0 DEF GivenInv
<1>01. ASSUME pc \in {"buffers", "releasing", "released"},
              pc' \in {"buffers", "releasing", "released"}, Trusted' => Trusted,
              Trusted' /\ pc' # "buffers" => n' \in 1 .. NS
       PROVE  Empty' /\ Allocating' /\ Allotted'
  <2>1. Empty' /\ Allocating'
    BY <1>01 DEF Empty, Allocating
  <2>2. Trusted' => 1 .. NS' \subseteq usable'
    BY <1>0, <1>01 DEF Allotted
  <2> QED BY <1>0, <1>01, <2>1, <2>2 DEF Allotted
<1>1. CASE Start
  <2>1. pc = "start" /\ n' = n /\ stray' = stray
    BY <1>1 DEF Start, semVars
  <2>2. pc' \in {"starting", "constructed"}
    BY <1>1 DEF Start, Asks
  <2>3. \A op \in Pending' : op.kind = "start"
    <3>1. CASE Asks("start", 0, "starting")
      <4>1. Pending' \subseteq Pending \cup {[kind |-> "start", of |-> 0]}
        BY <1>0, <3>1, PendingAsks DEF Kinds
      <4> QED BY <1>0, <2>1, <4>1 DEF Empty
    <3>2. CASE asked' = asked
      BY <1>0, <1>00, <2>1, <3>2 DEF Empty
    <3> QED BY <1>1, <3>1, <3>2 DEF Start
  <2> QED BY <1>0, <2>1, <2>2, <2>3 DEF Empty, Allocating, Allotted
<1>2. CASE Started
  <2>1. pc = "starting" /\ pc' = "constructed" /\ n' = n /\ stray' = stray /\ asked' = asked
    BY <1>2 DEF Started, Wait
  <2> QED BY <1>0, <1>00, <2>1 DEF Empty, Allocating, Allotted
<1>3. CASE Constructed
  <2>1. pc = "constructed" /\ n' = n /\ stray' = stray /\ m_Sem' = m_Sem
    BY <1>3 DEF Constructed, semVars
  <2>2. services = {} /\ stray = 0 /\ n = 1
    BY <1>0, <2>1 DEF Empty
  <2>3. Pending = {} /\ m_Sem = 0
    BY <2>1, <2>2, NothingElse DEF Waiting
  <2>4. CASE Asks("alloc", 1, "allocating")
    <3>1. Pending' \subseteq Pending \cup {[kind |-> "alloc", of |-> 1]}
      BY <1>0, <2>4, PendingAsks DEF Kinds
    <3>2. pc' = "allocating"
      BY <2>4 DEF Asks
    <3>3. \A op \in Pending' : Expected(op)'
      BY <2>1, <2>2, <2>3, <3>1 DEF Expected
    <3>4. n' \in 1 .. NS' /\ 1 .. n' - 1 = {}
      BY <1>0, <2>1, <2>2
    <3> QED BY <1>0, <2>1, <2>2, <2>3, <3>2, <3>3, <3>4 DEF Empty, Allocating, Allotted
  <2>5. CASE pc' = "over"
    BY <2>5 DEF Empty, Allocating, Allotted
  <2> QED BY <1>3, <2>4, <2>5 DEF Constructed
<1>4. CASE Allocated
  <2>1. pc = "allocating" /\ m_Sem = 1 /\ m_Sem' = 0 /\ stray' = stray /\ m_bIsOK' = m_bIsOK
    BY <1>4 DEF Allocated, Wait, resultVars
  <2>2. Trusted' <=> Trusted
    BY <1>0, <2>1 DEF Trusted
  <2>3. CASE Asks("stop", 0, "stopping")
    BY <2>3 DEF Asks, Empty, Allocating, Allotted
  <2>4. CASE m_bIsOK /\ n < NumServices[prog] /\ n' = n + 1 /\ Asks("alloc", n + 1, "allocating")
    <3>1. pc' = "allocating"
      BY <2>4 DEF Asks
    <3> SUFFICES ASSUME Trusted PROVE Allocating'
      BY <2>2, <3>1 DEF Empty, Allocating, Allotted
    <3>2. n \in 1 .. NS /\ n # NS /\ n' \in 1 .. NS /\ NS # 1 /\ stray = 0
      BY <1>0, <2>1, <2>4 DEF Allocating, Trusted, NS
    <3>3. Pending = {}
      BY <2>1, <3>2, NothingElse
    <3>4. Pending' \subseteq Pending \cup {[kind |-> "alloc", of |-> n + 1]}
      BY <1>0, <2>4, <3>2, PendingAsks DEF Kinds
    <3>5. \A op \in Pending' : Expected(op)'
      BY <2>4, <3>3, <3>4 DEF Expected
    <3>6. n \in usable
      BY <1>0, <2>1, <2>4 DEF Allocating
    <3>7. 1 .. n' - 1 \subseteq usable
      BY <1>0, <2>1, <2>4, <3>2, <3>6 DEF Allocating
    <3>8. services \subseteq 1 .. n' /\ n' \notin services
      BY <1>0, <2>1, <2>4, <3>2 DEF Allocating
    <3>9. n' \in 1 .. NS' /\ m_Sem' # 1
      BY <1>0, <2>1, <3>2
    <3>10. 1 .. n' - 1 \subseteq usable' /\ services' \subseteq 1 .. n' /\ n' \notin services'
      BY <1>0, <3>7, <3>8, Zenon
    <3> QED BY <3>5, <3>9, <3>10 DEF Allocating
  <2>5. CASE m_bIsOK /\ n = NumServices[prog] /\ n' = 1 /\ pc' = "buffers"
    <3>1. Trusted => 1 .. NS \subseteq usable
      <4> SUFFICES ASSUME Trusted PROVE 1 .. NS \subseteq usable
        OBVIOUS
      <4>1. n \in usable /\ n = NS /\ 1 .. n - 1 \subseteq usable
        BY <1>0, <2>1, <2>5 DEF Allocating, NS
      <4> QED BY <1>0, <4>1
    <3> QED BY <1>0, <2>2, <2>5, <3>1 DEF Empty, Allocating, Allotted
  <2> QED BY <1>4, <2>3, <2>4, <2>5 DEF Allocated
<1>5. CASE Buffer
  <2>1. pc = "buffers" /\ stray' \in {stray, stray + 1}
    BY <1>5 DEF Buffer, Post, semVars
  <2>2. (pc' = "buffers" /\ n' = n + 1) \/ (pc' = "releasing" /\ n' = NS)
    BY <1>5 DEF Buffer, NS
  <2>3. Trusted' => Trusted
    BY <1>0, <2>1 DEF Trusted
  <2>4. NS \in 1 .. NS
    BY <1>0
  <2> QED BY <1>01, <2>1, <2>2, <2>3, <2>4
<1>6. CASE Test
  <2>1. pc = "buffers" /\ pc' = "releasing" /\ n' = NS /\ stray' = stray
    BY <1>6 DEF Test, semVars, NS
  <2> QED BY <1>0, <2>1 DEF Empty, Allocating, Allotted, Trusted
<1>7. CASE Release
  <2>1. pc = "releasing" /\ pc' = "released" /\ n' = n /\ stray' = stray
    BY <1>7 DEF Release, semVars, Asks
  <2> QED BY <1>0, <2>1 DEF Empty, Allocating, Allotted, Trusted
<1>8. CASE Released
  <2>1. pc = "released" /\ stray' = stray
    BY <1>8 DEF Released, Wait
  <2>2. (n > 1 /\ n' = n - 1 /\ pc' = "releasing") \/ pc' = "stopping"
    BY <1>8 DEF Released, Asks
  <2>3. CASE pc' = "stopping"
    BY <2>3 DEF Empty, Allocating, Allotted
  <2>4. CASE n > 1 /\ n' = n - 1 /\ pc' = "releasing"
    <3>1. Trusted' => Trusted
      BY <1>0, <2>1 DEF Trusted
    <3>2. Trusted => n \in 1 .. NS
      BY <1>0, <2>1 DEF Allotted
    <3>3. Trusted => n' \in 1 .. NS
      BY <1>0, <2>4, <3>2
    <3> QED BY <1>01, <2>1, <2>4, <3>1, <3>3
  <2> QED BY <2>2, <2>3, <2>4
<1>9. CASE Stopped \/ Crash
  BY <1>9 DEF Stopped, Crash, Empty, Allocating, Allotted
<1> QED BY <1>1, <1>2, <1>3, <1>4, <1>5, <1>6, <1>7, <1>8, <1>9 DEF Main

(***************************************************************************)
(* A callback: while service n is allocated only the answer about it, or,  *)
(* if it is the only one, about its release, can wake main.                *)
(***************************************************************************)
LEMMA CallbackGiven == AheadInv /\ GivenInv /\ Callback => GivenInv'
<1> SUFFICES ASSUME AheadInv, GivenInv, Callback PROVE GivenInv'
  OBVIOUS
<1>1. PICK i \in 1 .. Len(asked) :
        /\ asked' = Without(i)
        /\ \/ serviceAllocated(asked[i]) \/ serviceAllocateFailed(asked[i])
           \/ Posts(asked[i]) \/ Prints(asked[i])
  BY DEF Callback
<1> DEFINE op == asked[i]
<1>2. Pending' \subseteq Pending /\ op \in Pending
  <2>1. asked \in Seq(Ops) /\ i \in 1 .. Len(asked) /\ asked' = Without(i)
    BY <1>1 DEF AheadInv, Types
  <2> QED BY <2>1, PendingAnswered
<1>3. /\ prog' = prog /\ pc' = pc /\ n' = n /\ NS' = NS
      /\ usable \subseteq services /\ NS \in Nat \ {0} /\ stray \in Nat
      /\ Empty /\ Allocating /\ Allotted
  BY DEF Callback, NS, GivenInv, AheadInv, Types
<1> HIDE DEF op
<1>4. stray' = stray /\ (Trusted' <=> Trusted)
  BY <1>1, <1>3 DEF serviceAllocated, serviceAllocateFailed, Posts, Prints, Post, semVars, Trusted
<1>5. /\ services \subseteq services' /\ usable \subseteq usable' /\ usable' \subseteq services'
      /\ op.kind # "alloc" => services' = services
      /\ services' \subseteq services \cup {op.of}
  BY <1>1, <1>3 DEF serviceAllocated, serviceAllocateFailed, Posts, Prints, serviceVars,
       Answers, runtimeStarted, runtimeStopped, serviceReleased, serviceReleaseFailed, runtimeStopFailed, op
<1>6. Empty'
  BY <1>2, <1>3, <1>4, <1>5 DEF Empty
<1>7. Allotted'
  BY <1>3, <1>4, <1>5 DEF Allotted
<1>8. Allocating'
  <2> SUFFICES ASSUME Trusted, pc = "allocating" PROVE Allocating'
    BY <1>3, <1>4 DEF Allocating
  <2>1. /\ n \in 1 .. NS /\ 1 .. n - 1 \subseteq usable /\ services \subseteq 1 .. n
        /\ \A o \in Pending : Expected(o)
        /\ n \in services => n \in usable \/ m_bIsOK # TRUE
        /\ m_Sem = 1 => n \in services \/ m_bIsOK # TRUE
    BY <1>3 DEF Allocating
  <2>2. Expected(op)
    BY <1>2, <2>1
  <2>3. \A o \in Pending' : Expected(o)'
    BY <1>2, <1>3, <1>4, <1>5, <2>1 DEF Expected
  <2>4. services' \subseteq 1 .. n /\ 1 .. n - 1 \subseteq usable'
    BY <1>5, <2>1, <2>2 DEF Expected
  <2>5. /\ n \in services' => n \in usable' \/ m_bIsOK' # TRUE
        /\ m_Sem' = 1 => n \in services' \/ m_bIsOK' # TRUE
    <3>1. CASE serviceAllocated(op)
      BY <2>1, <2>2, <3>1 DEF serviceAllocated, Expected, Post, semVars
    <3>2. CASE serviceAllocateFailed(op)
      BY <3>2 DEF serviceAllocateFailed
    <3>3. CASE Posts(op)
      <4>1. op.kind = "release" /\ n = 1 /\ 1 \in services
        BY <1>3, <2>1, <2>2, <3>3 DEF Posts, Answers, runtimeStarted, runtimeStopped,
             serviceReleased, serviceReleaseFailed, runtimeStopFailed, Expected
      <4>2. m_bIsOK' = m_bIsOK \/ m_bIsOK' = FALSE
        BY <3>3, <4>1 DEF Posts, Answers, runtimeStarted, runtimeStopped, serviceReleased,
             serviceReleaseFailed, runtimeStopFailed
      <4> QED BY <2>1, <3>3, <4>1, <4>2 DEF Posts, serviceVars
    <3>4. CASE Prints(op)
      BY <2>1, <3>4 DEF Prints, semVars, resultVars, serviceVars
    <3> QED BY <1>1, <3>1, <3>2, <3>3, <3>4 DEF op
  <2> QED BY <1>3, <2>1, <2>3, <2>4, <2>5 DEF Allocating
<1> QED BY <1>3, <1>5, <1>6, <1>7, <1>8 DEF GivenInv

LEMMA GivenStep == AheadInv /\ GivenInv /\ [Next]_vars => GivenInv'
<1> SUFFICES ASSUME AheadInv, GivenInv, [Next]_vars PROVE GivenInv'
  OBVIOUS
<1>1. CASE Main
  BY <1>1, MainGiven
<1>2. CASE Callback
  BY <1>2, CallbackGiven
<1>3. CASE serviceReleaseRequest
  <2>1. /\ prog' = prog /\ pc' = pc /\ n' = n /\ NS' = NS /\ m_Sem' = m_Sem
        /\ m_bIsOK' = m_bIsOK /\ services' = services /\ usable' = usable
        /\ stray' = stray + 1 /\ 1 \in services
    BY <1>3 DEF serviceReleaseRequest, Asks, resultVars, serviceVars, NS
  <2>2. Pending' \subseteq Pending \cup {[kind |-> "release", of |-> 1]}
    BY <1>3, PendingAsks DEF serviceReleaseRequest, AheadInv, Types, Kinds
  <2>3. usable \subseteq services /\ NS \in Nat \ {0} /\ stray \in Nat
        /\ Empty /\ Allocating /\ Allotted
    BY DEF GivenInv, AheadInv, Types
  <2>4. Trusted' => Trusted /\ NS = 1
    BY <2>1, <2>3 DEF Trusted
  <2>5. Allocating'
    <3> SUFFICES ASSUME Trusted', pc = "allocating" PROVE Allocating'
      BY <2>1 DEF Allocating
    <3>1. \A op \in Pending : Expected(op)
      BY <2>3, <2>4 DEF Allocating
    <3>2. \A op \in Pending' : Expected(op)'
      BY <2>1, <2>2, <2>3, <2>4, <3>1 DEF Expected
    <3> QED BY <2>1, <2>3, <2>4, <3>2 DEF Allocating
  <2>6. Empty' /\ Allotted'
    BY <2>1, <2>3, <2>4 DEF Empty, Allotted
  <2> QED BY <2>1, <2>3, <2>5, <2>6 DEF GivenInv
<1>4. CASE Again
  <2>1. NS' \in Nat \ {0}
    BY <1>4, ProgramsAssumption DEF Again, NS
  <2>2. Pending' = {}
    BY <1>4 DEF Again, Pending
  <2> QED BY <1>4, <2>1, <2>2 DEF Again, GivenInv, Empty, Allocating, Allotted
<1>5. CASE UNCHANGED vars
  BY <1>5 DEF vars, mainVars, semVars, resultVars, serviceVars, GivenInv, Empty, Allocating,
       Allotted, Trusted, NS, Pending, Expected
<1> QED BY <1>1, <1>2, <1>3, <1>4, <1>5 DEF Next

(***************************************************************************)
(* No service is used through a pointer that has not been set, unless a    *)
(* Wait has returned for another operation and there are several services. *)
(***************************************************************************)
THEOREM NoNullPointerInvariant == Spec => []NoNullPointer
<1>1. AheadInv /\ GivenInv => NoNullPointer
  <2> SUFFICES ASSUME AheadInv, GivenInv, Trusted PROVE ~NullPointer
    BY DEF NoNullPointer, GivenInv, AheadInv, Types, Trusted, NS
  <2>1. CASE pc = "buffers"
    BY <2>1 DEF GivenInv, Allotted, NullPointer, NS
  <2>2. CASE pc = "releasing"
    BY <2>2 DEF GivenInv, Allotted, NullPointer, NS
  <2> QED BY <2>1, <2>2 DEF NullPointer
<1> QED BY AheadInit, AheadStep, GivenInit, GivenStep, <1>1, PTL DEF Spec

-----------------------------------------------------------------------------
(***************************************************************************)
(* The invariant behind FailureTold: with nothing astray main is answered  *)
(* about what it waits for, so that a failure is counted before it goes    *)
(* on, and what is counted is never taken back; after a callback that has  *)
(* only printed main does not go on at all.                                *)
(***************************************************************************)
Hidden == failed \subseteq Untold

(* Before the buffers nothing but the start and an allocation can have     *)
(* failed, and main goes on to the buffers only if none has.               *)
Counted ==
  /\ m_Result \in Int
  /\ pc \in {"start", "starting", "buffers"} => failed = {} /\ m_Result = 0
  /\ pc = "constructed" => m_Result = 0 /\ (failed # {} => m_bIsOK # TRUE)
  /\ pc = "allocating" =>
       /\ m_Result >= 0 /\ failed \subseteq {"alloc"}
       /\ failed = {} => m_Result = 0
       /\ failed # {} => m_Result >= 1 /\ m_bIsOK # TRUE
  /\ m_Result = 0 /\ pc # "constructed" => Hidden

(* What main waits for at the end.                                         *)
Ending ==
  /\ pc = "released" => \A op \in Pending : op.kind = "release"
  /\ pc = "stopping" => \A op \in Pending : op.kind = "stop"

(* Main waits for a post nobody will make.                                 *)
Stuck == pc \in Waiting /\ m_Sem = 0 /\ asked = <<>>

ToldInv ==
  stray = 0 => /\ silent => Stuck
               /\ ~silent => Counted /\ Ending

LEMMA ToldInit == Init => ToldInv
<1> SUFFICES ASSUME Init PROVE ToldInv
  OBVIOUS
<1> QED BY DEF Init, ToldInv, Counted, Ending, Hidden, Untold

(* Where main leaves with something to wait for there was nothing else.    *)
LEMMA AsksAlone ==
  ASSUME AheadInv, stray = 0, pc \in Waiting => m_Sem = 1,
         NEW kind \in Kinds, NEW s \in Nat, NEW at, Asks(kind, s, at)
  PROVE  \A op \in Pending' : op.kind = kind
<1>1. Pending = {}
  BY NothingElse
<1>2. Pending' \subseteq Pending \cup {[kind |-> kind, of |-> s]}
  BY PendingAsks DEF AheadInv, Types
<1> QED BY <1>1, <1>2

LEMMA MainTold == AheadInv /\ GivenInv /\ ToldInv /\ Main => ToldInv'
<1> SUFFICES ASSUME AheadInv, GivenInv, ToldInv, Main, stray' = 0 PROVE ToldInv'
  BY DEF ToldInv
<1>0. stray = 0 /\ prog' = prog /\ silent' = silent /\ n \in Nat
  <2>1. stray \in Nat /\ n \in Nat
    BY DEF AheadInv, Types
  <2>2. stray' \in {stray, stray + 1}
    BY DEF Main, Start, Started, Constructed, Allocated, Buffer, Test, Release, Released, Stopped,
         Crash, Wait, Post, semVars
  <2> QED BY <2>1, <2>2 DEF Main
<1>1. ~silent /\ Counted /\ Ending
  <2>1. pc \in Waiting => m_Sem = 1
    BY DEF Main, Start, Started, Constructed, Allocated, Buffer, Test, Release, Released, Stopped,
         Crash, NullPointer, Wait, Waiting
  <2>2. ~silent
    BY <1>0, <2>1 DEF ToldInv, Stuck
  <2> QED BY <1>0, <2>2 DEF ToldInv
<1>11. Untold' = Untold
  BY <1>0 DEF Untold
<1> SUFFICES Counted' /\ Ending'
  BY <1>0, <1>1 DEF ToldInv
<1>2. CASE Start
  <2>1. pc = "start" /\ m_Result' = m_Result /\ failed = {} /\ m_Result = 0
    BY <1>1, <1>2 DEF Start, Counted
  <2>2. \/ pc' = "starting" /\ failed' = failed
        \/ pc' = "constructed" /\ m_bIsOK' # TRUE
    BY <1>2 DEF Start, Asks
  <2>3. CASE pc' = "starting" /\ failed' = failed
    BY <2>1, <2>3 DEF Counted, Ending, Hidden
  <2>4. CASE pc' = "constructed" /\ m_bIsOK' # TRUE
    <3>1. m_Result' = 0
      BY <2>1
    <3>2. Ending'
      BY <2>4 DEF Ending
    <3>3. pc' = "constructed" => m_Result' = 0 /\ (failed' # {} => m_bIsOK' # TRUE)
      BY <2>4, <3>1
    <3>4. m_Result' \in Int
      BY <3>1
    <3>5. pc' \notin {"start", "starting", "buffers", "allocating"}
      BY <2>4
    <3>6. Counted'
      BY <2>4, <3>3, <3>4, <3>5 DEF Counted
    <3> QED BY <3>2, <3>6
  <2> QED BY <2>2, <2>3, <2>4
<1>20. CASE Started
  <2>1. pc = "starting" /\ pc' = "constructed" /\ m_Result' = 0 /\ failed' = {}
    BY <1>1, <1>20 DEF Started, Wait, Counted
  <2> QED BY <2>1 DEF Counted, Ending
<1>3. CASE Constructed
  <2>1. pc = "constructed" /\ failed' = failed /\ m_Result = 0 /\ (failed # {} => m_bIsOK # TRUE)
    BY <1>1, <1>3 DEF Constructed, Counted
  <2>2. \/ pc' = "allocating" /\ m_Result' = 0 /\ failed = {}
        \/ pc' = "over" /\ m_Result' = 1
    BY <1>3, <2>1 DEF Constructed, Asks
  <2>3. CASE pc' = "allocating" /\ m_Result' = 0 /\ failed = {}
    BY <2>1, <2>3 DEF Counted, Ending, Hidden
  <2>4. CASE pc' = "over" /\ m_Result' = 1
    BY <2>4 DEF Counted, Ending
  <2> QED BY <2>2, <2>3, <2>4
<1>4. CASE Allocated
  <2>1. /\ pc = "allocating" /\ m_Sem = 1 /\ failed' = failed /\ m_Result' = m_Result
        /\ m_bIsOK' = m_bIsOK
    BY <1>4 DEF Allocated, Wait, resultVars
  <2>2. CASE Asks("stop", 0, "stopping")
    <3>1. \A op \in Pending' : op.kind = "stop"
      BY <1>0, <2>1, <2>2, AsksAlone DEF Kinds
    <3>2. pc' = "stopping"
      BY <2>2 DEF Asks
    <3> QED BY <1>0, <1>1, <1>11, <2>1, <3>1, <3>2 DEF Counted, Ending, Hidden
  <2>3. CASE m_bIsOK /\ pc' \in {"allocating", "buffers"}
    <3>1. failed = {}
      BY <1>1, <2>1, <2>3 DEF Counted
    <3>2. m_Result = 0
      BY <1>1, <2>1, <3>1 DEF Counted
    <3> QED BY <2>1, <2>3, <3>1, <3>2 DEF Counted, Ending, Hidden
  <2> QED BY <1>4, <2>2, <2>3 DEF Allocated, Asks
<1>5. CASE Buffer
  <2>1. pc = "buffers" /\ failed = {} /\ m_Result = 0
    BY <1>1, <1>5 DEF Buffer, Counted
  <2>2. CASE UNCHANGED <<pc, semVars, resultVars, failed>>
    BY <2>1, <2>2 DEF resultVars, Counted, Ending, Hidden
  <2>3. CASE m_Result' = -1 /\ pc' = "releasing"
    BY <2>3 DEF Counted, Ending
  <2> QED BY <1>5, <2>2, <2>3 DEF Buffer
<1>6. CASE Test
  <2>1. pc = "buffers" /\ failed = {} /\ m_Result = 0 /\ pc' = "releasing"
    BY <1>1, <1>6 DEF Test, Counted
  <2>2. CASE UNCHANGED <<m_Result, failed>>
    BY <2>1, <2>2 DEF Counted, Ending, Hidden
  <2>3. CASE /\ TestOf[prog] # "none" /\ failed' = failed \cup {"test"}
             /\ IF TestOf[prog] = "told" THEN \E k \in {1, 2} : m_Result' = m_Result + k
                                         ELSE UNCHANGED m_Result
    <3>1. TestOf[prog] \in {"printed", "told"}
      BY <2>3, ProgramsAssumption DEF AheadInv, Types, TestKinds
    <3>2. m_Result' = 0 => failed' \subseteq Untold
      BY <2>1, <2>3, <3>1 DEF Untold
    <3>3. m_Result' \in Int
      BY <2>1, <2>3
    <3> QED BY <1>11, <2>1, <3>2, <3>3 DEF Counted, Ending, Hidden
  <2> QED BY <1>6, <2>2, <2>3 DEF Test
<1>7. CASE Release
  <2>1. pc = "releasing" /\ pc' = "released" /\ failed' = failed /\ m_Result' = m_Result
    BY <1>7 DEF Release, resultVars, Asks
  <2>2. \A op \in Pending' : op.kind = "release"
    BY <1>0, <1>7, <2>1, AsksAlone DEF Release, Kinds, Waiting
  <2> QED BY <1>0, <1>1, <1>11, <2>1, <2>2 DEF Counted, Ending, Hidden
<1>8. CASE Released
  <2>1. pc = "released" /\ m_Sem = 1 /\ failed' = failed /\ m_Result' = m_Result
    BY <1>8 DEF Released, Wait, resultVars
  <2>2. CASE Asks("stop", 0, "stopping")
    <3>1. \A op \in Pending' : op.kind = "stop"
      BY <1>0, <2>1, <2>2, AsksAlone DEF Kinds
    <3> QED BY <1>0, <1>1, <1>11, <2>1, <2>2, <3>1 DEF Asks, Counted, Ending, Hidden
  <2>3. CASE pc' = "releasing"
    BY <1>0, <1>1, <1>11, <2>1, <2>3 DEF Counted, Ending, Hidden
  <2> QED BY <1>8, <2>2, <2>3 DEF Released
<1>9. CASE Stopped
  BY <1>0, <1>1, <1>11, <1>9 DEF Stopped, Wait, resultVars, Counted, Ending, Hidden
<1>10. CASE Crash
  BY <1>10 DEF Crash, Counted, Ending
<1> QED BY <1>2, <1>20, <1>3, <1>4, <1>5, <1>6, <1>7, <1>8, <1>9, <1>10 DEF Main

(***************************************************************************)
(* A callback: while an allocation is waited for, its failure is entered   *)
(* in m_Result and m_bIsOK is taken back, which nothing sets any more; at  *)
(* the end only failures without trace are told; one that prints leaves    *)
(* nothing to wait for.                                                    *)
(***************************************************************************)
LEMMA CallbackTold == AheadInv /\ GivenInv /\ ToldInv /\ Callback => ToldInv'
<1> SUFFICES ASSUME AheadInv, GivenInv, ToldInv, Callback, stray' = 0 PROVE ToldInv'
  BY DEF ToldInv
<1>1. PICK i \in 1 .. Len(asked) :
        /\ asked' = Without(i)
        /\ \/ serviceAllocated(asked[i]) \/ serviceAllocateFailed(asked[i])
           \/ Posts(asked[i]) \/ Prints(asked[i])
  BY DEF Callback
<1> DEFINE op == asked[i]
<1>2. /\ Pending' \subseteq Pending /\ op \in Pending /\ asked # <<>>
      /\ asked' \in Seq(Ops) /\ Len(asked') = Len(asked) - 1 /\ Len(asked) \in Nat
  <2>1. asked \in Seq(Ops) /\ i \in 1 .. Len(asked) /\ asked' = Without(i)
    BY <1>1 DEF AheadInv, Types
  <2>2. Len(asked) \in Nat /\ asked # <<>>
    BY <2>1
  <2> QED BY <2>1, <2>2, PendingAnswered, WithoutOne
<1>3. prog' = prog /\ pc' = pc /\ pc # "over" /\ stray = 0 /\ Untold' = Untold
  BY <1>1 DEF Callback, serviceAllocated, serviceAllocateFailed, Posts, Prints, Post, semVars,
       Untold
<1>4. ~silent /\ Counted /\ Ending
  BY <1>2, <1>3 DEF ToldInv, Stuck
<1> HIDE DEF op
<1>5. Ending'
  BY <1>2, <1>3, <1>4 DEF Ending
<1>6. pc \in Waiting
  BY <1>2, <1>3, NothingElse
<1>7. CASE silent'
  <2>1. UNCHANGED semVars
    BY <1>1, <1>4, <1>7 DEF serviceAllocated, serviceAllocateFailed, Posts, Prints
  <2>2. m_Sem \in {0, 1} /\ Len(asked) + m_Sem <= 1
    BY <1>3, <1>6 DEF AheadInv, Types, Ahead
  <2>3. Len(asked') \in Nat
    BY <1>2
  <2>4. m_Sem' = 0 /\ Len(asked') = 0
    BY <1>2, <2>1, <2>2, <2>3 DEF semVars
  <2>5. asked' = <<>>
    BY <1>2, <2>4
  <2> QED BY <1>3, <1>6, <1>7, <2>4, <2>5 DEF ToldInv, Stuck, Waiting
<1>8. CASE ~silent' /\ pc = "allocating"
  <2>1. op.kind = "alloc"
    BY <1>2, <1>3, <1>8 DEF GivenInv, Allocating, Trusted, Expected
  <2>2. CASE m_bIsOK' = m_bIsOK /\ UNCHANGED <<m_Result, failed>>
    BY <1>3, <1>4, <1>5, <1>8, <2>2 DEF ToldInv, Counted, Hidden
  <2>3. CASE failed' = failed \cup {"alloc"} /\ m_Result' = m_Result + 1 /\ m_bIsOK' = FALSE
    <3>1. m_Result \in Int /\ m_Result >= 0 /\ failed \subseteq {"alloc"}
      BY <1>4, <1>8 DEF Counted
    <3>2. m_Result' >= 1 /\ m_Result' \in Int /\ m_Result' # 0
      BY <2>3, <3>1
    <3>3. failed' = {"alloc"}
      BY <2>3, <3>1
    <3>4. m_bIsOK' # TRUE /\ pc' = "allocating"
      BY <1>3, <1>8, <2>3
    <3>5. m_Result' >= 0 /\ failed' # {} /\ failed' \subseteq {"alloc"}
      BY <3>2, <3>3
    <3>6. Counted'
      BY <3>2, <3>4, <3>5 DEF Counted
    <3> QED BY <1>5, <1>8, <3>6 DEF ToldInv
  <2> QED BY <1>1, <1>4, <1>8, <2>1, <2>2, <2>3 DEF serviceAllocated, serviceAllocateFailed, Posts,
             Prints, Answers, runtimeStarted, runtimeStopped, runtimeStopFailed, serviceReleased,
             serviceReleaseFailed, op
<1>9. CASE ~silent' /\ pc = "starting"
  <2>1. op.kind = "start"
    BY <1>2, <1>9 DEF GivenInv, Empty
  <2>2. UNCHANGED <<m_Result, failed>>
    BY <1>1, <1>9, <2>1 DEF serviceAllocated, serviceAllocateFailed, Posts, Prints, Answers,
         runtimeStarted, runtimeStopped, runtimeStopFailed, serviceReleased, serviceReleaseFailed, op
  <2> QED BY <1>3, <1>4, <1>5, <1>9, <2>2 DEF ToldInv, Counted, Hidden
<1>10. CASE ~silent' /\ pc \in {"released", "stopping"}
  <2>1. op.kind \in {"release", "stop"}
    BY <1>2, <1>4, <1>10 DEF Ending
  <2>2. m_Result' = m_Result /\ failed' \subseteq failed \cup {"release", "stop"}
    BY <1>1, <1>10, <2>1 DEF serviceAllocated, serviceAllocateFailed, Posts, Prints, Answers,
         runtimeStarted, runtimeStopped, runtimeStopFailed, serviceReleased, serviceReleaseFailed, op
  <2>3. Hidden => Hidden'
    BY <1>3, <2>2 DEF Hidden, Untold
  <2> QED BY <1>3, <1>4, <1>5, <1>10, <2>2, <2>3 DEF ToldInv, Counted
<1> QED BY <1>6, <1>7, <1>8, <1>9, <1>10 DEF Waiting

LEMMA ToldStep == AheadInv /\ GivenInv /\ ToldInv /\ [Next]_vars => ToldInv'
<1> SUFFICES ASSUME AheadInv, GivenInv, ToldInv, [Next]_vars PROVE ToldInv'
  OBVIOUS
<1>1. CASE Main
  BY <1>1, MainTold
<1>2. CASE Callback
  BY <1>2, CallbackTold
<1>3. CASE serviceReleaseRequest
  <2>1. stray' = stray + 1 /\ stray \in Nat
    BY <1>3 DEF serviceReleaseRequest, AheadInv, Types
  <2> QED BY <2>1 DEF ToldInv
<1>4. CASE Again
  BY <1>4 DEF Again, ToldInv, Counted, Ending, Hidden, Untold
<1>5. CASE UNCHANGED vars
  BY <1>5 DEF vars, mainVars, semVars, resultVars, ToldInv, Counted, Ending, Hidden,
       Untold, Stuck, Pending
<1> QED BY <1>1, <1>2, <1>3, <1>4, <1>5 DEF Next

(***************************************************************************)
(* A program that returns 0 has met no failure, unless a Wait has returned *)
(* for another operation, but for those no code enters in the result: of a *)
(* Release, of the stop, and a mismatch its test only prints.              *)
(***************************************************************************)
THEOREM FailureToldInvariant == Spec => []FailureTold
<1>1. ToldInv => FailureTold
  BY DEF ToldInv, FailureTold, Counted, Hidden, Stuck, Waiting
<1> QED BY AheadInit, AheadStep, GivenInit, GivenStep, ToldInit, ToldStep, <1>1, PTL DEF Spec
=============================================================================
