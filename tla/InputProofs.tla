---------------------------- MODULE InputProofs ----------------------------
(***************************************************************************)
(* What input.c promises the callers, for any set of keys, any repeat      *)
(* delays and any width of the tick counter that leaves room for them.     *)
(***************************************************************************)
EXTENDS Input, TLAPS

Scanning == {"scan", "clearScan"}

\* While input_update works on its copy, nothing is collected.
CopyIsCurrent ==
  pc \in Scanning => taken = [keys |-> keys, repressed |-> repressed, released |-> released]
Masking == irq <=> pc \notin Scanning \cup {"masked"}

\* As long as a key must not repeat, its entry in input_vbls_next is ahead.
NextIsAhead == \A k \in Keys : quiet[k] > 0 => Minus(next[k], ticks) = quiet[k] - 1

\* What has been seen since the last reset, against the keys themselves.
SeesTheKeys ==
  /\ ticked => down \subseteq keys /\ held \ down \subseteq released
  /\ released \cap down \subseteq owed
  /\ repressed \subseteq owed
  /\ again \subseteq keys /\ again \cap held \subseteq repressed

\* A key that is down but not held is new, or was lost sight of.
NotHeldIsNew == (keys \cup down) \ held \subseteq owed \cup blinded

\* After the first half of a wait every key had been up.
AllWereUp == pc \in {"cleared", "clearScan", "await"} => keys \cup down \subseteq since

HistoryOK ==
  /\ down \subseteq Keys /\ owed \subseteq Keys /\ blinded \subseteq Keys
  /\ again \subseteq Keys /\ since \subseteq Keys

InputInv ==
  /\ TypeOK /\ HistoryOK
  /\ CopyIsCurrent /\ Masking /\ NextIsAhead /\ SeesTheKeys /\ NotHeldIsNew /\ AllWereUp

-----------------------------------------------------------------------------
(* Every action keeps InputInv.                                            *)

LEMMA VblankKeepsInv == InputInv /\ Vblank => InputInv'
<1> SUFFICES ASSUME InputInv, Vblank PROVE InputInv'
  OBVIOUS
<1> USE DEF InputInv, HistoryOK
<1>1. PICK now \in SUBSET Keys :
        /\ keys' = keys \cup now
        /\ repressed' = repressed \cup (now \cap released)
        /\ released' = released \cup (held \ now)
        /\ down' = now
        /\ owed' = owed \cup (now \ down)
        /\ again' = IF ticked THEN again \cup (now \ down) ELSE again
        /\ since' = IF pc = "caller" THEN since ELSE since \cup (now \ down)
  BY DEF Vblank
<1>2. ticks' = Plus(ticks, 1) /\ irq /\ ticked'
      /\ quiet' = [k \in Keys |-> IF quiet[k] = 0 THEN 0 ELSE quiet[k] - 1]
      /\ UNCHANGED <<state, irq, pc, goal, blinded>>
  BY DEF Vblank
<1> USE <1>1, <1>2 DEF state
<1>3. ticks' \in 0..(Wrap - 1)
  BY InputAssumption DEF TypeOK, Plus
<1>4. quiet' \in [Keys -> 0..(RepeatDelay + 1)]
  BY InputAssumption DEF TypeOK
<1>5. TypeOK'
  BY <1>3, <1>4 DEF TypeOK
<1>6. HistoryOK'
  OBVIOUS
<1>7. CopyIsCurrent' /\ Masking'
  BY DEF CopyIsCurrent, Masking, Scanning
<1>8. NextIsAhead'
  <2> SUFFICES ASSUME NEW k \in Keys, quiet'[k] > 0 PROVE Minus(next[k], ticks') = quiet'[k] - 1
    BY DEF NextIsAhead
  <2>1. quiet[k] \in 0..(RepeatDelay + 1) /\ next[k] \in 0..(Wrap - 1) /\ ticks \in 0..(Wrap - 1)
    BY DEF TypeOK
  <2>2. quiet[k] > 1 /\ quiet'[k] = quiet[k] - 1
    BY <2>1, InputAssumption
  <2>3. Minus(next[k], ticks) = quiet[k] - 1
    BY <2>1, <2>2, InputAssumption DEF NextIsAhead
  <2>4. Minus(next[k], Plus(ticks, 1)) = Minus(next[k], ticks) - 1
    BY <2>1, <2>2, <2>3, InputAssumption DEF Plus, Minus
  <2> QED
    BY <2>1, <2>2, <2>3, <2>4
<1>9. SeesTheKeys'
  BY DEF SeesTheKeys, TypeOK
<1>10. NotHeldIsNew'
  BY DEF NotHeldIsNew
<1>11. AllWereUp'
  BY DEF AllWereUp
<1> QED
  BY <1>5, <1>6, <1>7, <1>8, <1>9, <1>10, <1>11

LEMMA BeginKeepsInv == InputInv /\ Begin => InputInv'
<1> SUFFICES ASSUME InputInv, Begin PROVE InputInv'
  OBVIOUS
<1> USE DEF InputInv, Begin, state, collected, history, HistoryOK
<1>1. TypeOK'
  BY DEF TypeOK
<1>2. CopyIsCurrent' /\ Masking'
  BY DEF CopyIsCurrent, Masking, Scanning
<1>3. NextIsAhead' /\ SeesTheKeys' /\ NotHeldIsNew'
  BY DEF NextIsAhead, SeesTheKeys, NotHeldIsNew
<1>4. AllWereUp'
  BY DEF AllWereUp
<1> QED
  BY <1>1, <1>2, <1>3, <1>4

LEMMA EndKeepsInv == InputInv /\ End => InputInv'
<1> SUFFICES ASSUME InputInv, End PROVE InputInv'
  OBVIOUS
<1> USE DEF InputInv, HistoryOK
<1>1. /\ pc \in Scanning
      /\ taken = [keys |-> keys, repressed |-> repressed, released |-> released]
  BY DEF End, Scanning, CopyIsCurrent
<1>2. /\ Reached \subseteq Keys /\ New \subseteq taken.keys /\ New \subseteq Keys
      /\ Repeat \subseteq (taken.keys \cap held) \ (taken.released \cup New)
  BY DEF Reached, Stop, New, Repeat
<1>3. /\ keys' = {} /\ repressed' = {} /\ released' = {}
      /\ irq' = TRUE /\ ticked' = FALSE /\ again' = {} /\ taken' = NoneTaken
      /\ UNCHANGED <<ticks, down>>
      /\ held' = (held \ {k \in Reached \ New : k \notin taken.keys \/ k \in taken.released})
                 \cup New
      /\ owed' = owed \ Pressed
      /\ blinded' = (blinded \cup ((held \cap down) \ taken.keys)) \ Pressed
      /\ since' = IF pc' = "caller" THEN {} ELSE since
  BY DEF End, Reset
<1>4. pc' \in {"caller", "await"} /\ goal' \subseteq Keys
      /\ (pc' = "await" => pc = "clearScan")
  BY DEF End, Return, TypeOK
<1>5. \A k \in Keys : /\ next'[k] \in 0..(Wrap - 1) /\ quiet'[k] \in 0..(RepeatDelay + 1)
                      /\ quiet'[k] > 0 => Minus(next'[k], ticks') = quiet'[k] - 1
  <2> SUFFICES ASSUME NEW k \in Keys
               PROVE  /\ next'[k] \in 0..(Wrap - 1) /\ quiet'[k] \in 0..(RepeatDelay + 1)
                      /\ quiet'[k] > 0 => Minus(next'[k], ticks) = quiet'[k] - 1
    BY <1>3
  <2>1. /\ ticks \in 0..(Wrap - 1) /\ next[k] \in 0..(Wrap - 1)
        /\ quiet[k] \in 0..(RepeatDelay + 1)
    BY DEF TypeOK
  <2>2. CASE k \in New
    <3>1. next'[k] = Plus(ticks, RepeatDelay) /\ quiet'[k] = RepeatDelay + 1
      BY <2>2, <1>2 DEF End
    <3>2. /\ Plus(ticks, RepeatDelay) \in 0..(Wrap - 1)
          /\ Minus(Plus(ticks, RepeatDelay), ticks) = RepeatDelay
      BY <2>1, InputAssumption DEF Plus, Minus
    <3> QED
      BY <3>1, <3>2, InputAssumption
  <2>3. CASE k \in Repeat
    <3>1. next'[k] = Plus(ticks, RepeatNext) /\ quiet'[k] = RepeatNext + 1
      BY <2>3, <1>2 DEF End
    <3>2. /\ Plus(ticks, RepeatNext) \in 0..(Wrap - 1)
          /\ Minus(Plus(ticks, RepeatNext), ticks) = RepeatNext
      BY <2>1, InputAssumption DEF Plus, Minus
    <3> QED
      BY <3>1, <3>2, InputAssumption
  <2>4. CASE k \notin New \cup Repeat
    <3>1. next'[k] = next[k] /\ quiet'[k] = quiet[k]
      BY <2>4 DEF End
    <3> QED
      BY <3>1, <2>1 DEF NextIsAhead
  <2> QED
    BY <2>2, <2>3, <2>4
<1>6. next' \in [Keys -> 0..(Wrap - 1)] /\ quiet' \in [Keys -> 0..(RepeatDelay + 1)]
  <2>1. next' = [k \in Keys |-> next'[k]] /\ quiet' = [k \in Keys |-> quiet'[k]]
    BY DEF End
  <2> QED
    BY <1>5, <2>1
<1>7. TypeOK'
  BY <1>2, <1>3, <1>4, <1>6 DEF TypeOK, NoneTaken
<1>8. HistoryOK'
  BY <1>3
<1>9. CopyIsCurrent' /\ Masking'
  BY <1>3, <1>4 DEF CopyIsCurrent, Masking, Scanning
<1>10. NextIsAhead'
  BY <1>5 DEF NextIsAhead
<1>11. SeesTheKeys'
  BY <1>3 DEF SeesTheKeys
<1>12. NotHeldIsNew'
  <2> SUFFICES ASSUME NEW k \in down, k \notin held' PROVE k \in owed' \cup blinded'
    BY <1>3 DEF NotHeldIsNew
  <2>1. k \notin Pressed
    BY <1>2, <1>3 DEF Pressed
  <2>2. k \in owed \/ k \in blinded \/ (k \in held /\ k \notin taken.keys)
    BY <1>1, <1>3 DEF NotHeldIsNew, SeesTheKeys
  <2> QED
    BY <1>3, <2>1, <2>2
<1>13. AllWereUp'
  BY <1>3, <1>4 DEF AllWereUp
<1> QED
  BY <1>7, <1>8, <1>9, <1>10, <1>11, <1>12, <1>13

LEMMA CallersKeepInv ==
  ASSUME InputInv, Mask \/ (\E g \in {{}, Keys} \cup {{k} : k \in Keys} : Wait(g)) \/ Clear \/ Await
  PROVE  InputInv'
<1> USE DEF InputInv, HistoryOK, state, collected, history, Scanning
<1>1. CASE Mask
  BY <1>1 DEF Mask, TypeOK, CopyIsCurrent, Masking, NextIsAhead, SeesTheKeys, NotHeldIsNew, AllWereUp
<1>2. ASSUME NEW g \in {{}, Keys} \cup {{k} : k \in Keys}, Wait(g) PROVE InputInv'
  <2>1. g \subseteq Keys
    OBVIOUS
  <2>2. TypeOK' /\ HistoryOK' /\ CopyIsCurrent' /\ Masking' /\ NextIsAhead'
    BY <1>2, <2>1 DEF Wait, Reset, TypeOK, CopyIsCurrent, Masking, NextIsAhead
  <2>3. SeesTheKeys' /\ NotHeldIsNew' /\ AllWereUp'
    BY <1>2 DEF Wait, Reset, SeesTheKeys, NotHeldIsNew, AllWereUp
  <2> QED
    BY <2>2, <2>3
<1>3. CASE Clear
  <2>1. TypeOK' /\ HistoryOK' /\ CopyIsCurrent' /\ Masking' /\ NextIsAhead'
    BY <1>3 DEF Clear, Reset, TypeOK, CopyIsCurrent, Masking, NextIsAhead
  <2>2. SeesTheKeys' /\ NotHeldIsNew' /\ AllWereUp'
    BY <1>3 DEF Clear, Reset, SeesTheKeys, NotHeldIsNew, AllWereUp
  <2> QED
    BY <2>1, <2>2
<1>4. CASE Await
  <2>1. TypeOK' /\ HistoryOK' /\ CopyIsCurrent' /\ Masking' /\ NextIsAhead'
    BY <1>4 DEF Await, Reset, TypeOK, CopyIsCurrent, Masking, NextIsAhead
  <2>2. SeesTheKeys' /\ NotHeldIsNew' /\ AllWereUp'
    BY <1>4 DEF Await, Reset, SeesTheKeys, NotHeldIsNew, AllWereUp
  <2> QED
    BY <2>1, <2>2
<1> QED
  BY <1>1, <1>2, <1>3, <1>4

LEMMA NextKeepsInv == InputInv /\ [Next]_vars => InputInv'
<1> SUFFICES ASSUME InputInv, [Next]_vars PROVE InputInv'
  OBVIOUS
<1>1. CASE UNCHANGED vars
  BY <1>1 DEF InputInv, HistoryOK, vars, state, collected, history, TypeOK, CopyIsCurrent, Masking,
     NextIsAhead, SeesTheKeys, NotHeldIsNew, AllWereUp
<1> QED
  BY <1>1, VblankKeepsInv, BeginKeepsInv, EndKeepsInv, CallersKeepInv DEF Next

LEMMA InitHasInv == Init => InputInv
<1> SUFFICES ASSUME Init PROVE InputInv
  OBVIOUS
<1>1. TypeOK /\ HistoryOK
  <2>1. 0 \in 0..(Wrap - 1) /\ 0 \in 0..(RepeatDelay + 1)
    BY InputAssumption
  <2> QED
    BY <2>1 DEF Init, TypeOK, HistoryOK, NoneTaken
<1>2. CopyIsCurrent /\ Masking
  BY DEF Init, CopyIsCurrent, Masking, Scanning
<1>3. NextIsAhead /\ SeesTheKeys /\ NotHeldIsNew /\ AllWereUp
  BY DEF Init, NextIsAhead, SeesTheKeys, NotHeldIsNew, AllWereUp
<1> QED
  BY <1>1, <1>2, <1>3 DEF InputInv

LEMMA InputInvariant == Spec => []InputInv
  BY InitHasInv, NextKeepsInv, PTL DEF Spec

-----------------------------------------------------------------------------
(* What the callers rely on.                                               *)

\* Whenever the program waits for a key, interrupts are on: input_reset turns
\* them on, also inside xmodem_recv_block.
THEOREM InputListens == Spec => []ListensBetweenUpdates
<1>1. InputInv => ListensBetweenUpdates
  BY DEF InputInv, Masking, Scanning, ListensBetweenUpdates
<1> QED
  BY <1>1, InputInvariant, PTL

\* A key that is reported again without having been pressed again was held for
\* the whole delay, or was lost sight of by an update without a frame.
THEOREM InputActsOnce == Spec => ActsOncePerPress
<1> DEFINE Acts == \A k \in Keys : End /\ k \in Pressed => k \in owed \/ quiet[k] = 0 \/ k \in blinded
<1>1. InputInv => Acts
  <2> SUFFICES ASSUME InputInv, End, NEW k \in Keys, k \in Pressed
               PROVE  k \in owed \/ quiet[k] = 0 \/ k \in blinded
    OBVIOUS
  <2>1. taken = [keys |-> keys, repressed |-> repressed, released |-> released]
    BY DEF InputInv, CopyIsCurrent, Scanning, End
  <2>2. CASE k \in New
    BY <2>1, <2>2 DEF New, Stop, InputInv, SeesTheKeys, NotHeldIsNew
  <2>3. CASE k \in Repeat
    <3>1. ~Waiting(k) /\ k \in held /\ k \notin taken.repressed
      BY <2>3 DEF Repeat, Stop, New
    <3>2. ~(Minus(next[k], ticks) < Wrap \div 2)
      BY <3>1 DEF Waiting
    <3>3. quiet[k] \in 0..(RepeatDelay + 1)
      BY DEF InputInv, TypeOK
    <3>4. RepeatDelay < Wrap \div 2
      BY InputAssumption
    <3>5. quiet[k] > 0 => Minus(next[k], ticks) = quiet[k] - 1
      BY DEF InputInv, NextIsAhead
    <3> QED
      BY <3>2, <3>3, <3>4, <3>5, InputAssumption
  <2> QED
    BY <2>2, <2>3 DEF Pressed
<1>2. Spec => [][Acts]_vars
  BY <1>1, InputInvariant, PTL
<1> QED
  BY <1>2 DEF ActsOncePerPress

\* A key that was let go and pressed again between two updates is reported.
THEOREM InputReportsEveryPress == Spec => ReportsEveryPress
<1> DEFINE Reports ==
      \A k \in Keys :
        End /\ k \in again /\ (\A j \in Keys : j < k => j \notin taken.keys) => Pressed = {k}
<1>1. InputInv => Reports
  <2> SUFFICES ASSUME InputInv, End, NEW k \in Keys, k \in again,
                      \A j \in Keys : j < k => j \notin taken.keys
               PROVE  Pressed = {k}
    OBVIOUS
  <2>1. taken = [keys |-> keys, repressed |-> repressed, released |-> released]
    BY DEF InputInv, CopyIsCurrent, Scanning, End
  <2>2. k \in taken.keys /\ (k \in held => k \in taken.repressed)
    BY <2>1 DEF InputInv, SeesTheKeys
  <2>3. ~Waiting(k)
    BY <2>2 DEF Waiting
  <2>4. k \in Stop
    BY <2>2, <2>3 DEF Stop, Reached
  <2>5. ASSUME NEW j \in Stop PROVE j = k
    <3>1. j \in Keys /\ j \in taken.keys /\ (k < j => Waiting(k))
      BY <2>2 DEF Stop, Reached
    <3>2. ~(j < k) /\ ~(k < j)
      BY <3>1, <2>3
    <3> QED
      BY <3>1, <3>2, InputAssumption
  <2>6. k \in New
    BY <2>1, <2>2, <2>4 DEF New, InputInv, TypeOK
  <2> QED
    BY <2>4, <2>5, <2>6 DEF Pressed, Repeat, New
<1>2. Spec => [][Reports]_vars
  BY <1>1, InputInvariant, PTL
<1> QED
  BY <1>2 DEF ReportsEveryPress

\* input_wait_key and input_wait_any_key end on a press that began after them.
THEOREM InputWaitsForAFreshPress == Spec => WaitsForAFreshPress
<1> DEFINE Waits == pc = "await" /\ pc' = "awaited" => goal \cap since # {}
<1>1. InputInv /\ [Next]_vars => Waits
  <2> SUFFICES ASSUME InputInv, [Next]_vars, pc = "await", pc' = "awaited"
               PROVE  goal \cap since # {}
    OBVIOUS
  <2>1. Await
    BY DEF Next, vars, Vblank, Begin, End, Mask, Wait, Clear
  <2> QED
    BY <2>1 DEF Await, InputInv, AllWereUp
<1>2. Spec => [][Waits]_vars
  BY <1>1, InputInvariant, PTL DEF Spec
<1> QED
  BY <1>2 DEF WaitsForAFreshPress
=============================================================================
