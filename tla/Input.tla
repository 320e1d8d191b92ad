------------------------------- MODULE Input -------------------------------
(***************************************************************************)
(* The keys (src/src/input.c).  The vertical blank's interrupt handler     *)
(* collects which keys were down, up after having been held, and down      *)
(* again; input_update takes that, forgets it, and reports at most one     *)
(* key, with key repeat; the input_wait functions forget it at every       *)
(* frame.  The callers are the menus and dialogs, which update once per    *)
(* frame or less, and the XMODEM code, which polls for the B button as     *)
(* fast as it can, the receiver with interrupts off.                       *)
(***************************************************************************)
EXTENDS Integers

CONSTANTS
  Keys,         \* the keys, by the number of their bit: 1 to 11
  Wrap,         \* 256: the ticks that are looked at are uint8_t
  RepeatDelay,  \* JOY_REPEAT_DELAY: 15
  RepeatNext    \* JOY_REPEAT_DELAY_NEXT: 3

ASSUME InputAssumption ==
  /\ Keys \subseteq Nat
  /\ RepeatDelay \in Nat /\ RepeatNext \in 0..RepeatDelay
  /\ Wrap \in Nat /\ 2 * (RepeatDelay + 1) <= Wrap

VARIABLES
  ticks,                     \* the low byte of vbl_ticks
  keys, repressed, released, \* input_keys, .._repressed and .._released
  held, next,                \* input_held, input_vbls_next
  taken,                     \* input_update's copy of the first three
  irq,                       \* interrupts are enabled
  pc,                        \* the caller, or the function that is under way
  goal,                      \* the keys, one of which an input_wait function waits
                             \* for; none if it waits until all are up
  ticked,                    \* a frame has begun since it or the caller waits
  down,                      \* history: the keys that were down at the last blank
  owed,                      \* history: pressed since they were last reported
  quiet,                     \* history: ticks until a key that is held may repeat
  blinded,                   \* history: held while an update came without a blank
  again,                     \* history: up, then down, since the last reset
  since                      \* history: pressed since the wait began

state == <<held, next, taken>>
collected == <<keys, repressed, released>>
history == <<down, owed, quiet, blinded, again, since>>
vars == <<ticks, collected, state, irq, pc, goal, ticked, history>>

\* uint8_t arithmetic.
Plus(a, n) == IF a + n < Wrap THEN a + n ELSE a + n - Wrap
Minus(a, b) == IF a >= b THEN a - b ELSE a - b + Wrap

-----------------------------------------------------------------------------
(* The vertical blank: vblank_int_handler and vblank_input_update.         *)

Vblank ==
  /\ irq
  /\ ticks' = Plus(ticks, 1)
  /\ \E now \in SUBSET Keys :
       /\ keys' = keys \cup now
       /\ repressed' = repressed \cup (now \cap released)
       /\ released' = released \cup (held \ now)
       /\ down' = now
       /\ owed' = owed \cup (now \ down)
       /\ again' = IF ticked THEN again \cup (now \ down) ELSE again
       /\ since' = IF pc = "caller" THEN since ELSE since \cup (now \ down)
  /\ quiet' = [k \in Keys |-> IF quiet[k] = 0 THEN 0 ELSE quiet[k] - 1]
  /\ ticked' = TRUE
  /\ UNCHANGED <<state, irq, pc, goal, blinded>>

-----------------------------------------------------------------------------
(* input_update.                                                           *)

\* Mutant: interrupts are left as they were.
ResetOnly ==
  /\ keys' = {} /\ repressed' = {} /\ released' = {}
  /\ irq' = irq
  /\ ticked' = FALSE /\ again' = {}

\* input_reset, which enables interrupts whatever they were.
Reset ==
  /\ keys' = {} /\ repressed' = {} /\ released' = {}
  /\ irq' = TRUE
  /\ ticked' = FALSE /\ again' = {}

\* Mutant: the ticks are compared without their wrapping round.
WaitingUnwrapped(k) == k \in held /\ k \notin taken.repressed /\ ticks < next[k]

\* A key that is held and whose repeat is not due: the loop goes on to the next.
Waiting(k) == k \in held /\ k \notin taken.repressed /\ Minus(next[k], ticks) < Wrap \div 2

\* The keys that the loop comes to, up to the first that is down and not waiting.
Reached == {k \in Keys : \A j \in Keys : j < k /\ j \in taken.keys => Waiting(j)}
Stop == {k \in Reached \cap taken.keys : ~Waiting(k)}

\* Mutant: a held key is new only when it was seen up by an update.
NewWhenUp == {k \in Stop : k \notin held \cup taken.released}

\* A new press, and one that is repeated because it lasts.
New == {k \in Stop : k \in taken.repressed \/ k \notin held \cup taken.released}
Repeat == {k \in Stop \ New : k \notin taken.released}

\* input_pressed, which the caller then looks at.
Pressed == New \cup Repeat

\* The menus and dialogs come here after wait_for_vblank, xmodem_poll_exit in a
\* loop as fast as it can.
Begin ==
  /\ pc \in {"caller", "masked", "cleared", "awaited"}
  /\ pc' = IF pc = "cleared" THEN "clearScan" ELSE "scan"
  /\ irq' = FALSE
  /\ taken' = [keys |-> keys, repressed |-> repressed, released |-> released]
  /\ UNCHANGED <<ticks, collected, held, next, goal, ticked, history>>

NoneTaken == [keys |-> {}, repressed |-> {}, released |-> {}]

\* Back to the caller, or to the second half of input_wait_key.
Return ==
  IF pc = "clearScan" /\ goal # {}
  THEN pc' = "await" /\ UNCHANGED goal
  ELSE pc' = "caller" /\ goal' = {}

End ==
  /\ pc \in {"scan", "clearScan"}
  /\ held' = (held \ {k \in Reached \ New : k \notin taken.keys \/ k \in taken.released}) \cup New
  /\ next' = [k \in Keys |-> CASE k \in New -> Plus(ticks, RepeatDelay)
                               [] k \in Repeat -> Plus(ticks, RepeatNext)
                               [] OTHER -> next[k]]
  /\ taken' = NoneTaken
  /\ Reset
  /\ Return
  /\ owed' = owed \ Pressed
  /\ quiet' = [k \in Keys |-> CASE k \in New -> RepeatDelay + 1
                                [] k \in Repeat -> RepeatNext + 1
                                [] OTHER -> quiet[k]]
  /\ blinded' = (blinded \cup ((held \cap down) \ taken.keys)) \ Pressed
  /\ since' = IF pc' = "caller" THEN {} ELSE since
  /\ UNCHANGED <<ticks, down>>

-----------------------------------------------------------------------------
(* The callers.                                                            *)

\* xmodem_recv_block, before it polls.
Mask ==
  /\ pc = "caller"
  /\ pc' = "masked" /\ irq' = FALSE
  /\ UNCHANGED <<ticks, collected, state, goal, ticked, history>>

\* Mutant: the keys need not be up first.
WaitUncleared(g) ==
  /\ pc = "caller"
  /\ pc' = (IF g = {} THEN "clear" ELSE "await") /\ goal' = g
  /\ Reset
  /\ UNCHANGED <<ticks, state, down, owed, quiet, blinded, since>>

\* input_wait_clear, input_wait_any_key, input_wait_key.
Wait(g) ==
  /\ pc = "caller"
  /\ pc' = "clear" /\ goal' = g
  /\ Reset
  /\ UNCHANGED <<ticks, state, down, owed, quiet, blinded, since>>

\* The loops' conditions, after wait_for_vblank.
Clear ==
  /\ pc = "clear" /\ ticked
  /\ IF keys = {}
     THEN pc' = "cleared" /\ UNCHANGED <<collected, irq, ticked, again>>
     ELSE Reset /\ UNCHANGED pc
  /\ UNCHANGED <<ticks, state, goal, down, owed, quiet, blinded, since>>

Await ==
  /\ pc = "await" /\ ticked
  /\ IF keys \cap goal # {}
     THEN pc' = "awaited" /\ UNCHANGED <<collected, irq, ticked, again>>
     ELSE Reset /\ UNCHANGED pc
  /\ UNCHANGED <<ticks, state, goal, down, owed, quiet, blinded, since>>

Init ==
  /\ ticks = 0
  /\ keys = {} /\ repressed = {} /\ released = {}
  /\ held = {} /\ next = [k \in Keys |-> 0]
  /\ taken = NoneTaken
  /\ irq = TRUE /\ pc = "caller" /\ goal = {} /\ ticked = FALSE
  /\ down = {} /\ owed = {} /\ quiet = [k \in Keys |-> 0]
  /\ blinded = {} /\ again = {} /\ since = {}

Next ==
  \/ Vblank
  \/ Begin \/ End
  \/ Mask
  \/ \E g \in {{}, Keys} \cup {{k} : k \in Keys} : Wait(g)
  \/ Clear \/ Await

Spec == Init /\ [][Next]_vars

-----------------------------------------------------------------------------
TypeOK ==
  /\ ticks \in 0..(Wrap - 1) /\ next \in [Keys -> 0..(Wrap - 1)]
  /\ keys \subseteq Keys /\ repressed \subseteq keys /\ released \subseteq held
  /\ held \subseteq Keys
  /\ taken \in [keys : SUBSET Keys, repressed : SUBSET Keys, released : SUBSET Keys]
  /\ irq \in BOOLEAN /\ ticked \in BOOLEAN
  /\ pc \in {"caller", "masked", "scan", "clear", "cleared", "clearScan", "await", "awaited"}
  /\ goal \subseteq Keys
  /\ quiet \in [Keys -> 0..(RepeatDelay + 1)]

\* A press acts once: a key is only reported without having been pressed again
\* when it was held for the whole delay.  That takes a frame between any two
\* updates; where the caller polls without one, a held key acts again.
ActsOncePerPress ==
  [][\A k \in Keys :
       End /\ k \in Pressed => k \in owed \/ quiet[k] = 0 \/ k \in blinded]_vars

\* A key that was let go and pressed again between two updates is reported by
\* the second, unless a key before it in the order is down.
ReportsEveryPress ==
  [][\A k \in Keys :
       End /\ k \in again /\ (\A j \in Keys : j < k => j \notin taken.keys) => Pressed = {k}]_vars

\* The input_wait functions: what was held when the caller began to wait does
\* not answer; only a press from then on does.
WaitsForAFreshPress ==
  [][pc = "await" /\ pc' = "awaited" => goal \cap since # {}]_vars

\* Whenever the program waits for a key, the interrupt that would see it is on,
\* also where xmodem_recv_block has turned it off before it polls.
ListensBetweenUpdates == pc \in {"caller", "clear", "await"} => irq
=============================================================================
