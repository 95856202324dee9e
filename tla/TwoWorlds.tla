------------------------------ MODULE TwoWorlds ------------------------------
(***************************************************************************)
(* What the monitor promises its two guests: each world has registers of   *)
(* its own, computes only while it runs, and finds them, when it runs      *)
(* again, as it left them.                                                 *)
(***************************************************************************)
CONSTANTS
    Own,    \* the register banks each world owns
    Vals    \* what a bank may hold

Worlds == {"S", "NS"}

VARIABLES
    running,    \* the world that owns the CPU
    regs        \* the registers of each world

vars == <<running, regs>>

\* The secure guest starts first.
Init ==
    /\ running = "S"
    /\ DOMAIN regs = Worlds
    /\ \A w \in Worlds : regs[w] \in [Own[w] -> Vals]

\* The running guest computes: only its own registers change.
Compute(w) ==
    /\ running = w
    /\ regs'[w] \in [Own[w] -> Vals]
    /\ \A v \in Worlds \ {w} : regs'[v] = regs[v]
    /\ DOMAIN regs' = Worlds
    /\ UNCHANGED running

\* The CPU goes to the other world; no register of either changes.
Switch ==
    /\ running' \in Worlds \ {running}
    /\ UNCHANGED regs

Next == Switch \/ \E w \in Worlds : Compute(w)

Spec == Init /\ [][Next]_vars
=============================================================================
