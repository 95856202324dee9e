--------------------------------- MODULE Gic ---------------------------------
(***************************************************************************)
(* The interrupt controller (ARM GIC PL390 with the security extensions)   *)
(* as the monitor and the guests see it: which interrupt is signalled, as  *)
(* what, and what an acknowledge or an end-of-interrupt does.  The         *)
(* controller is hardware; this is how the code under src/ uses it.        *)
(*                                                                         *)
(* `line' is the set of interrupts whose device asserts its line, `active' *)
(* the set of acknowledged interrupts whose end was not written yet.       *)
(***************************************************************************)
EXTENDS Naturals

CONSTANTS
    Secure,     \* the interrupts configured Int_S (signalled as FIQ)
    NonSecure,  \* the interrupts configured Int_NS (signalled as IRQ)
    Prio        \* the priority of each, a lower number being more urgent

Ints == Secure \cup NonSecure

\* An interrupt number is the index into the distributor's registers; the
\* two groups of ICDISR are disjoint.
ASSUME IntsAssumption ==
    /\ Secure \subseteq Nat
    /\ NonSecure \subseteq Nat
    /\ Secure \cap NonSecure = {}

ASSUME PrioAssumption == Prio \in [Ints -> Nat]

\* The length of fiq_handlers (NO_OF_INTERRUPTS_IMPLEMENTED).
TableSize == 96

\* What ICCIAR holds when the best candidate belongs to the other group, and
\* when there is none (SPURIOUS_INTERRUPT).
OtherGroup == 1022
Spurious == 1023

ASSUME TableAssumption == \A i \in Ints : i < TableSize

\* The distributor offers the most urgent pending interrupt, the lowest
\* number among equals.
MoreUrgent(i, j) == Prio[i] < Prio[j] \/ (Prio[i] = Prio[j] /\ i < j)

IsBest(i, line, active) ==
    /\ i \in line \ active
    /\ \A j \in (line \ active) \ {i} : MoreUrgent(i, j)

\* The CPU interface passes it on if it is more urgent than everything the
\* CPU is already handling.
Signalled(i, line, active) ==
    /\ IsBest(i, line, active)
    /\ \A j \in active : Prio[i] < Prio[j]

\* ICCICR has FIQEn set: a secure candidate is raised as FIQ, another as IRQ.
Fiq(line, active) == \E i \in Secure : Signalled(i, line, active)
Irq(line, active) == \E i \in NonSecure : Signalled(i, line, active)

\* A secure read of ICCIAR with AckCtl clear: the secure candidate, or 1022
\* when the candidate is non-secure, or 1023.
SecureIccIar(line, active) ==
    IF Fiq(line, active)
    THEN CHOOSE i \in Secure : Signalled(i, line, active)
    ELSE IF Irq(line, active) THEN OtherGroup ELSE Spurious

\* A non-secure read sees only non-secure candidates.
NonSecureIccIar(line, active) ==
    IF Irq(line, active)
    THEN CHOOSE i \in NonSecure : Signalled(i, line, active)
    ELSE Spurious

\* The read makes the interrupt it returns active; writing ICCEOIR ends it.
Acknowledge(id, active) == active \cup ({id} \cap Ints)
EndOfInterrupt(id, active) == active \ {id}
=============================================================================
